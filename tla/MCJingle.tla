------------------------------ MODULE MCJingle ------------------------------
(* Values of the constants of Jingle for TLC. *)
EXTENDS Jingle, TLC

CONSTANTS a1, a2, s1, s2

\* Addresses and session identifiers are interchangeable.
Symmetry == Permutations({a1, a2}) \cup Permutations({s1, s2})

\* obs only says what the last step did: two states that differ in it have the
\* same future, and action properties are checked on every step anyway.
WithoutObs == <<live, sess, cstate, cfile, created, files, nfiles, acks, nacks,
                events, connected, aborted>>

Everything == DisorderKinds
=============================================================================
