------------------------------ MODULE Registry ------------------------------
(***************************************************************************)
(* register.c: the modules that implement applications and transports      *)
(* enter themselves in two lists when mcabber loads them and leave when it *)
(* unloads them; the session code finds them by namespace, and asks for    *)
(* the transport that suits an application best.                           *)
(***************************************************************************)
EXTENDS Naturals, Sequences, FiniteSets, SequencesExt

CONSTANTS
  Apps, Transports,   \* namespaces, one for each module
  NoTransport,        \* NULL
  Crash,              \* NULL was dereferenced
  Type,               \* "streaming" or "datagram", of each module
  Priority,           \* of each transport
  Prefixed            \* the namespaces with Jingle's prefix for their list

ASSUME ModulesAssumption ==
  /\ Apps \cap Transports = {} /\ {NoTransport, Crash} \cap Transports = {}
  /\ Prefixed \subseteq Apps \cup Transports
  /\ Type \in [Apps \cup Transports -> {"streaming", "datagram"}]
ASSUME PriorityAssumption == Priority \in [Transports -> Nat]   \* 0 is an invalid priority

VARIABLES
  jingle_app_handlers,
  jingle_transport_handlers,
  loaded              \* the modules mcabber has loaded, once each

vars == <<jingle_app_handlers, jingle_transport_handlers, loaded>>

Init ==
  /\ jingle_app_handlers = <<>> /\ jingle_transport_handlers = <<>>
  /\ loaded = {}

\* jingle_register_app and jingle_register_transport: at the end of the list.
Registered(handlers, x) == IF x \in Prefixed THEN Append(handlers, x) ELSE handlers

\* Faulty: takes the list for a stack.
Unregistered_First(handlers, x) == IF handlers = <<>> THEN handlers ELSE Tail(handlers)

\* jingle_unregister_app and jingle_unregister_transport: the entry found by
\* name, the first one, if there is any.
Unregistered(handlers, x) ==
  LET Found(i) == i \in DOMAIN handlers /\ handlers[i] = x IN
  IF x \notin ToSet(handlers) THEN handlers
  ELSE RemoveAt(handlers, CHOOSE i \in DOMAIN handlers :
                            Found(i) /\ \A j \in 1 .. i - 1 : ~Found(j))

Load(x) ==
  /\ x \notin loaded /\ loaded' = loaded \cup {x}
  /\ \/ /\ x \in Apps /\ jingle_app_handlers' = Registered(jingle_app_handlers, x)
        /\ UNCHANGED jingle_transport_handlers
     \/ /\ x \in Transports
        /\ jingle_transport_handlers' = Registered(jingle_transport_handlers, x)
        /\ UNCHANGED jingle_app_handlers

Unload(x) ==
  /\ x \in loaded /\ loaded' = loaded \ {x}
  /\ \/ /\ x \in Apps /\ jingle_app_handlers' = Unregistered(jingle_app_handlers, x)
        /\ UNCHANGED jingle_transport_handlers
     \/ /\ x \in Transports
        /\ jingle_transport_handlers' = Unregistered(jingle_transport_handlers, x)
        /\ UNCHANGED jingle_app_handlers

\* Faulty: a transport of equal priority replaces the one found before it.
Better_Last(t, best) == best = NoTransport \/ Priority[t] >= Priority[best]

\* priority > bestprio, which is 0 at first.
Better(t, best) == Priority[t] > (IF best = NoTransport THEN 0 ELSE Priority[best])

\* The loop of jingle_transport_for_app, after each of its rounds.
Best(app, forbidden) ==
  LET handlers == jingle_transport_handlers
      Suits(t) == t \notin forbidden /\ Type[t] = Type[app]
      best[i \in 0 .. Len(handlers)] ==
        IF i = 0 THEN NoTransport
        ELSE IF Suits(handlers[i]) /\ Better(handlers[i], best[i - 1]) THEN handlers[i]
        ELSE best[i - 1]
  IN best[Len(handlers)]

\* jingle_transport_for_app, with a list of forbidden transports when listed: the
\* answer is appended to it, which dereferences NULL when there is none.
jingle_transport_for_app(app, listed, forbidden) ==
  IF app \notin ToSet(jingle_app_handlers) THEN NoTransport
  ELSE LET best == Best(app, IF listed THEN forbidden ELSE {}) IN
       IF best = NoTransport /\ listed THEN Crash ELSE best

Next == \E x \in Apps \cup Transports : Load(x) \/ Unload(x)

Spec == Init /\ [][Next]_vars

-----------------------------------------------------------------------------
(* Properties *)

\* The lists hold exactly the loaded modules, so no entry leads to functions that
\* were unloaded, and no module is found twice.
ListsLoaded ==
  LET handlers == jingle_app_handlers \o jingle_transport_handlers IN
  ToSet(handlers) = loaded \cap Prefixed /\ IsInjective(handlers)

\* The transport for an application is one of its type with the highest priority,
\* the one registered first when there are several, whatever the order in which
\* modules came and went.  No valid one left is no transport for the session code,
\* which passes no list.
BestTransport ==
  \A app \in loaded \cap Apps \cap Prefixed, listed \in BOOLEAN, forbidden \in SUBSET Transports :
    LET T(i)   == jingle_transport_handlers[i]
        suits  == {i \in DOMAIN jingle_transport_handlers :
                     /\ Type[T(i)] = Type[app] /\ Priority[T(i)] # 0
                     /\ listed => T(i) \notin forbidden}
        Beats(i, j) == Priority[T(i)] > Priority[T(j)] \/ (Priority[T(i)] = Priority[T(j)] /\ i <= j)
        answer == jingle_transport_for_app(app, listed, forbidden)
    IN IF suits = {} THEN listed \/ answer = NoTransport
       ELSE \E i \in suits : answer = T(i) /\ \A j \in suits : Beats(i, j)
=============================================================================
