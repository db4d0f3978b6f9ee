------------------------------ MODULE InitGuard ------------------------------
(***************************************************************************)
(* setka::init_guard (init_guard.cpp): what its constructor and destructor *)
(* do to the handler of SIGPIPE, by default the end of the process, which  *)
(* the system raises at a write to a connection that was closed.           *)
(*                                                                         *)
(* signal() returns the handler that it replaces.  The application may set *)
(* it too, but not while the guard is being made or destroyed.             *)
(***************************************************************************)
CONSTANT Handlers     \* signal handlers of the application

ASSUME HandlersAssumption == Handlers \cap {"default", "ignore", "none"} = {}

VARIABLES
    guard,     \* where the only object of the class is in its life
    sigpipe,   \* the handler of SIGPIPE
    handler,   \* the variable of that name in the constructor or destructor
    chosen,    \* what the application set last
    since      \* has it done so since the guard was made?

guardVars == <<guard, sigpipe, handler, chosen, since>>

Dispositions == Handlers \cup {"default", "ignore"}
Stages == {"none", "constructing", "alive", "cleaning", "restoring"}

GuardType ==
    /\ guard \in Stages
    /\ sigpipe \in Dispositions
    /\ handler \in Dispositions \cup {"none"}
    /\ chosen \in Dispositions
    /\ since \in BOOLEAN

GuardInit ==
    /\ guard = "none"
    /\ sigpipe \in Dispositions
    /\ handler = "none"
    /\ chosen = sigpipe
    /\ since = FALSE

\* The application calls signal().
Signal(d) ==
    /\ guard \in {"none", "alive"}
    /\ sigpipe' = d
    /\ chosen' = d
    /\ since' = TRUE
    /\ UNCHANGED <<guard, handler>>

\* handler = signal(SIGPIPE, SIG_IGN).
Construct ==
    /\ guard = "none"
    /\ guard' = "constructing"
    /\ handler' = sigpipe
    /\ sigpipe' = "ignore"
    /\ since' = FALSE
    /\ UNCHANGED chosen

\* A handler of the application is put back.
Constructed ==
    /\ guard = "constructing"
    /\ guard' = "alive"
    /\ sigpipe' = IF handler # "default" THEN handler ELSE sigpipe
    /\ handler' = "none"
    /\ UNCHANGED <<chosen, since>>

\* The destructor enters dns_resolver::clean_up().
BeginDestroy ==
    /\ guard = "alive"
    /\ guard' = "cleaning"
    /\ UNCHANGED <<sigpipe, handler, chosen, since>>

\* handler = signal(SIGPIPE, SIG_DFL), once clean_up() has returned.
ResetSignal ==
    /\ guard = "cleaning"
    /\ guard' = "restoring"
    /\ handler' = sigpipe
    /\ sigpipe' = "default"
    /\ UNCHANGED <<chosen, since>>

\* Mutant of Destroyed: the test of the constructor instead of its opposite.
DestroyedSwapped ==
    /\ guard = "restoring"
    /\ guard' = "none"
    /\ sigpipe' = IF handler # "default" THEN handler ELSE sigpipe
    /\ handler' = "none"
    /\ UNCHANGED <<chosen, since>>

\* SIG_IGN is taken for what the constructor set: the default stays.
Destroyed ==
    /\ guard = "restoring"
    /\ guard' = "none"
    /\ sigpipe' = IF handler # "ignore" THEN handler ELSE sigpipe
    /\ handler' = "none"
    /\ UNCHANGED <<chosen, since>>
=============================================================================
