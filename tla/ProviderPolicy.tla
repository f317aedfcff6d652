---------------------------- MODULE ProviderPolicy ----------------------------
(***************************************************************************)
(* One provider-backed operation of kb: call_with_provider_policy tries    *)
(* the operation's providers in the order of its configuration, and        *)
(* call_with_retry repeats the call to each of them.  Whether a failure    *)
(* is repeated, and whether the next provider is tried, depends on the     *)
(* failure's type or, when it has none, on the words of its message.       *)
(***************************************************************************)
EXTENDS Naturals, Sequences

CONSTANTS
  Providers,     \* the names of the configured providers
  Cloud,         \* those that privacy calls cloud providers
  Backend,       \* the adapter of each provider
  Topics,        \* topics of notes
  Wordy,         \* topics whose name holds one of _TRANSIENT_MESSAGE_TOKENS
  MaxRoutes,     \* the primary provider and its fallbacks
  MaxAttempts,   \* providers.retry.max_attempts
  None

ASSUME PolicyAssumption ==
  /\ Cloud \subseteq Providers
  /\ Wordy \subseteq Topics
  /\ MaxRoutes \in Nat \ {0}
  /\ MaxAttempts \in Nat \ {0}

VARIABLES
  conf,     \* the configuration, and the topics the operation names
  at,       \* where the operation is
  index,    \* the route that is tried
  attempt,  \* the number of the call to it
  tries,    \* how often each route has been called
  ended     \* the error that ended each route

vars == <<conf, at, index, attempt, tries, ended>>

Routes == 1..MaxRoutes
Kinds == {"http_transient", "http_permanent", "timeout", "transport",
          "provider", "schema", "setup", "privacy"}

(* What is left of an exception: what it is, whether its cause has one of  *)
(* the types that are looked for, whether its text has one of the words.   *)
Error == [kind : Kinds, typed : BOOLEAN, words : BOOLEAN]

Typed   == [kind : {"http_transient", "http_permanent", "timeout", "transport"},
            typed : {TRUE}, words : BOOLEAN]
Stated  == [kind : {"provider"}, typed : {FALSE}, words : BOOLEAN]
Schema  == [kind : {"schema"},   typed : {FALSE}, words : BOOLEAN]
Expired == [kind : {"timeout"},  typed : {FALSE}, words : {TRUE}]

(* The errors a call to each adapter can end with.                         *)
OllamaFailures    == Typed \cup Stated \cup Schema
AnthropicFailures == Typed \cup Schema
CodexFailures     == Typed \cup Stated \cup Schema
LocalFailures     == Typed \cup Stated \cup Schema
ClaudeCliFailures == Expired \cup Stated \cup Schema
CodexCliFailures  == Expired \cup Stated \cup Schema

Failures(p) ==
  CASE Backend[p] = "ollama"    -> OllamaFailures
    [] Backend[p] = "anthropic" -> AnthropicFailures
    [] Backend[p] = "codex"     -> CodexFailures
    [] Backend[p] = "local"     -> LocalFailures
    [] Backend[p] = "claude"    -> ClaudeCliFailures
    [] Backend[p] = "codexcli"  -> CodexCliFailures
    [] OTHER                    -> {}

(* classify_provider_failure; an error that is raised again keeps its      *)
(* cause and its text, so it is classified as before.                      *)
Transient(e) ==
  IF e.typed THEN e.kind # "http_permanent" ELSE e.words

(***************************************************************************)
(* Configurations: operation_routes as validate_config lets them be.       *)
(***************************************************************************)
RouteSeqs ==
  {r \in UNION {[1..n -> Providers] : n \in Routes} :
     \A i, j \in DOMAIN r : r[i] = r[j] => i = j}

(* named are the topics of the notes that are sent; ingest passes none.    *)
Conf == [routes : RouteSeqs, cloud : BOOLEAN, blocked : SUBSET Topics,
         named : SUBSET Topics, usable : SUBSET Providers]

ASSUME NoneAssumption == None \notin Error \cup Conf

Matched == conf.blocked \cap conf.named

(* Faulty: privacy is asked of the primary provider only.                  *)
IsBlocked_Primary(p) ==
  p = conf.routes[1] /\ p \in Cloud /\ (~conf.cloud \/ Matched # {})

IsBlocked(p) == p \in Cloud /\ (~conf.cloud \/ Matched # {})
Privacy == [kind |-> "privacy", typed |-> FALSE,
            words |-> conf.cloud /\ Matched \cap Wordy # {}]
Setup == [kind : {"setup"}, typed : {FALSE}, words : BOOLEAN]

Idle ==
  /\ conf = None
  /\ at = "idle"
  /\ index = 1
  /\ attempt = 0
  /\ tries = [i \in Routes |-> 0]
  /\ ended = [i \in Routes |-> None]

Init == Idle

(***************************************************************************)
(* call_with_provider_policy                                               *)
(***************************************************************************)
Begin ==
  /\ at = "idle"
  /\ conf' \in Conf
  /\ at' = "select"
  /\ UNCHANGED <<index, attempt, tries, ended>>

Current == conf.routes[index]

(* Faulty: the routes are tried in a circle.                               *)
RouteEnds_Wraps(e) ==
  /\ ended' = [ended EXCEPT ![index] = e]
  /\ IF Transient(e)
     THEN at' = "select" /\ index' = IF index < Len(conf.routes) THEN index + 1 ELSE 1
     ELSE at' = "failed" /\ UNCHANGED index

(* Faulty: any error leads to the next route.                              *)
RouteEnds_Any(e) ==
  /\ ended' = [ended EXCEPT ![index] = e]
  /\ IF index < Len(conf.routes)
     THEN at' = "select" /\ index' = index + 1
     ELSE at' = "failed" /\ UNCHANGED index

(* The handler of ProviderError: the next route, or the end.               *)
RouteEnds(e) ==
  /\ ended' = [ended EXCEPT ![index] = e]
  /\ IF Transient(e) /\ index < Len(conf.routes)
     THEN at' = "select" /\ index' = index + 1
     ELSE at' = "failed" /\ UNCHANGED index

Block ==
  /\ at = "select" /\ IsBlocked(Current)
  /\ RouteEnds(Privacy)
  /\ UNCHANGED <<conf, attempt, tries>>

NotBuilt ==
  /\ at = "select" /\ ~IsBlocked(Current) /\ Current \notin conf.usable
  /\ \E e \in Setup : RouteEnds(e)
  /\ UNCHANGED <<conf, attempt, tries>>

Call ==
  /\ tries' = [tries EXCEPT ![index] = @ + 1]
  /\ at' = "calling"

Build ==
  /\ at = "select" /\ ~IsBlocked(Current) /\ Current \in conf.usable
  /\ Call
  /\ attempt' = 1
  /\ UNCHANGED <<conf, index, ended>>

(***************************************************************************)
(* call_with_retry                                                         *)
(***************************************************************************)
Answer ==
  /\ at = "calling"
  /\ at' = "answered"
  /\ UNCHANGED <<conf, index, attempt, tries, ended>>

(* Faulty: max_attempts counts the repetitions.                            *)
Retryable_OneMore(e) == Transient(e) /\ attempt <= MaxAttempts

Retryable(e) == Transient(e) /\ attempt < MaxAttempts

Wait ==
  /\ at = "calling"
  /\ \E e \in Failures(Current) : Retryable(e)
  /\ at' = "waiting"
  /\ UNCHANGED <<conf, index, attempt, tries, ended>>

Repeat ==
  /\ at = "waiting"
  /\ Call
  /\ attempt' = attempt + 1
  /\ UNCHANGED <<conf, index, ended>>

GiveUp ==
  /\ at = "calling"
  /\ \E e \in Failures(Current) : ~Retryable(e) /\ RouteEnds(e)
  /\ UNCHANGED <<conf, attempt, tries>>

(* A connection that is closed before the answer, or an answer that is no  *)
(* UTF-8, raises what nobody turns into a ProviderError.                   *)
Escape ==
  /\ at = "calling" /\ Failures(Current) # {}
  /\ at' = "escaped"
  /\ UNCHANGED <<conf, index, attempt, tries, ended>>

Step == Block \/ NotBuilt \/ Build \/ Answer \/ Wait \/ Repeat \/ GiveUp \/ Escape
Next == Begin \/ Step

Spec == Init /\ [][Next]_vars

-------------------------------------------------------------------------------
TypeOK ==
  /\ conf \in Conf \cup {None}
  /\ at \in {"idle", "select", "calling", "waiting", "answered", "failed", "escaped"}
  /\ at # "idle" => conf # None
  /\ index \in Routes
  /\ conf # None => index \in 1..Len(conf.routes)
  /\ attempt \in 0..MaxAttempts
  /\ tries \in [Routes -> 0..MaxAttempts]
  /\ ended \in [Routes -> Error \cup {None}]

(* A cloud provider is never called, not as a fallback either, when the    *)
(* settings exclude cloud providers or a topic of the operation's notes.   *)
PrivacyKept ==
  conf # None =>
    \A i \in 1..Len(conf.routes) :
      tries[i] > 0 /\ conf.routes[i] \in Cloud =>
        conf.cloud /\ conf.blocked \cap conf.named = {}

(* The failures that docs/configuration.md and docs/troubleshooting.md name *)
(* as those a fallback is for.                                             *)
Passing == {"http_transient", "timeout", "transport"}

(* No error that is known by its text alone reads like one of those.       *)
PlainlySaid ==
  \A i \in Routes :
    ended[i] # None /\ ~ended[i].typed /\ ended[i].kind \notin Passing => ~ended[i].words

(* A provider that has been called is given up for the next one only when  *)
(* it has been called max_attempts times, counted anew for each provider.  *)
(* And as long as no error reads like what it is not, the next one is      *)
(* called only after that many calls, the last of which ended in a passing *)
(* failure.  What the docs say of all errors is FallbackOnlyForPassing.    *)
FallbackIsEarned ==
  \A i, j \in Routes : i < j /\ tries[j] > 0 =>
    /\ tries[i] \in {0, MaxAttempts}
    /\ PlainlySaid => tries[i] = MaxAttempts /\ ended[i].kind \in Passing

(* The docs' claim: fallback never runs for configuration errors, missing  *)
(* credentials or response schema errors, whatever their text says.        *)
FallbackOnlyForPassing ==
  \A i, j \in Routes : i < j /\ tries[j] > 0 => ended[i].kind \notin {"setup", "schema"}

(* A bound on the steps that the present route may still take.             *)
Left ==
  CASE at = "select"  -> 2 * MaxAttempts
    [] at = "calling" -> 2 * (MaxAttempts - attempt) + 1
    [] at = "waiting" -> 2 * (MaxAttempts - attempt)
    [] OTHER -> 0

(* Every operation comes to an end: a step leads to a later route, or      *)
(* nearer to the end of the present one, whatever fails and however.  Each *)
(* call ends, since each adapter has a timeout, and each wait is finite.   *)
RouteByRoute ==
  [][at # "idle" => \/ index' > index
                    \/ index' = index /\ Left' < Left]_vars
===============================================================================
