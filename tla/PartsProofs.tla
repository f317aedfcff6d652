------------------------------ MODULE PartsProofs ------------------------------
(***************************************************************************)
(* Theorems about the parts of kb that share nothing: about one operation  *)
(* with its providers (ProviderPolicy), about provider sections            *)
(* (ProviderSetup) and search misses (SearchMisses), proved here; and that *)
(* the specification of the parts has them and those of GitAutoProofs,     *)
(* ReindexProofs and HygieneProofs.                                        *)
(***************************************************************************)
EXTENDS Parts, SequenceTheorems, TLAPS

(***************************************************************************)
(* ProviderPolicy                                                          *)
(***************************************************************************)

(* What the routes before the present one have behind them.                *)
Earned(i) ==
  /\ ended[i] # None
  /\ Transient(ended[i])
  /\ ended[i].typed => ended[i].kind \in Passing
  /\ tries[i] = MaxAttempts \/ (tries[i] = 0 /\ ended[i].kind \in {"setup", "privacy"})

(* The counters tell how far the operation has come: no route ahead has    *)
(* been called, and the calls of the present one are its attempts.         *)
Progress ==
  /\ conf = None => at = "idle"
  /\ at = "idle" => index = 1 /\ \A i \in Routes : tries[i] = 0
  /\ \A i \in Routes : i > index => tries[i] = 0
  /\ at = "select" => tries[index] = 0
  /\ at \in {"calling", "waiting"} => attempt \in 1..MaxAttempts /\ tries[index] = attempt
  /\ at = "waiting" => attempt < MaxAttempts
  /\ \A i \in Routes : i < index => Earned(i)

IInv == TypeOK /\ Progress /\ PrivacyKept

-------------------------------------------------------------------------------
LEMMA IntervalsHaveOneEnd ==
  ASSUME NEW a \in Nat, NEW b \in Nat, a >= 1, 1..a = 1..b
  PROVE  b = a
<1>1. a \in 1..b
  OBVIOUS
<1>2. b \in 1..a
  BY <1>1
<1> QED
  BY <1>1, <1>2

(* The routes of a configuration are a sequence of at most MaxRoutes.      *)
LEMMA RoutesAreSequences ==
  ASSUME NEW r \in RouteSeqs
  PROVE  /\ Len(r) \in Routes
         /\ r \in [1..Len(r) -> Providers]
<1>1. PICK n \in Routes : r \in [1..n -> Providers]
  BY DEF RouteSeqs
<1>2. n \in Nat /\ n >= 1
  BY <1>1, PolicyAssumption DEF Routes
<1>3. r \in Seq(Providers)
  BY <1>1, <1>2, SeqDef
<1>4. Len(r) \in Nat /\ r \in [1..Len(r) -> Providers]
  BY <1>3, LenProperties
<1>5. DOMAIN r = 1..n /\ DOMAIN r = 1..Len(r)
  BY <1>1, <1>4
<1>6. Len(r) = n
  BY <1>2, <1>4, <1>5, IntervalsHaveOneEnd
<1> QED
  BY <1>1, <1>4, <1>6

(* Whatever ends a call is an error as the module knows them.              *)
LEMMA FailuresAreErrors ==
  ASSUME NEW p, NEW e \in Failures(p)
  PROVE  e \in Error /\ (e.typed => e.kind \in Passing \cup {"http_permanent"})
<1> DEFINE Known == {f \in Error : f.typed => f.kind \in Passing \cup {"http_permanent"}}
<1>1. Typed \subseteq Known
  BY DEF Typed, Error, Kinds, Passing
<1>2. Stated \subseteq Known
  BY DEF Stated, Error, Kinds
<1>3. Schema \subseteq Known
  BY DEF Schema, Error, Kinds
<1>4. Expired \subseteq Known
  BY DEF Expired, Error, Kinds
<1>5. e \in Known
  BY <1>1, <1>2, <1>3, <1>4
  DEF Failures, OllamaFailures, AnthropicFailures, CodexFailures, LocalFailures,
      ClaudeCliFailures, CodexCliFailures
<1> QED
  BY <1>5

-------------------------------------------------------------------------------
LEMMA InitInv == Init => IInv
BY PolicyAssumption
DEF Init, Idle, IInv, TypeOK, Progress, PrivacyKept, Routes, Earned

(* A route that ends leaves the invariant as it was: it is the last, or it *)
(* has earned the next one.                                                *)
LEMMA RouteEndsKeepsInv ==
  ASSUME IInv, at \in {"select", "calling"},
         NEW e \in Error, RouteEnds(e), UNCHANGED <<conf, attempt, tries>>,
         e.typed => e.kind \in Passing \cup {"http_permanent"},
         Transient(e) => \/ tries[index] = MaxAttempts
                         \/ (tries[index] = 0 /\ e.kind \in {"setup", "privacy"})
  PROVE  IInv'
<1>1. (conf \in Conf /\ conf # None) \/ conf = None
  BY DEF IInv, TypeOK
<1>2. conf # None /\ conf \in Conf /\ index \in Routes
  BY <1>1 DEF IInv, TypeOK
<1>3. Len(conf.routes) \in Routes /\ Len(conf.routes) \in Nat
  BY <1>2, RoutesAreSequences, PolicyAssumption DEF Conf, Routes
<1>4. index \in 1..Len(conf.routes)
  BY <1>2 DEF IInv, TypeOK
<1>5. /\ index' \in Routes
      /\ index' \in 1..Len(conf.routes)
      /\ index' = index \/ (index' = index + 1 /\ at' = "select" /\ Transient(e))
      /\ at' \in {"select", "failed"}
      /\ at' = "select" => index' = index + 1
  BY <1>2, <1>3, <1>4, PolicyAssumption DEF RouteEnds, Routes
<1>6. /\ ended' \in [Routes -> Error \cup {None}]
      /\ ended'[index] = e
      /\ \A i \in Routes : i # index => ended'[i] = ended[i]
  BY <1>2 DEF RouteEnds, IInv, TypeOK
<1>7. TypeOK'
  BY <1>1, <1>2, <1>5, <1>6 DEF IInv, TypeOK
<1>8. \A i \in Routes : i < index' => Earned(i)'
  <2> SUFFICES ASSUME NEW i \in Routes, i < index'
               PROVE  Earned(i)'
    OBVIOUS
  <2>1. CASE i < index
    BY <1>6, <1>2, <2>1, PolicyAssumption DEF IInv, Progress, Earned, Transient, Passing, Routes
  <2>2. CASE i = index
    <3>1. Transient(e) /\ e # None
      BY <1>5, <1>2, <2>2, PolicyAssumption, NoneAssumption DEF Routes
    <3> QED
      BY <1>6, <2>2, <3>1 DEF Earned, Transient, Passing
  <2> QED
    BY <1>2, <1>5, <2>1, <2>2, PolicyAssumption DEF Routes
<1>9. Progress'
  <2>1. \A i \in Routes : i > index' => tries'[i] = 0
    BY <1>2, <1>5, PolicyAssumption DEF IInv, Progress, Routes
  <2>2. at' = "select" => tries'[index'] = 0
    BY <1>2, <1>5, PolicyAssumption DEF IInv, Progress, Routes
  <2> QED
    BY <1>2, <1>5, <1>8, <2>1, <2>2 DEF Progress
<1>10. PrivacyKept'
  BY DEF IInv, PrivacyKept
<1> QED
  BY <1>7, <1>9, <1>10 DEF IInv

(* What is called while calls are possible: a route that may be called.    *)
LEMMA CallKeepsInv ==
  ASSUME IInv, Call, UNCHANGED <<conf, index, ended>>, conf # None,
         attempt' \in 1..MaxAttempts, tries[index] + 1 = attempt',
         ~IsBlocked(Current) \/ tries[index] > 0
  PROVE  IInv'
<1>1. conf \in Conf /\ index \in Routes /\ index \in 1..Len(conf.routes)
  BY DEF IInv, TypeOK
<1>2. Len(conf.routes) \in Routes
  BY <1>1, RoutesAreSequences DEF Conf
<1>3. /\ tries' \in [Routes -> 0..MaxAttempts]
      /\ tries'[index] = attempt'
      /\ \A i \in Routes : i # index => tries'[i] = tries[i]
  BY <1>1, PolicyAssumption DEF Call, IInv, TypeOK
<1>4. TypeOK'
  BY <1>1, <1>3, PolicyAssumption DEF Call, IInv, TypeOK
<1>5. Progress'
  <2>1. \A i \in Routes : i < index => Earned(i)'
    BY <1>1, <1>3, PolicyAssumption DEF IInv, Progress, Earned, Transient, Passing, Routes
  <2> QED
    BY <1>1, <1>3, <2>1, PolicyAssumption DEF Call, IInv, Progress, Routes
<1>6. PrivacyKept'
  <2> SUFFICES ASSUME NEW i \in 1..Len(conf.routes), tries'[i] > 0, conf.routes[i] \in Cloud
               PROVE  conf.cloud /\ conf.blocked \cap conf.named = {}
    BY DEF PrivacyKept
  <2>1. i \in Routes
    BY <1>2, PolicyAssumption DEF Routes
  <2>2. CASE i # index
    BY <1>3, <2>1, <2>2 DEF IInv, PrivacyKept
  <2>3. CASE i = index
    BY <2>3 DEF IInv, PrivacyKept, IsBlocked, Current, Matched
  <2> QED
    BY <2>2, <2>3
<1> QED
  BY <1>4, <1>5, <1>6 DEF IInv

(* Nothing but the label of the operation changes.                         *)
LEMMA LabelKeepsInv ==
  ASSUME IInv, at # "idle", UNCHANGED <<conf, index, attempt, tries, ended>>,
         at' \in {"waiting", "answered", "escaped"},
         at' = "waiting" => at = "calling" /\ attempt < MaxAttempts
  PROVE  IInv'
<1>1. TypeOK'
  BY DEF IInv, TypeOK
<1>2. \A i \in Routes : Earned(i) => Earned(i)'
  BY DEF Earned, Transient, Passing
<1>3. Progress'
  BY <1>2 DEF IInv, Progress
<1>4. PrivacyKept'
  BY DEF IInv, PrivacyKept
<1> QED
  BY <1>1, <1>3, <1>4 DEF IInv

LEMMA NextInv == IInv /\ [Next]_vars => IInv'
<1> SUFFICES ASSUME IInv, [Next]_vars
             PROVE  IInv'
  OBVIOUS
<1>1. CASE Begin
  <2>1. /\ conf = None => at = "idle"
        /\ \A i \in Routes : tries[i] = 0
        /\ tries' = tries /\ ended' = ended /\ index' = index /\ attempt' = attempt
        /\ at' = "select" /\ conf' \in Conf
    BY <1>1 DEF Begin, IInv, Progress
  <2>2. Len(conf'.routes) \in Routes
    BY <2>1, RoutesAreSequences DEF Conf
  <2>3. index = 1
    BY <1>1 DEF Begin, IInv, Progress
  <2>4. TypeOK'
    <3>1. index' \in 1..Len(conf'.routes)
      BY <2>1, <2>2, <2>3, PolicyAssumption DEF Routes
    <3>2. conf' # None
      BY <2>1, NoneAssumption
    <3> QED
      BY <2>1, <3>1, <3>2 DEF IInv, TypeOK
  <2>5. conf' # None => PrivacyKept'
    <3> SUFFICES ASSUME NEW i \in 1..Len(conf'.routes)
                 PROVE  ~(tries'[i] > 0)
      BY DEF PrivacyKept
    <3>1. i \in Routes
      BY <2>2, PolicyAssumption DEF Routes
    <3> QED
      BY <2>1, <3>1
  <2>6. Progress'
    BY <2>1, <2>2, <2>3, PolicyAssumption, NoneAssumption DEF IInv, TypeOK, Progress, Earned, Routes
  <2> QED
    BY <2>4, <2>5, <2>6 DEF IInv, PrivacyKept
<1>2. CASE Block
  <2>1. Privacy \in Error /\ Privacy.kind = "privacy" /\ ~Privacy.typed
    BY DEF Privacy, Error, Kinds
  <2>2. tries[index] = 0
    BY <1>2 DEF Block, IInv, Progress
  <2> QED
    BY <1>2, <2>1, <2>2, RouteEndsKeepsInv DEF Block
<1>3. CASE NotBuilt
  <2>1. PICK e \in Setup : RouteEnds(e)
    BY <1>3 DEF NotBuilt
  <2>2. e \in Error /\ e.kind = "setup" /\ ~e.typed
    BY DEF Setup, Error, Kinds
  <2>3. tries[index] = 0
    BY <1>3 DEF NotBuilt, IInv, Progress
  <2> QED
    BY <1>3, <2>1, <2>2, <2>3, RouteEndsKeepsInv DEF NotBuilt
<1>4. CASE Build
  <2>1. tries[index] = 0 /\ conf # None
    BY <1>4 DEF Build, IInv, TypeOK, Progress
  <2> QED
    BY <1>4, <2>1, CallKeepsInv, PolicyAssumption DEF Build
<1>5. CASE Answer
  BY <1>5, LabelKeepsInv DEF Answer
<1>6. CASE Wait
  <2>1. attempt < MaxAttempts
    BY <1>6 DEF Wait, Retryable
  <2> QED
    BY <1>6, <2>1, LabelKeepsInv DEF Wait
<1>7. CASE Repeat
  <2>1. /\ attempt \in 1..MaxAttempts /\ tries[index] = attempt /\ attempt < MaxAttempts
        /\ conf # None
    BY <1>7 DEF Repeat, IInv, TypeOK, Progress
  <2>2. tries[index] > 0 /\ attempt' \in 1..MaxAttempts /\ tries[index] + 1 = attempt'
    BY <1>7, <2>1, PolicyAssumption DEF Repeat
  <2> QED
    BY <1>7, <2>1, <2>2, CallKeepsInv DEF Repeat
<1>8. CASE GiveUp
  <2>1. PICK e \in Failures(Current) : ~Retryable(e) /\ RouteEnds(e)
    BY <1>8 DEF GiveUp
  <2>2. e \in Error /\ (e.typed => e.kind \in Passing \cup {"http_permanent"})
    BY <2>1, FailuresAreErrors
  <2>3. tries[index] = attempt /\ attempt \in 1..MaxAttempts
    BY <1>8 DEF GiveUp, IInv, Progress
  <2>4. Transient(e) => tries[index] = MaxAttempts
    BY <2>1, <2>3, PolicyAssumption DEF Retryable
  <2> QED
    BY <1>8, <2>1, <2>2, <2>4, RouteEndsKeepsInv DEF GiveUp
<1>9. CASE Escape
  BY <1>9, LabelKeepsInv DEF Escape
<1>10. CASE UNCHANGED vars
  <2>1. \A i \in Routes : Earned(i) => Earned(i)'
    BY <1>10 DEF vars, Earned, Transient, Passing
  <2> QED
    BY <1>10, <2>1 DEF vars, IInv, TypeOK, Progress, PrivacyKept
<1> QED
  BY <1>1, <1>2, <1>3, <1>4, <1>5, <1>6, <1>7, <1>8, <1>9, <1>10 DEF Next, Step

LEMMA Invariant == Spec => []IInv
BY InitInv, NextInv, PTL DEF Spec

-------------------------------------------------------------------------------
(* No route is called more often than providers.retry.max_attempts allows, *)
(* whatever the adapters raise: call_with_retry and                        *)
(* call_with_provider_policy never nest into more.                         *)
THEOREM CallsAreBounded == Spec => []TypeOK
<1>1. IInv => TypeOK
  BY DEF IInv
<1> QED
  BY <1>1, Invariant, PTL

(* Cloud providers that the privacy settings exclude are never called, in  *)
(* whatever order the routes name them.                                    *)
THEOREM PrivacyHolds == Spec => []PrivacyKept
<1>1. IInv => PrivacyKept
  BY DEF IInv
<1> QED
  BY <1>1, Invariant, PTL

(* A provider that has been called is given up only after its attempts;    *)
(* and unless an error reads like what it is not, all before a fallback    *)
(* have been called that often and have ended in a passing failure.        *)
THEOREM FallbacksAreEarned == Spec => []FallbackIsEarned
<1>1. IInv => FallbackIsEarned
  <2> SUFFICES ASSUME IInv, NEW i \in Routes, NEW j \in Routes, i < j, tries[j] > 0
               PROVE  /\ tries[i] \in {0, MaxAttempts}
                      /\ PlainlySaid => tries[i] = MaxAttempts /\ ended[i].kind \in Passing
    BY DEF FallbackIsEarned
  <2>1. ~(j > index)
    BY PolicyAssumption DEF IInv, Progress, Routes
  <2>2. i < index
    BY <2>1, PolicyAssumption DEF IInv, TypeOK, Routes
  <2>3. Earned(i)
    BY <2>2 DEF IInv, Progress
  <2>4. ASSUME PlainlySaid PROVE ended[i].kind \in Passing
    <3>1. ended[i] \in Error /\ (ended[i].typed => ended[i].kind \in Passing)
      BY <2>3 DEF IInv, TypeOK, Earned
    <3> QED
      BY <2>3, <2>4, <3>1 DEF PlainlySaid, Earned, Transient
  <2> QED
    BY <2>3, <2>4 DEF Earned, Passing
<1> QED
  BY <1>1, Invariant, PTL

(* Every step of an operation leads to a later route or nearer to the end  *)
(* of the present one: with finitely many routes and attempts, the loops   *)
(* of call_with_provider_policy and call_with_retry end.                   *)
THEOREM OperationsAdvance == Spec => RouteByRoute
<1>1. IInv /\ [Next]_vars =>
        [at # "idle" => \/ index' > index
                        \/ index' = index /\ Left' < Left]_vars
  <2> SUFFICES ASSUME IInv, Next, at # "idle"
               PROVE  \/ index' > index
                      \/ index' = index /\ Left' < Left
    OBVIOUS
  <2>1. MaxAttempts \in Nat \ {0} /\ attempt \in 0..MaxAttempts /\ index \in Nat
    BY PolicyAssumption DEF IInv, TypeOK, Routes
  <2>2. ASSUME NEW e, RouteEnds(e), Left > 0
        PROVE  \/ index' > index
               \/ index' = index /\ Left' < Left
    <3>1. CASE index' = index + 1
      BY <2>1, <3>1
    <3>2. CASE at' = "failed" /\ index' = index
      BY <2>2, <3>2 DEF Left
    <3> QED
      BY <2>2, <3>1, <3>2 DEF RouteEnds
  <2>3. at \in {"select", "calling"} => Left > 0
    BY <2>1 DEF Left
  <2>4. CASE Block
    BY <2>2, <2>3, <2>4 DEF Block
  <2>5. CASE NotBuilt
    BY <2>2, <2>3, <2>5 DEF NotBuilt
  <2>6. CASE Build
    BY <2>1, <2>6 DEF Build, Call, Left
  <2>7. CASE Answer
    BY <2>3, <2>7 DEF Answer, Left
  <2>8. CASE Wait
    BY <2>1, <2>8 DEF Wait, Left
  <2>9. CASE Repeat
    BY <2>1, <2>9 DEF Repeat, Call, Left
  <2>10. CASE GiveUp
    BY <2>2, <2>3, <2>10 DEF GiveUp
  <2>11. CASE Escape
    BY <2>3, <2>11 DEF Escape, Left
  <2> QED
    BY <2>4, <2>5, <2>6, <2>7, <2>8, <2>9, <2>10, <2>11 DEF Next, Step, Begin
<1> QED
  BY Invariant, <1>1, PTL DEF Spec, RouteByRoute

-------------------------------------------------------------------------------
(***************************************************************************)
(* ProviderSetup                                                           *)
(***************************************************************************)

(* What DoctorPredicts asks of a section, an ending and what was found.    *)
Agree(c, result, found) ==
  /\ result \notin {"config", "endpoint"}
  /\ c.source # "token_env" => result = "built" \/ \E f \in found : f.severity # "ok"
  /\ result = "built" =>
       \A f \in found : f.severity = "error" => f.code \in {"unreachable", "command_error"}

(* One finding beside that of the seam.                                    *)
LEMMA FindingAgrees ==
  ASSUME NEW c, NEW result, NEW severity, NEW code,
         result \notin {"config", "endpoint"},
         c.source # "token_env" /\ severity = "ok" => result = "built",
         result = "built" /\ severity = "error" =>
           code \in {"unreachable", "command_error"}
  PROVE  Agree(c, result,
               Section!Found("ok", "seam") \cup Section!Found(severity, code))
<1> DEFINE first == [severity |-> "ok", code |-> "seam"]
           second == [severity |-> severity, code |-> code]
           found == {first} \cup {second}
<1>1. first.severity = "ok" /\ second.severity = severity /\ second.code = code
  OBVIOUS
<1>2. \A f \in found : f = first \/ f = second
  OBVIOUS
<1>3. second \in found
  OBVIOUS
<1> HIDE DEF first, second, found
<1>4. Agree(c, result, found)
  BY <1>1, <1>2, <1>3 DEF Agree
<1> QED
  BY <1>4 DEF Section!Found, first, second, found

LEMMA CliAgrees ==
  ASSUME NEW c, NEW e \in Section!Env, NEW result,
         result = IF e.command THEN "built" ELSE "no_command"
  PROVE  Agree(c, result,
               Section!Found("ok", "seam") \cup
               Section!CliFinding(Section!ClaudeStatus(e)))
<1> DEFINE status == Section!ClaudeStatus(e)
<1>1. CASE status = "authenticated"
  <2>1. Section!CliFinding(status) = Section!Found("ok", status) /\ e.command
    BY <1>1 DEF Section!CliFinding, Section!ClaudeStatus
  <2> QED
    BY <2>1, FindingAgrees
<1>2. CASE status \in {"missing_command", "command_error"}
  <2>1. Section!CliFinding(status) = Section!Found("error", status)
    BY <1>2 DEF Section!CliFinding
  <2>2. result = "built" => status = "command_error"
    BY <1>2 DEF Section!ClaudeStatus, Section!Env, Section!CliStates
  <2> QED
    BY <2>1, <2>2, FindingAgrees
<1>3. CASE status \notin {"authenticated", "missing_command", "command_error"}
  <2>1. Section!CliFinding(status) = Section!Found("warn", status)
    BY <1>3 DEF Section!CliFinding
  <2> QED
    BY <2>1, FindingAgrees
<1> QED
  BY <1>1, <1>2, <1>3

LEMMA KeyAgrees ==
  ASSUME NEW c, NEW set \in BOOLEAN, NEW result,
         result \in {"built", "no_key", "no_token", "no_command"},
         ~set => result # "built",
         set /\ c.source # "token_env" => result = "built"
  PROVE  Agree(c, result,
               Section!Found("ok", "seam") \cup Section!SetOrNot(set))
<1>1. CASE set
  BY <1>1, FindingAgrees DEF Section!SetOrNot
<1>2. CASE ~set
  BY <1>2, FindingAgrees DEF Section!SetOrNot
<1> QED
  BY <1>1, <1>2

LEMMA UnsupportedAgrees ==
  ASSUME NEW c, NEW code, NEW found, Section!Found("error", code) \subseteq found
  PROVE  Agree(c, "not_supported", found)
BY DEF Agree, Section!Found

LEMMA AnthropicAgrees ==
  ASSUME Section!NoneDiffers, NEW c \in Section!Setting, NEW e \in Section!Env,
         Section!ValidSetting("anthropic", c)
  PROVE  Agree(c, Section!FromConfig("anthropic", c, e), Section!CheckProvider("anthropic", c, e))
<1> DEFINE seam == Section!Resolve("anthropic", c)
<1>1. seam # None /\ seam = Section!CloudSeam("anthropic", c)
  BY DEF Section!ValidSetting, Section!Resolve
<1>2. \/ seam = Section!Seam("direct_http", "api_key_env")
      \/ seam = Section!Seam("direct_http", "command")
      \/ seam = Section!Seam("vendor_cli", "vendor_cli")
      \/ seam = Section!Seam("vendor_cli", "token_env") /\ c.source = "token_env"
  BY <1>1 DEF Section!CloudSeam, Section!Allowed, Section!Seam, Section!Or,
              Section!NoneDiffers
<1>3. Section!FromConfig("anthropic", c, e) =
        IF Section!Supported("anthropic", seam) THEN Section!BuildAnthropic(c, e)
        ELSE "not_supported"
  BY <1>1 DEF Section!FromConfig
<1>4. Section!CheckProvider("anthropic", c, e) =
        Section!Found("ok", "seam") \cup
        (IF Section!Supported("anthropic", seam) THEN Section!Routed("anthropic", c, e, seam)
         ELSE Section!Found("error", "runtime_unsupported"))
  BY <1>1 DEF Section!CheckProvider
<1>5. e.key \in BOOLEAN /\ e.token \in BOOLEAN /\ e.command \in BOOLEAN
  BY DEF Section!Env
<1>6. CASE seam = Section!Seam("direct_http", "api_key_env")
  <2>1. /\ Section!Supported("anthropic", seam)
        /\ Section!BuildAnthropic(c, e) = IF e.key THEN "built" ELSE "no_key"
    BY <1>6 DEF Section!Supported, Section!Seam, Section!BuildAnthropic
  <2>2. Section!Routed("anthropic", c, e, seam) = Section!SetOrNot(e.key)
    BY <1>6 DEF Section!Routed, Section!Seam
  <2> QED
    BY <1>3, <1>4, <1>5, <2>1, <2>2, KeyAgrees
<1>7. CASE seam = Section!Seam("direct_http", "command")
  <2>1. ~Section!Supported("anthropic", seam)
    BY <1>7 DEF Section!Supported, Section!Seam
  <2> QED
    BY <1>3, <1>4, <2>1, UnsupportedAgrees
<1>8. CASE seam = Section!Seam("vendor_cli", "vendor_cli")
  <2>1. /\ Section!Supported("anthropic", seam)
        /\ Section!BuildAnthropic(c, e) = IF e.command THEN "built" ELSE "no_command"
    BY <1>5, <1>8 DEF Section!Supported, Section!Seam, Section!BuildAnthropic
  <2>2. Section!Routed("anthropic", c, e, seam) = Section!CliFinding(Section!ClaudeStatus(e))
    BY <1>8 DEF Section!Routed, Section!Seam
  <2> QED
    BY <1>3, <1>4, <2>1, <2>2, CliAgrees
<1>9. CASE seam = Section!Seam("vendor_cli", "token_env") /\ c.source = "token_env"
  <2>1. /\ Section!Supported("anthropic", seam)
        /\ Section!BuildAnthropic(c, e) = IF ~e.command THEN "no_command"
                                          ELSE IF ~e.token THEN "no_token" ELSE "built"
    BY <1>9 DEF Section!Supported, Section!Seam, Section!BuildAnthropic
  <2>2. Section!Routed("anthropic", c, e, seam) = Section!SetOrNot(e.token)
    BY <1>9 DEF Section!Routed, Section!Seam
  <2> QED
    BY <1>3, <1>4, <1>5, <1>9, <2>1, <2>2, KeyAgrees
<1> QED
  BY <1>2, <1>6, <1>7, <1>8, <1>9

LEMMA CodexAgrees ==
  ASSUME Section!NoneDiffers, NEW c \in Section!Setting, NEW e \in Section!Env,
         Section!ValidSetting("codex", c)
  PROVE  Agree(c, Section!FromConfig("codex", c, e), Section!CheckProvider("codex", c, e))
<1> DEFINE seam == Section!Resolve("codex", c)
<1>1. seam # None /\ seam = Section!CloudSeam("codex", c) /\ Section!CodexEndpoint(c)
  BY DEF Section!ValidSetting, Section!Resolve
<1>2. \/ seam = Section!Seam("direct_http", "api_key_env")
      \/ seam = Section!Seam("direct_http", "command")
      \/ seam = Section!Seam("vendor_cli", "vendor_cli")
  BY <1>1 DEF Section!CloudSeam, Section!Allowed, Section!Seam, Section!Or,
              Section!NoneDiffers
<1>3. Section!FromConfig("codex", c, e) =
        IF Section!Supported("codex", seam)
        THEN IF seam.backend = "vendor_cli"
             THEN IF e.command THEN "built" ELSE "no_command"
             ELSE IF e.key THEN "built" ELSE "no_key"
        ELSE "not_supported"
  BY <1>1 DEF Section!FromConfig, Section!BuildCodex
<1>4. Section!CheckProvider("codex", c, e) =
        Section!Found("ok", "seam") \cup
        (IF Section!Supported("codex", seam) THEN Section!Routed("codex", c, e, seam)
         ELSE Section!Found("error", "runtime_unsupported"))
  BY <1>1 DEF Section!CheckProvider
<1>5. e.key \in BOOLEAN /\ e.command \in BOOLEAN
  BY DEF Section!Env
<1>6. CASE seam = Section!Seam("direct_http", "api_key_env")
  <2>1. Section!Supported("codex", seam) /\ seam.backend # "vendor_cli"
    BY <1>6 DEF Section!Supported, Section!Seam
  <2>2. Section!Routed("codex", c, e, seam) = Section!SetOrNot(e.key)
    BY <1>6 DEF Section!Routed, Section!Seam
  <2> QED
    BY <1>3, <1>4, <1>5, <2>1, <2>2, KeyAgrees
<1>7. CASE seam = Section!Seam("direct_http", "command")
  <2>1. ~Section!Supported("codex", seam)
    BY <1>7 DEF Section!Supported, Section!Seam
  <2> QED
    BY <1>3, <1>4, <2>1, UnsupportedAgrees
<1>8. CASE seam = Section!Seam("vendor_cli", "vendor_cli")
  <2>1. Section!Supported("codex", seam) /\ seam.backend = "vendor_cli"
    BY <1>8 DEF Section!Supported, Section!Seam
  <2>2. Section!Routed("codex", c, e, seam) = Section!CliFinding(Section!ClaudeStatus(e))
    BY <1>8 DEF Section!Routed, Section!Seam, Section!ClaudeStatus, Section!CodexStatus
  <2> QED
    BY <1>3, <1>4, <2>1, <2>2, CliAgrees
<1> QED
  BY <1>2, <1>6, <1>7, <1>8

LEMMA LocalAgrees ==
  ASSUME Section!NoneDiffers, NEW c \in Section!Setting, NEW e \in Section!Env,
         Section!ValidSetting("local", c)
  PROVE  Agree(c, Section!FromConfig("local", c, e), Section!CheckProvider("local", c, e))
<1> DEFINE seam == Section!Resolve("local", c)
<1>1. seam # None /\ seam = Section!LocalSeam(c) /\ c.url # "none"
  BY DEF Section!ValidSetting, Section!Resolve
<1>2. Section!Supported("local", seam)
  BY <1>1 DEF Section!LocalSeam, Section!Supported, Section!Seam
<1>3. Section!FromConfig("local", c, e) = "built"
  BY <1>1, <1>2 DEF Section!FromConfig
<1>4. Section!CheckProvider("local", c, e) =
        Section!Found("ok", "seam") \cup Section!LocalFinding(c, e)
  BY <1>1, <1>2 DEF Section!CheckProvider, Section!Routed
<1>5. \/ Section!LocalFinding(c, e) = Section!Found("error", "unreachable")
      \/ Section!LocalFinding(c, e) = Section!Found("warn", "model_missing")
      \/ Section!LocalFinding(c, e) = Section!Found("ok", "reachable")
  BY DEF Section!LocalFinding
<1> QED
  BY <1>3, <1>4, <1>5, FindingAgrees

LEMMA MockAgrees ==
  ASSUME NEW c \in Section!Setting, NEW e \in Section!Env,
         Section!ValidSetting("mock", c)
  PROVE  Agree(c, Section!FromConfig("mock", c, e), Section!CheckProvider("mock", c, e))
<1> DEFINE seam == Section!Resolve("mock", c)
<1>1. seam # None /\ seam = Section!MockSeam(c)
  BY DEF Section!ValidSetting, Section!Resolve
<1>2. Section!Supported("mock", seam)
  BY <1>1 DEF Section!MockSeam, Section!Supported, Section!Seam
<1>3. Section!FromConfig("mock", c, e) = "built"
  BY <1>1, <1>2 DEF Section!FromConfig
<1>4. Section!CheckProvider("mock", c, e) = Section!Found("ok", "seam")
  BY <1>1, <1>2 DEF Section!CheckProvider, Section!Routed
<1> QED
  BY <1>3, <1>4 DEF Agree, Section!Found

LEMMA OthersAgree ==
  ASSUME NEW n, n \notin {"anthropic", "codex", "local", "mock"}, NEW c, NEW e
  PROVE  Agree(c, Section!FromConfig(n, c, e), Section!CheckProvider(n, c, e))
<1>1. Section!FromConfig(n, c, e) = "not_supported"
  BY DEF Section!FromConfig, Section!Supported
<1>2. Section!CheckProvider(n, c, e) = Section!Found("error", "unsupported")
  BY DEF Section!CheckProvider
<1> QED
  BY <1>1, <1>2, UnsupportedAgrees

LEMMA AllAgree ==
  ASSUME Section!NoneDiffers, NEW n,
         NEW c \in Section!Setting, NEW e \in Section!Env,
         Section!ValidSetting(n, c)
  PROVE  Agree(c, Section!FromConfig(n, c, e), Section!CheckProvider(n, c, e))
BY AnthropicAgrees, CodexAgrees, LocalAgrees, MockAgrees, OthersAgree

(* What is there is what the steps so far have made of the rest.           *)
SectionInv ==
  /\ Section!TypeOK
  /\ sSetting = None => sValidated = None
  /\ sValidated # None => /\ sSetting \in Section!Setting
                           /\ sValidated = Section!ValidSetting(sName, sSetting)
  /\ sValidated = TRUE => sEnv \in Section!Env
  /\ sFindings # None => sValidated # None
  /\ sFindings # None /\ sValidated = TRUE =>
       sFindings = Section!CheckProvider(sName, sSetting, sEnv)
  /\ sBuilt # None => /\ sValidated = TRUE
                       /\ sBuilt = Section!FromConfig(sName, sSetting, sEnv)

LEMMA ValidityIsBoolean ==
  ASSUME NEW n, NEW c PROVE Section!ValidSetting(n, c) \in BOOLEAN
BY DEF Section!ValidSetting

LEMMA SectionInvariant ==
  ASSUME Section!NoneDiffers PROVE Section!Spec => []SectionInv
<1>1. Section!Init => SectionInv
  BY DEF Section!Init, SectionInv, Section!TypeOK, Section!NoneDiffers
<1>2. ASSUME SectionInv, [Section!Next]_(Section!vars) PROVE SectionInv'
  <2>1. CASE Section!Configure
    <3>1. UNCHANGED <<sEnv, sValidated, sFindings, sBuilt>>
          /\ sName' \in Names /\ sSetting' \in Section!Setting
      BY <2>1 DEF Section!Configure
    <3>2. sValidated = None
      BY <1>2, <2>1 DEF Section!Configure, SectionInv
    <3>3. sFindings = None /\ sBuilt = None /\ None # TRUE
      BY <1>2, <3>2 DEF SectionInv, Section!NoneDiffers
    <3>4. Section!TypeOK'
      BY <1>2, <3>1, Zenon DEF SectionInv, Section!TypeOK
    <3> QED
      BY <3>1, <3>2, <3>3, <3>4, Zenon DEF SectionInv
  <2>2. CASE Section!Load
    <3>1. /\ sValidated = None /\ sSetting \in Section!Setting
          /\ UNCHANGED <<sName, sSetting, sFindings, sBuilt>>
          /\ sValidated' = Section!ValidSetting(sName, sSetting)
          /\ IF sValidated' THEN sEnv' \in Section!Env ELSE sEnv' = sEnv
      BY <1>2, <2>2 DEF Section!Load, SectionInv, Section!TypeOK, Section!Environments
    <3>2. sValidated' \in BOOLEAN
      BY <3>1, ValidityIsBoolean
    <3>3. sFindings = None /\ sBuilt = None /\ sValidated' # None
      BY <1>2, <3>1, <3>2, Zenon DEF SectionInv, Section!NoneDiffers
    <3>4. Section!TypeOK'
      BY <1>2, <3>1, <3>2, Zenon DEF SectionInv, Section!TypeOK
    <3>5. sSetting' # None
      BY <2>2, <3>1 DEF Section!Load
    <3> QED
      BY <3>1, <3>3, <3>4, <3>5, Zenon DEF SectionInv
  <2>3. CASE Section!Doctor
    BY <1>2, <2>3 DEF Section!Doctor, SectionInv, Section!TypeOK
  <2>4. CASE Section!Build
    BY <1>2, <2>4 DEF Section!Build, SectionInv, Section!TypeOK
  <2>5. CASE UNCHANGED Section!vars
    BY <1>2, <2>5 DEF Section!vars, SectionInv, Section!TypeOK
  <2> QED
    BY <1>2, <2>1, <2>2, <2>3, <2>4, <2>5 DEF Section!Next
<1> QED
  BY <1>1, <1>2, PTL DEF Section!Spec

(* kb doctor and an operation agree on each provider section whose seam is *)
(* not a token; of those with one, doctor reports no error when an         *)
(* operation gets its adapter.                                             *)
LEMMA DoctorIsRight ==
  ASSUME Section!NoneDiffers PROVE Section!Spec => []Section!DoctorPredicts
<1>1. SectionInv => Section!DoctorPredicts
  <2> SUFFICES ASSUME SectionInv PROVE Section!DoctorPredicts
    OBVIOUS
  <2>1. CASE sBuilt = None
    BY <2>1 DEF Section!DoctorPredicts, Section!NoneDiffers
  <2>2. CASE sBuilt # None
    <3>1. Agree(sSetting, sBuilt, Section!CheckProvider(sName, sSetting, sEnv))
      BY <2>2, AllAgree DEF SectionInv, Section!NoneDiffers
    <3> QED
      BY <2>2, <3>1 DEF SectionInv, Section!DoctorPredicts, Agree
  <2> QED
    BY <2>1, <2>2
<1> QED
  BY <1>1, SectionInvariant, PTL

-------------------------------------------------------------------------------
(***************************************************************************)
(* SearchMisses                                                            *)
(***************************************************************************)

(* A miss counts up to the bound, and an item is one of its query.         *)
LEMMA MissedTypes ==
  ASSUME Missed!Sizes PROVE Missed!Spec => []Missed!TypeOK
<1>1. ASSUME Missed!Init PROVE Missed!TypeOK
  <2>1. [count |-> 0, high |-> FALSE] \in Missed!Counted /\ 0 \in 0..Tears
    BY DEF Missed!Sizes, Missed!Counted
  <2> QED
    BY <1>1, <2>1 DEF Missed!Init, Missed!TypeOK
<1>2. ASSUME Missed!TypeOK, [Missed!Next]_(Missed!vars) PROVE Missed!TypeOK'
  <2>1. \A q \in Queries : Missed!Noted(q) \in Missed!Item
    BY <1>2 DEF Missed!TypeOK, Missed!Noted, Missed!Item
  <2>2. ASSUME NEW q \in Queries, Missed!Resolve(q) PROVE Missed!TypeOK'
    <3>1. mItems[q] \in Missed!Item
      BY <1>2, <2>2 DEF Missed!TypeOK, Missed!Resolve
    <3>2. [mItems[q] EXCEPT !.status = "resolved"] \in Missed!Item
      BY <3>1 DEF Missed!Item
    <3> QED
      BY <1>2, <2>2, <3>2 DEF Missed!TypeOK, Missed!Resolve
  <2>3. ASSUME NEW q \in Queries, NEW high \in BOOLEAN, Missed!Miss(q, high)
        PROVE  Missed!TypeOK'
    <3>1. [count |-> mMisses[q].count + 1, high |-> mMisses[q].high \/ high]
            \in Missed!Counted
      BY <1>2, <2>3 DEF Missed!TypeOK, Missed!Miss, Missed!Counted, Missed!Sizes
    <3> QED
      BY <1>2, <2>3, <3>1 DEF Missed!TypeOK, Missed!Miss
  <2>4. CASE Missed!CutShort
    BY <1>2, <2>4 DEF Missed!TypeOK, Missed!CutShort, Missed!Sizes
  <2>5. CASE Missed!Promote
    BY <1>2, <2>1, <2>5 DEF Missed!TypeOK, Missed!Promote
  <2>6. CASE Missed!Stop
    BY <1>2, <2>6 DEF Missed!TypeOK, Missed!Stop
  <2>7. CASE UNCHANGED Missed!vars
    BY <1>2, <2>7 DEF Missed!TypeOK, Missed!vars
  <2> QED
    BY <1>2, <2>2, <2>3, <2>4, <2>5, <2>6, <2>7 DEF Missed!Next
<1> QED
  BY <1>1, <1>2, PTL DEF Missed!Spec

(* Whoever comes to promote, also after commands that were stopped, leaves *)
(* no query behind that has missed often enough.                           *)
LEMMA QueriesArePromoted ==
  ASSUME Missed!Sizes PROVE Missed!Spec => Missed!MissesPromoted
<1>1. ASSUME Missed!TypeOK, Missed!Promote, NEW q \in Queries,
             mMisses[q].count >= 3 \/ mMisses[q].high
      PROVE  /\ mItems'[q] # None
             /\ mItems'[q].status = "pending" => mItems'[q].facts = mMisses[q]
  <2>1. mItems'[q] = Missed!Noted(q)
    BY <1>1 DEF Missed!Promote, Missed!Due
  <2>2. CASE mItems[q] # None /\ mItems[q].status = "resolved"
    BY <2>1, <2>2 DEF Missed!Noted
  <2>3. CASE ~(mItems[q] # None /\ mItems[q].status = "resolved")
    <3>1. Missed!Noted(q) = [status |-> "pending", facts |-> mMisses[q]]
      BY <2>3 DEF Missed!Noted
    <3>2. Missed!Noted(q) \in Missed!Item
      BY <1>1, <3>1 DEF Missed!TypeOK, Missed!Item
    <3> QED
      BY <2>1, <3>1, <3>2 DEF Missed!Sizes
  <2> QED
    BY <2>2, <2>3
<1>2. Missed!TypeOK /\ [Missed!Next]_(Missed!vars) =>
        [Missed!Promote =>
           \A q \in Queries : mMisses[q].count >= 3 \/ mMisses[q].high =>
             /\ mItems'[q] # None
             /\ mItems'[q].status = "pending" => mItems'[q].facts = mMisses[q]]_(Missed!vars)
  BY <1>1
<1> QED
  BY <1>2, MissedTypes, PTL DEF Missed!Spec, Missed!MissesPromoted

-------------------------------------------------------------------------------
(***************************************************************************)
(* The parts together                                                      *)
(***************************************************************************)

(* Each part, seen alone, behaves as its specification says: the parts do  *)
(* not meddle with each other.                                             *)
THEOREM PartsAreThemselves ==
  PartsSpec => /\ Spec /\ Section!Spec /\ Git!Spec
               /\ Index!Spec /\ Hyg!Spec /\ Missed!Spec
<1>1. PartsInit => /\ Init /\ Section!Init /\ Git!Init
                   /\ Index!Init /\ Hyg!Init /\ Missed!Init
  BY DEF PartsInit
<1>2. [PartsNext]_parts =>
        /\ [Next]_vars
        /\ [Section!Next]_(Section!vars)
        /\ [Git!Next]_(Git!vars)
        /\ [Index!Next]_(Index!vars)
        /\ [Hyg!Next]_(Hyg!vars)
        /\ [Missed!Next]_(Missed!vars)
  BY DEF PartsNext, parts, section, git, indexed, hygiene, missed,
         Section!vars, Git!vars, Index!vars, Hyg!vars, Missed!vars
<1> QED
  BY <1>1, <1>2, PTL
     DEF PartsSpec, Spec, Section!Spec, Git!Spec, Index!Spec, Hyg!Spec, Missed!Spec

(* For every section that validate_config accepts, in every environment:   *)
(* doctor reports no error of a provider that an operation gets, and has   *)
(* nothing to say only of one it gets, unless the seam is a token; of a    *)
(* token's section the second is false (DoctorTells).                      *)
THEOREM PartsAreDiagnosed == PartsSpec => []DoctorPredicts
<1>1. DoctorPredicts <=> Section!DoctorPredicts
  BY DEF DoctorPredicts
<1> QED
  BY <1>1, PartsAreThemselves, DoctorIsRight, SectionNone, PTL

(* A commit of kb adds only what its command has written or was handed,    *)
(* and the user's staged changes: git_auto.py compares what had been       *)
(* changed before the command with what is changed after it.               *)
THEOREM PartsCommitTheirOwn == PartsSpec => CommitIsOwn
BY PartsAreThemselves, GitLayout, Git!CommitsAreOwn, PTL DEF CommitIsOwn

(* A data directory inside a larger repository: a commit of kb takes       *)
(* nothing from outside of it along that the user has not staged.          *)
THEOREM PartsLeaveOutside == PartsSpec => OutsideStays
BY PartsAreThemselves, GitLayout, Git!OutsideIsLeft, PTL DEF OutsideStays

(* Nothing that the command has written is left out of its commit, but     *)
(* for the exceptions that CommitIsWhole names.                            *)
THEOREM PartsCommitAll == PartsSpec => CommitIsWhole
BY PartsAreThemselves, GitLayout, Git!CommitsAreWhole, PTL DEF CommitIsWhole

(* A reindex that nobody disturbs repairs what earlier ones, stopped at    *)
(* any point, have left.                                                   *)
THEOREM PartsRepair == PartsSpec => []Repairs
<1>1. Repairs <=> Index!Repairs
  BY DEF Repairs
<1> QED
  BY <1>1, PartsAreThemselves, IndexSizes, Index!ReindexRepairs, PTL

(* After a kb reindex that nobody disturbs, kb doctor has nothing against  *)
(* the generated artifacts.                                                *)
THEOREM PartsQuietDoctor == PartsSpec => ReindexQuietsDoctor
BY PartsAreThemselves, IndexSizes, Index!ReindexQuiets, PTL DEF ReindexQuietsDoctor

(* A hygiene scan that only reviewers' decisions separate from the last    *)
(* whole one writes nothing: what they rejected stays rejected.            *)
THEOREM PartsSettle ==
  ASSUME Hyg!NoneIsNoItem PROVE PartsSpec => ScanSettles
BY PartsAreThemselves, Hyg!ScansSettle, PTL DEF ScanSettles

(* A suspect flag opens its item, whatever was decided on it before, and   *)
(* the next scan counts the flags of commands that were stopped.           *)
THEOREM PartsHearFlags ==
  ASSUME Hyg!NoneIsNoItem PROVE PartsSpec => FlagIsHeard
BY PartsAreThemselves, Hyg!FlagsAreHeard, PTL DEF FlagIsHeard

(* Each query that has missed often enough, or been reported, has its      *)
(* review item once any search has promoted, however others were stopped.  *)
THEOREM PartsPromote == PartsSpec => MissesPromoted
BY PartsAreThemselves, MissedSizes, QueriesArePromoted, PTL DEF MissesPromoted

(* All parts keep their types.                                             *)
THEOREM PartsKeepTypes ==
  ASSUME Hyg!NoneIsNoItem PROVE PartsSpec => []TypesOK
<1>1. SectionInv => Section!TypeOK
  BY DEF SectionInv
<1>2. /\ TypeOK /\ Section!TypeOK /\ Git!TypeOK
      /\ Index!TypeOK /\ Hyg!TypeOK /\ Missed!TypeOK
      => TypesOK
  BY DEF TypesOK
<1>3. Section!Spec => []SectionInv
  BY SectionNone, SectionInvariant
<1>4. Git!Spec => []Git!TypeOK
  BY GitLayout, Git!TypesHold
<1>5. Index!Spec => []Index!TypeOK
  BY IndexSizes, Index!TypesHold
<1>6. Hyg!Spec => []Hyg!TypeOK
  BY HygBounds, Hyg!TypesHold
<1>7. Missed!Spec => []Missed!TypeOK
  BY MissedSizes, MissedTypes
<1> QED
  BY <1>1, <1>2, <1>3, <1>4, <1>5, <1>6, <1>7, CallsAreBounded, PartsAreThemselves, PTL
===============================================================================
