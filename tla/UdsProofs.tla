------------------------------ MODULE UdsProofs ------------------------------
(***************************************************************************)
(* The session for every length of its timers and every limit of attempts; *)
(* then the services, for every set of requests and every table size: they *)
(* use the session as UdsServer has it, a refusal leaves no trace, a       *)
(* broadcast reaches nothing it must not, and what is read through a       *)
(* dynamic identifier are bytes of its sources.                            *)
(***************************************************************************)
EXTENDS UdsServerProps, UdsServicesProps, WellFoundedInduction, SequenceTheorems, TLAPS

(* What the main task leaves undone on its way to the default session.     *)
Restoring ==
    session = "DEFAULT" =>
        /\ pc \notin {"lock", "dtc"} => dtcOn
        /\ pc \notin {"lock", "dtc", "stop"} => ~ periodic

(* Of the latest wrong keys, those that are not counted are a lockout old, *)
(* and while the gate is shut none is younger than the lockout.            *)
Counted ==
    /\ \A n \in Latest : n > fails => wrong[n] = Lockout
    /\ fails >= MaxFail => \A n \in Latest : lockAge <= wrong[n]

IInv == TypeOK /\ Restoring /\ Counted

-----------------------------------------------------------------------------
(* One more wrong key is within the limit where the gate lets it through.  *)
LEMMA GateLimits == ASSUME TypeOK
                    PROVE  /\ GateFails \in 0..MaxFail
                           /\ ~ (GateDelay \/ GateLocked) => GateFails + 1 \in 0..MaxFail
<1>1. fails \in 0..MaxFail /\ lockAge \in 0..Lockout /\ bootAge \in 0..BootDelay
  BY DEF TypeOK
<1>2. GateFails \in 0..MaxFail
  BY <1>1, TimeAssumption DEF GateFails
<1>3. ASSUME ~ GateDelay, ~ GateLocked PROVE GateFails + 1 \in 0..MaxFail
  <2>1. CASE fails >= MaxFail
    <3>1. lockAge >= Lockout
      BY <1>1, <1>3, <2>1, TimeAssumption DEF GateLocked
    <3> QED BY <1>3, <2>1, <3>1, TimeAssumption DEF GateFails
  <2>2. CASE ~ (fails >= MaxFail)
    BY <1>1, <2>2, TimeAssumption DEF GateFails
  <2> QED BY <2>1, <2>2
<1> QED BY <1>2, <1>3

(* The record of wrong keys stays one when a key is added to it, and it is *)
(* all old when the gate forgets the count.                                *)
LEMMA WrongAdded == ASSUME TypeOK
                    PROVE  /\ WrongAgain \in [Latest -> 0..Lockout]
                           /\ NoneWrong \in [Latest -> 0..Lockout]
<1>1. ASSUME NEW n \in Latest, n # 1 PROVE wrong[n - 1] \in 0..Lockout
  BY <1>1, TimeAssumption DEF TypeOK, Latest
<1>2. 0 \in 0..Lockout /\ Lockout \in 0..Lockout
  BY TimeAssumption
<1> QED BY <1>1, <1>2 DEF WrongAgain, NoneWrong

LEMMA GateForgets == ASSUME TypeOK, Counted
                     PROVE  \A n \in Latest : n > GateFails => wrong[n] = Lockout
<1>1. CASE GateFails = fails
  BY <1>1 DEF Counted
<1>2. CASE GateFails # fails
  <2>1. fails >= MaxFail /\ lockAge >= Lockout
    BY <1>2 DEF GateFails
  <2>2. \A n \in Latest : wrong[n] \in 0..Lockout /\ lockAge <= wrong[n]
    BY <2>1 DEF Counted, TypeOK
  <2> QED BY <2>1, <2>2, TimeAssumption DEF TypeOK
<1> QED BY <1>1, <1>2

(* Requests keep the invariant.                                            *)
LEMMA TesterKeeps == IInv /\ Tester => IInv'
<1> SUFFICES ASSUME IInv, Tester PROVE IInv'
  OBVIOUS
<1> USE DEF IInv
<1>1. S3 + MaxLag \in Nat /\ Lockout \in Nat /\ BootDelay \in Nat /\ MaxFail \in Nat
  BY TimeAssumption
<1>2. ASSUME NEW s \in Session, SessionControl(s) PROVE IInv'
  <2>1. session' = s /\ idle' = 0
        /\ UNCHANGED <<pc, lag, gone, fresh, fails, bootAge, lockAge, wrong>>
    BY <1>2 DEF SessionControl, Request, MainUntouched
  <2>2. /\ unlocked' \in BOOLEAN /\ dtcOn' \in BOOLEAN /\ periodic' \in BOOLEAN
        /\ reset' \in BOOLEAN /\ handoff' \in BOOLEAN
    BY <1>2 DEF SessionControl, TypeOK
  <2>3. s = "DEFAULT" => dtcOn' /\ ~ periodic'
    BY <1>2 DEF SessionControl
  <2>4. TypeOK'
    BY <1>1, <2>1, <2>2 DEF TypeOK
  <2> QED BY <2>1, <2>3, <2>4 DEF Restoring, Counted
<1>3. ASSUME NEW b \in BOOLEAN, SendKey(b) PROVE IInv'
  <2>1. UNCHANGED <<pc, lag, gone, session, bootAge, dtcOn, periodic, reset, handoff>>
        /\ idle' = 0
    BY <1>3 DEF SendKey, Request, MainUntouched
  <2>2. fails' \in 0..MaxFail
    BY <1>1, <1>3, GateLimits DEF SendKey
  <2>a. lockAge' \in 0..Lockout
    BY <1>1, <1>3 DEF SendKey, TypeOK
  <2>b. fresh' \in BOOLEAN /\ unlocked' \in BOOLEAN
    BY <1>3 DEF SendKey, TypeOK
  <2>3. wrong' \in [Latest -> 0..Lockout]
    BY <1>3, WrongAdded DEF SendKey, TypeOK
  <2>4. Counted'
    <3>1. CASE (GateDelay \/ GateLocked \/ ~fresh) /\ fails' = GateFails
               /\ UNCHANGED <<lockAge, wrong>>
      <4>1. fails' >= MaxFail => fails' = fails
        BY <3>1, <1>1 DEF GateFails, TypeOK
      <4> QED BY <3>1, <4>1, GateForgets DEF Counted
    <3>2. CASE fails' = 0 /\ wrong' = NoneWrong /\ UNCHANGED lockAge
      BY <3>2, <1>1, TimeAssumption DEF Counted, NoneWrong, TypeOK
    <3>3. CASE fails' = GateFails + 1 /\ wrong' = WrongAgain
               /\ lockAge' = IF fails' >= MaxFail THEN 0 ELSE lockAge
      <4>1. ASSUME NEW n \in Latest, n > GateFails + 1 PROVE WrongAgain[n] = Lockout
        <5>1. n # 1 /\ n - 1 \in Latest /\ n - 1 > GateFails
          BY <4>1, <1>1, GateLimits DEF Latest
        <5> QED BY <5>1, GateForgets DEF WrongAgain
      <4>2. \A n \in Latest : 0 <= WrongAgain[n]
        BY <1>1, WrongAdded
      <4> QED BY <3>3, <4>1, <4>2 DEF Counted
    <3> QED BY <1>3, <3>1, <3>2, <3>3 DEF SendKey
  <2> QED BY <1>1, <2>1, <2>2, <2>a, <2>b, <2>3, <2>4 DEF TypeOK, Restoring
<1>4. ASSUME NEW b \in BOOLEAN, ControlDtcSetting(b) PROVE IInv'
  BY <1>1, <1>4 DEF ControlDtcSetting, Request, MainUntouched, TypeOK, Restoring, Counted
<1>5. ASSUME NEW b \in BOOLEAN, ReadPeriodic(b) PROVE IInv'
  BY <1>1, <1>5 DEF ReadPeriodic, Request, MainUntouched, TypeOK, Restoring, Counted
<1>6. CASE EcuReset
  BY <1>1, <1>6 DEF EcuReset, Request, MainUntouched, TypeOK, Restoring, Counted
<1>7. CASE RequestSeed
  <2>1. fails' \in 0..MaxFail
    BY <1>7, GateLimits DEF RequestSeed
  <2>2. Counted'
    <3>1. fails' = GateFails /\ UNCHANGED <<lockAge, wrong>>
      BY <1>7 DEF RequestSeed
    <3>2. fails' >= MaxFail => fails' = fails
      BY <3>1, <1>1 DEF GateFails, TypeOK
    <3> QED BY <3>1, <3>2, GateForgets DEF Counted
  <2> QED BY <1>1, <1>7, <2>1, <2>2 DEF RequestSeed, Request, MainUntouched, TypeOK, Restoring
<1>8. CASE OtherRequest
  BY <1>1, <1>8 DEF OtherRequest, Request, MainUntouched, TypeOK, Restoring, Counted, ram
<1>9. CASE Unplug
  BY <1>9 DEF Unplug, TypeOK, Restoring, Counted, ram, ages
<1> QED BY <1>2, <1>3, <1>4, <1>5, <1>6, <1>7, <1>8, <1>9 DEF Tester

(* So does every step of the main task.                                    *)
LEMMA MainTaskKeeps == IInv /\ MainTask => IInv'
<1> SUFFICES ASSUME IInv, MainTask PROVE IInv'
  OBVIOUS
<1> USE DEF IInv, Goto, MainLocal, PC
<1>1. S3 + MaxLag \in Nat /\ Lockout \in Nat /\ BootDelay \in Nat /\ MaxFail \in Nat
      /\ MaxLag \in Nat
  BY TimeAssumption
<1>2. CASE ReadClock
  <2>1. periodic' \in BOOLEAN /\ (~ periodic => ~ periodic')
    <3>1. periodic' = periodic \/ periodic' = FALSE
      BY <1>2 DEF ReadClock
    <3>2. periodic \in BOOLEAN
      BY DEF TypeOK
    <3>3. CASE periodic' = periodic
      BY <3>2, <3>3
    <3>4. CASE periodic' = FALSE
      BY <3>4
    <3> QED BY <3>1, <3>3, <3>4, Zenon
  <2>2. pc = "loop" /\ pc' = "check" /\ lag' \in NotRead..MaxLag
        /\ UNCHANGED <<session, unlocked, fresh, fails, dtcOn, reset, ages, handoff, gone, wrong>>
    BY <1>1, <1>2 DEF ReadClock, NotRead
  <2> QED BY <2>1, <2>2 DEF TypeOK, Restoring, Counted, ages
<1>3. CASE CheckSession
  BY <1>1, <1>3 DEF CheckSession, TypeOK, Restoring, Counted, ram, ages, NotRead
<1>4. CASE Compare
  BY <1>1, <1>4 DEF Compare, TypeOK, Restoring, Counted, ram, ages, NotRead
<1>5. CASE StoreDefault
  BY <1>1, <1>5 DEF StoreDefault, TypeOK, Restoring, Counted, Session
<1>6. CASE Lock
  BY <1>6 DEF Lock, TypeOK, Restoring, Counted, ages
<1>7. CASE RestoreDtcSetting
  BY <1>7 DEF RestoreDtcSetting, TypeOK, Restoring, Counted, ages
<1>8. CASE PeriodicStopAll
  BY <1>8 DEF PeriodicStopAll, TypeOK, Restoring, Counted, ages
<1>9. CASE PollReset
  BY <1>9 DEF PollReset, TypeOK, Restoring, Counted, ages
<1>10. CASE SystemReset
  <2>1. wrong' \in [Latest -> 0..Lockout]
    BY <1>10, WrongAdded DEF SystemReset, FreshRam
  <2>2. dtcOn' /\ ~ periodic' /\ dtcOn' \in BOOLEAN /\ periodic' \in BOOLEAN
        /\ unlocked' \in BOOLEAN /\ fresh' \in BOOLEAN /\ reset' \in BOOLEAN
        /\ session' \in Session
    BY <1>10 DEF SystemReset, FreshRam, Session
  <2>3. fails' = 0 /\ idle' = 0 /\ bootAge' = 0 /\ lockAge' = 0 /\ lag' = NotRead
        /\ pc' = "boot" /\ UNCHANGED <<handoff, gone>>
    BY <1>10 DEF SystemReset, FreshRam
  <2>4. NotRead \in NotRead..MaxLag
    BY <1>1 DEF NotRead
  <2>5. Counted'
    <3>1. wrong' = NoneWrong
      BY <1>10 DEF SystemReset, FreshRam
    <3>2. \A n \in Latest : wrong'[n] = Lockout
      BY <3>1 DEF NoneWrong
    <3> QED BY <1>1, <2>3, <3>2 DEF Counted
  <2> QED BY <1>1, <2>1, <2>2, <2>3, <2>4, <2>5 DEF TypeOK, Restoring
<1> QED BY <1>2, <1>3, <1>4, <1>5, <1>6, <1>7, <1>8, <1>9, <1>10 DEF MainTask

(* And the passing of time.                                                *)
LEMMA ClockKeeps == IInv /\ Clock => IInv'
<1> SUFFICES ASSUME IInv, Clock PROVE IInv'
  OBVIOUS
<1>1. idle' \in 0..(S3 + MaxLag) /\ bootAge' \in 0..BootDelay /\ lockAge' \in 0..Lockout
  BY TimeAssumption DEF IInv, TypeOK, Clock, Least
<1>2. lag' \in NotRead..MaxLag
  BY TimeAssumption DEF IInv, TypeOK, Clock, NotRead
<1>3. wrong' \in [Latest -> 0..Lockout]
  <2>1. \A n \in Latest : wrong[n] \in 0..Lockout
    BY DEF IInv, TypeOK
  <2> QED BY <2>1, TimeAssumption DEF Clock, Least
<1>4. Counted'
  <2>1. \A n \in Latest : wrong[n] \in 0..Lockout /\ wrong'[n] = Least(wrong[n] + 1, Lockout)
    BY DEF IInv, TypeOK, Clock
  <2>2. fails' = fails /\ fails \in 0..MaxFail /\ lockAge \in 0..Lockout
    BY DEF IInv, TypeOK, Clock, ram
  <2>3. \A n \in Latest : n > fails => wrong'[n] = Lockout
    BY <2>1, TimeAssumption DEF IInv, Counted, Least
  <2>4. ASSUME fails >= MaxFail, NEW n \in Latest PROVE lockAge' <= wrong'[n]
    <3>1. lockAge' = Least(lockAge + 1, Lockout) /\ lockAge <= wrong[n]
      BY <2>4 DEF Clock, IInv, Counted
    <3> QED BY <2>1, <2>2, <3>1, TimeAssumption DEF Least
  <2> QED BY <2>2, <2>3, <2>4 DEF Counted
<1> QED BY <1>1, <1>2, <1>3, <1>4 DEF IInv, TypeOK, Restoring, Clock, ram

(* Session, setting and periodic transmission stay in step.                *)
THEOREM UdsInvariance == Spec => []IInv
<1>1. Init => IInv
  <2>1. Init => wrong \in [Latest -> 0..Lockout] /\ lag \in NotRead..MaxLag
    BY TimeAssumption DEF Init, NoneWrong, NotRead
  <2>2. Init => pc \in PC /\ session \in Session
    BY DEF Init, PC, Session
  <2>3. Init => /\ unlocked \in BOOLEAN /\ fresh \in BOOLEAN /\ dtcOn \in BOOLEAN
                /\ periodic \in BOOLEAN /\ reset \in BOOLEAN /\ handoff \in BOOLEAN
                /\ gone \in BOOLEAN
    BY DEF Init
  <2>4. Init => /\ fails \in 0..MaxFail /\ idle \in 0..(S3 + MaxLag)
                /\ bootAge \in 0..BootDelay /\ lockAge \in 0..Lockout
    BY TimeAssumption DEF Init
  <2>5. Init => TypeOK
    BY <2>1, <2>2, <2>3, <2>4 DEF TypeOK
  <2>6. Init => Counted
    <3>1. Init => \A n \in Latest : wrong[n] = Lockout
      BY DEF Init, NoneWrong
    <3> QED BY <3>1, <2>4, TimeAssumption DEF Init, Counted
  <2> QED BY <2>5, <2>6 DEF Init, IInv, Restoring
<1>2. IInv /\ [Next]_vars => IInv'
  <2> SUFFICES ASSUME IInv, [Next]_vars PROVE IInv'
    OBVIOUS
  <2>1. CASE Boot
    BY <2>1 DEF Boot, IInv, TypeOK, Restoring, Counted, ram, ages, PC
  <2>2. CASE LeaveBootloader
    BY <2>2 DEF LeaveBootloader, Goto, IInv, TypeOK, Restoring, Counted, ram, ages, PC
  <2>3. CASE UNCHANGED vars
    BY <2>3 DEF vars, IInv, TypeOK, Restoring, Counted, ram, ages
  <2> QED BY <2>1, <2>2, <2>3, TesterKeeps, MainTaskKeeps, ClockKeeps DEF Next
<1> QED BY <1>1, <1>2, PTL DEF Spec

(* Failed keys, ages and the main task's registers stay in their ranges.   *)
THEOREM UdsTypeCorrect == Spec => []TypeOK
BY UdsInvariance, PTL DEF IInv

(* Back in the default session the setting is on and nothing is sent       *)
(* periodically, whatever requests came in on the way there.               *)
THEOREM UdsReturnRestores == Spec => []ReturnRestores
<1>1. IInv => ReturnRestores
  BY DEF IInv, Restoring, ReturnRestores
<1> QED BY <1>1, UdsInvariance, PTL

(* No more wrong keys in a row are taken within a lockout than the limit,  *)
(* for every limit and every length of lockout and boot delay.             *)
THEOREM UdsAttemptsBounded == Spec => []AttemptsBounded
<1>1. IInv => AttemptsBounded
  BY TimeAssumption DEF IInv, TypeOK, Counted, AttemptsBounded, Latest
<1> QED BY <1>1, UdsInvariance, PTL

-----------------------------------------------------------------------------

(* Every step of the services is one of the session's, or leaves it alone. *)
LEMMA ServesInSession == ASSUME NEW r, Serve(r) PROVE Tester
BY Zenon DEF Serve, Tester

LEMMA StepsInSession == ServiceNext => [Next]_vars
<1>1. ASSUME NEW r \in menu, Receive(r) PROVE [Next]_vars
  BY <1>1, ServesInSession DEF Receive, Next
<1>2. ServiceMainTask => Next
  BY DEF ServiceMainTask, WalkAndReadClock, Next, MainTask
<1>3. Unplug \/ Boot \/ LeaveBootloader \/ Clock => Next
  BY DEF Next, Tester
<1> QED BY <1>1, <1>2, <1>3 DEF ServiceNext

(* What is proved of the session holds of the services over it.            *)
THEOREM ServicesKeepSession == ServiceSpec => Spec
<1>1. ServiceInit => Init
  BY DEF ServiceInit
<1>2. [ServiceNext]_svars => [Next]_vars
  BY StepsInSession DEF svars, vars, ram, ages
<1> QED BY <1>1, <1>2, PTL DEF ServiceSpec, Spec

THEOREM ServicesReturnRestores == ServiceSpec => []ReturnRestores
BY ServicesKeepSession, UdsReturnRestores, PTL

-----------------------------------------------------------------------------
(* A refusal asks nothing of the session but to count a seed or a key, and *)
(* no key is both refused and right where the gate is open.                *)
Spotless(o) ==
    o.answer.kind = "negative" =>
        /\ o.app = app
        /\ o.asks.to \in {"nobody", "seed", "key"}
        /\ o.asks.to = "key" => GateDelay \/ GateLocked \/ ~(fresh /\ o.asks.arg)

LEMMA RefuseIsSpotless == \A nrc : Spotless(Refuse(nrc))
BY DEF Spotless, Refuse, Give, Negative, Nobody

LEMMA PositiveIsSpotless == \A o, n : o.answer = Positive(n) => Spotless(o)
BY DEF Spotless, Positive

LEMMA GiveIsSpotless == \A a : Spotless(Give(a))
BY DEF Spotless, Give, Nobody

LEMMA AskingIsSpotless == \A n, to, arg : Spotless(Asking(n, to, arg))
BY DEF Spotless, Asking, Give, Positive

LEMMA ReadsAreSpotless == ASSUME NEW r PROVE Spotless(ReadDataById(r)) /\ Spotless(ReadMemByAddr(r))
BY RefuseIsSpotless, GiveIsSpotless, Zenon DEF ReadDataById, ReadMemByAddr

LEMMA WritesAreSpotless ==
    ASSUME NEW r
    PROVE  /\ Spotless(WriteDataById(r)) /\ Spotless(InputOutputControl(r))
           /\ Spotless(CommunicationControl(r))
<1>1. \A x : Spotless([Give(Positive(3)) EXCEPT !.app.vin = x])
  BY DEF Spotless, Give, Positive
<1>2. \A x : Spotless([Give(Positive(5)) EXCEPT !.app.io = x])
  BY DEF Spotless, Give, Positive
<1>3. \A x, y : Spotless([Give(Positive(2)) EXCEPT !.app.rx = x, !.app.tx = y])
  BY DEF Spotless, Give, Positive
<1>4. Spotless(WriteDataById(r))
  BY <1>1, RefuseIsSpotless, Zenon DEF WriteDataById
<1>5. Spotless(InputOutputControl(r))
  BY <1>2, RefuseIsSpotless, GiveIsSpotless, Zenon DEF InputOutputControl
<1>6. Spotless(CommunicationControl(r))
  BY <1>3, RefuseIsSpotless, Zenon DEF CommunicationControl
<1> QED BY <1>4, <1>5, <1>6

LEMMA DefinitionsAreSpotless == ASSUME NEW r PROVE Spotless(DynamicDefineDid(r))
<1>1. \A i, x : Spotless([Give(Positive(4)) EXCEPT !.app.dyn[i] = x])
  BY DEF Spotless, Give, Positive
<1>2. \A did, recs : Spotless(CommitDefinition(did, recs))
  BY <1>1, RefuseIsSpotless, Zenon DEF CommitDefinition
<1>3. \A did : Spotless(ClearDefinition(did))
  BY <1>1, RefuseIsSpotless, Zenon DEF ClearDefinition
<1>4. Spotless(DefineById(r)) /\ Spotless(DefineByMemory(r))
  BY <1>2, RefuseIsSpotless, Zenon DEF DefineById, DefineByMemory
<1> QED BY <1>3, <1>4, RefuseIsSpotless, Zenon DEF DynamicDefineDid

LEMMA SessionIsSpotless ==
    ASSUME NEW r
    PROVE  /\ Spotless(SessionOutcome(r)) /\ Spotless(ResetOutcome(r)) /\ Spotless(SettingOutcome(r))
           /\ Spotless(SecurityOutcome(r)) /\ Spotless(TesterPresent(r))
<1>1. \A x, n : Spotless([Asking(6, "session", n) EXCEPT !.app.subs = x])
  BY DEF Spotless, Asking, Give, Positive
<1>2. Spotless(SessionOutcome(r))
  BY <1>1, RefuseIsSpotless DEF SessionOutcome, Spotless, Asking, Give, Positive
<1>3. Spotless(SeedOutcome)
  BY DEF Spotless, SeedOutcome, Refuse, Give, Negative, Positive, Nobody
<1>4. \A right : Spotless(KeyOutcome(right))
  <2> TAKE right
  <2>1. KeyOutcome(right).app = app /\ KeyOutcome(right).asks = [to |-> "key", arg |-> right]
    BY DEF KeyOutcome, Give
  <2>2. KeyOutcome(right).asks.to = "key" /\ KeyOutcome(right).asks.arg = right
    BY <2>1
  <2>3. CASE GateDelay \/ GateLocked
    BY <2>1, <2>2, <2>3, Zenon DEF Spotless
  <2>4. CASE ~(fresh /\ right)
    BY <2>1, <2>2, <2>4, Zenon DEF Spotless
  <2>5. CASE ~(GateDelay \/ GateLocked) /\ fresh /\ right
    <3>1. KeyOutcome(right) = [Give(Positive(2)) EXCEPT !.asks = [to |-> "key", arg |-> right]]
      BY <2>5, Zenon DEF KeyOutcome
    <3>2. KeyOutcome(right).answer.kind = "positive"
      BY <3>1 DEF Give, Positive
    <3> QED BY <3>2, Zenon DEF Spotless
  <2> QED BY <2>3, <2>4, <2>5, Zenon
<1>5. Spotless(SecurityOutcome(r))
  BY <1>3, <1>4, RefuseIsSpotless, Zenon DEF SecurityOutcome
<1> QED BY <1>2, <1>5, RefuseIsSpotless, GiveIsSpotless, AskingIsSpotless, Zenon
        DEF ResetOutcome, SettingOutcome, TesterPresent

LEMMA ObdIsSpotless ==
    ASSUME NEW r
    PROVE  /\ Spotless(CurrentData(r)) /\ Spotless(StoredDtcs(r)) /\ Spotless(PendingDtcs(r))
           /\ Spotless(VehicleInfo(r)) /\ Spotless(ClearDtcs)
           /\ Spotless(ClearDtc(r)) /\ Spotless(RoutineControl(r))
BY RefuseIsSpotless, GiveIsSpotless, AskingIsSpotless, Zenon
   DEF CurrentData, StoredDtcs, PendingDtcs, VehicleInfo, ClearDtcs, ClearDtc, RoutineControl

LEMMA HandlersAreSpotless == ASSUME NEW r, r.sid # "2A" PROVE Spotless(Handle(r))
BY ReadsAreSpotless, WritesAreSpotless, DefinitionsAreSpotless, SessionIsSpotless, ObdIsSpotless,
   RefuseIsSpotless, GiveIsSpotless DEF Handle

LEMMA OutcomesAreSpotless == ASSUME NEW r, r.sid # "2A" PROVE Spotless(Outcome(r))
<1> DEFINE o == IF Barred(r.sid) # None THEN Refuse(Barred(r.sid)) ELSE Handle(r)
<1>1. Spotless(o)
  BY HandlersAreSpotless, RefuseIsSpotless
<1>2. Outcome(r) = IF Suppressed(r, o.answer) THEN [o EXCEPT !.answer = Silence] ELSE o
  BY DEF Outcome
<1>3. Suppressed(r, o.answer) => Outcome(r).answer.kind # "negative"
  BY <1>2 DEF Silence
<1> QED BY <1>1, <1>2, <1>3 DEF Spotless

(* A request that is answered negatively has changed nothing, for whatever *)
(* requests a tester sends.                                                *)
THEOREM RefusalsLeaveNoTrace == ServiceSpec => RefusalLeavesNoTrace
<1>1. ASSUME NEW r, Outcome(r).answer.kind = "negative", r.sid # "2A", Serve(r)
      PROVE  UNCHANGED <<app, session, unlocked, dtcOn, periodic, reset, handoff>>
  <2>1. Spotless(Outcome(r))
    BY <1>1, OutcomesAreSpotless
  <2>2. app' = app
    BY <1>1, <2>1 DEF Serve, Spotless
  <2>3. CASE OtherRequest
    BY <2>2, <2>3 DEF OtherRequest, ram
  <2>4. CASE RequestSeed
    BY <2>2, <2>4 DEF RequestSeed
  <2>5. CASE Outcome(r).asks.to = "key" /\ \E right \in BOOLEAN : right = Outcome(r).asks.arg /\ SendKey(right)
    BY <1>1, <2>1, <2>2, <2>5 DEF SendKey, Spotless
  <2> QED BY <1>1, <2>1, <2>3, <2>4, <2>5 DEF Serve, Spotless
<1>2. \/ UNCHANGED <<app, session, unlocked, dtcOn, periodic, reset, handoff>>
      \/ \A r \in menu : Outcome(r).answer.kind = "negative" /\ r.sid # "2A" => ~Serve(r)
  BY <1>1
<1> QED BY <1>2, PTL DEF RefusalLeavesNoTrace

-----------------------------------------------------------------------------
(* What every request leaves of the record the services keep: its fields.  *)
Shaped(o) == DOMAIN o.app = DOMAIN app

LEMMA PlainIsShaped ==
    /\ \A nrc : Shaped(Refuse(nrc))
    /\ \A a : Shaped(Give(a))
    /\ \A n, to, arg : Shaped(Asking(n, to, arg))
BY DEF Shaped, Refuse, Give, Asking, Positive

LEMMA WritesAreShaped ==
    ASSUME NEW r
    PROVE  /\ Shaped(WriteDataById(r)) /\ Shaped(InputOutputControl(r))
           /\ Shaped(CommunicationControl(r))
<1>1. \A a, x : Shaped([Give(a) EXCEPT !.app.vin = x]) /\ Shaped([Give(a) EXCEPT !.app.io = x])
  BY DEF Shaped, Give
<1>2. \A a, x, y : Shaped([Give(a) EXCEPT !.app.rx = x, !.app.tx = y])
  BY DEF Shaped, Give
<1> QED BY <1>1, <1>2, PlainIsShaped, Zenon
        DEF WriteDataById, InputOutputControl, CommunicationControl

LEMMA DefinitionsAreShaped == ASSUME NEW r PROVE Shaped(DynamicDefineDid(r))
<1>1. \A i, x : Shaped([Give(Positive(4)) EXCEPT !.app.dyn[i] = x])
  BY DEF Shaped, Give
<1>2. \A did, recs : Shaped(CommitDefinition(did, recs)) /\ Shaped(ClearDefinition(did))
  BY <1>1, PlainIsShaped, Zenon DEF CommitDefinition, ClearDefinition
<1> QED BY <1>2, PlainIsShaped, Zenon DEF DynamicDefineDid, DefineById, DefineByMemory

LEMMA SessionIsShaped ==
    ASSUME NEW r
    PROVE  /\ Shaped(SessionOutcome(r)) /\ Shaped(ResetOutcome(r)) /\ Shaped(SettingOutcome(r))
           /\ Shaped(SecurityOutcome(r)) /\ Shaped(TesterPresent(r)) /\ Shaped(ReadDataPeriodic(r))
<1>1. \A x, n : Shaped([Asking(6, "session", n) EXCEPT !.app.subs = x])
  BY DEF Shaped, Asking, Give
<1>2. Shaped(SessionOutcome(r))
  BY <1>1, PlainIsShaped, Zenon DEF SessionOutcome
<1>3. \A nrc, x : Shaped([Refuse(nrc) EXCEPT !.asks = x])
  BY DEF Shaped, Refuse, Give
<1>4. \A a, x : Shaped([Give(a) EXCEPT !.asks = x])
  BY DEF Shaped, Give
<1>5. Shaped(SecurityOutcome(r))
  BY <1>3, <1>4, PlainIsShaped, Zenon DEF SecurityOutcome, SeedOutcome, KeyOutcome
<1>6. \A a, x, y : Shaped([answer |-> a, app |-> [app EXCEPT !.subs = x], asks |-> y])
  BY DEF Shaped
<1>7. Shaped(ReadDataPeriodic(r))
  BY <1>6, PlainIsShaped, Zenon DEF ReadDataPeriodic
<1> QED BY <1>2, <1>5, <1>7, PlainIsShaped, Zenon DEF ResetOutcome, SettingOutcome, TesterPresent

LEMMA OutcomesAreShaped == ASSUME NEW r PROVE Shaped(Outcome(r))
<1>1. /\ Shaped(CurrentData(r)) /\ Shaped(StoredDtcs(r)) /\ Shaped(PendingDtcs(r))
      /\ Shaped(VehicleInfo(r)) /\ Shaped(ClearDtcs) /\ Shaped(ClearDtc(r))
      /\ Shaped(RoutineControl(r)) /\ Shaped(ReadDataById(r)) /\ Shaped(ReadMemByAddr(r))
  BY PlainIsShaped, Zenon
     DEF CurrentData, StoredDtcs, PendingDtcs, VehicleInfo, ClearDtcs, ClearDtc, RoutineControl,
         ReadDataById, ReadMemByAddr
<1>2. Shaped(Handle(r))
  BY <1>1, WritesAreShaped, DefinitionsAreShaped, SessionIsShaped, PlainIsShaped DEF Handle
<1> DEFINE o == IF Barred(r.sid) # None THEN Refuse(Barred(r.sid)) ELSE Handle(r)
<1>3. Shaped(o)
  BY <1>2, PlainIsShaped
<1>4. Outcome(r) = IF Suppressed(r, o.answer) THEN [o EXCEPT !.answer = Silence] ELSE o
  BY DEF Outcome
<1>5. Outcome(r).app = o.app \/ Outcome(r) = [o EXCEPT !.answer = Silence]
  BY <1>4, Zenon
<1> QED BY <1>3, <1>4 DEF Shaped

AppShape == DOMAIN app = DOMAIN FreshApp

LEMMA AppKeepsShape == ServiceSpec => []AppShape
<1>1. ServiceInit => AppShape
  BY DEF ServiceInit, AppShape
<1>2. AppShape /\ [ServiceNext]_svars => AppShape'
  <2> SUFFICES ASSUME AppShape, [ServiceNext]_svars PROVE AppShape'
    OBVIOUS
  <2>1. CASE \E r \in menu : Receive(r)
    BY <2>1, OutcomesAreShaped DEF Receive, Serve, AppShape, Shaped
  <2>2. CASE ServiceMainTask
    BY <2>2 DEF ServiceMainTask, WalkAndReadClock, AppShape
  <2>3. CASE UNCHANGED app
    BY <2>3 DEF AppShape
  <2> QED BY <2>1, <2>2, <2>3 DEF ServiceNext, svars
<1> QED BY <1>1, <1>2, PTL DEF ServiceSpec

(* What a broadcast may do to it: nothing but the communication flags, and *)
(* of the session manager it asks for the DTC setting only.                *)
Kept == {"vin", "io", "dyn", "subs"}
Mild(o) == o.asks.to \in {"nobody", "dtc", "setting"} /\ \A f \in Kept : o.app[f] = app[f]

LEMMA PlainIsMild ==
    /\ \A nrc : Mild(Refuse(nrc))
    /\ \A a : Mild(Give(a))
    /\ \A n, arg : Mild(Asking(n, "dtc", arg)) /\ Mild(Asking(n, "setting", arg))
BY DEF Mild, Refuse, Give, Asking, Nobody, Positive

LEMMA BroadcastsAreMild ==
    ASSUME AppShape, NEW r, r.sid \in FunctionallyAddressable PROVE Mild(Outcome(r))
<1>1. \A x, y : Mild([Give(Positive(2)) EXCEPT !.app.rx = x, !.app.tx = y])
  BY DEF Mild, Kept, Give, Nobody, AppShape, FreshApp
<1>2. /\ Mild(CurrentData(r)) /\ Mild(StoredDtcs(r)) /\ Mild(PendingDtcs(r)) /\ Mild(VehicleInfo(r))
      /\ Mild(ClearDtcs) /\ Mild(TesterPresent(r)) /\ Mild(SettingOutcome(r))
      /\ Mild(CommunicationControl(r))
  BY <1>1, PlainIsMild, Zenon
     DEF CurrentData, StoredDtcs, PendingDtcs, VehicleInfo, ClearDtcs, TesterPresent,
         SettingOutcome, CommunicationControl
<1>3. Mild(Handle(r))
  BY <1>2 DEF Handle, FunctionallyAddressable
<1> DEFINE o == IF Barred(r.sid) # None THEN Refuse(Barred(r.sid)) ELSE Handle(r)
<1>4. Mild(o)
  BY <1>3, PlainIsMild
<1>5. Outcome(r) = IF Suppressed(r, o.answer) THEN [o EXCEPT !.answer = Silence] ELSE o
  BY DEF Outcome
<1> QED BY <1>4, <1>5 DEF Mild

(* A broadcast reaches nothing but the DTC setting and the communication   *)
(* flags, for whatever requests a tester sends.                            *)
THEOREM BroadcastsAreHarmless == ServiceSpec => BroadcastIsHarmless
<1>1. ASSUME AppShape, NEW r, r.addr = "functional", Serve(r)
      PROVE  /\ UNCHANGED <<session, unlocked, fresh, fails, periodic, reset, handoff>>
             /\ \A f \in Kept : app'[f] = app[f]
  <2>1. Mild(Outcome(r))
    BY <1>1, BroadcastsAreMild DEF Serve, Filtered
  <2>2. \A f \in Kept : app'[f] = app[f]
    BY <1>1, <2>1 DEF Serve, Mild
  <2>3. CASE OtherRequest
    BY <2>2, <2>3 DEF OtherRequest, ram
  <2>4. CASE \E on \in BOOLEAN : ControlDtcSetting(on)
    BY <2>2, <2>4 DEF ControlDtcSetting
  <2> QED BY <1>1, <2>1, <2>3, <2>4 DEF Serve, Mild
<1>2. AppShape =>
        \/ /\ UNCHANGED <<session, unlocked, fresh, fails, periodic, reset, handoff>>
           /\ \A f \in {"vin", "io", "dyn", "subs"} : app'[f] = app[f]
        \/ \A r \in menu : r.addr = "functional" => ~Serve(r)
  BY <1>1 DEF Kept
<1> QED BY <1>2, AppKeepsShape, PTL DEF BroadcastIsHarmless

-----------------------------------------------------------------------------
(* What assembling a definition gives: FoldLeft adds the sizes of its      *)
(* records up, FlattenSeq puts their bytes one behind the other.  Each is  *)
(* known by the equation its function satisfies, which has a solution.     *)

LEMMA LeastOf ==
    ASSUME NEW S \in SUBSET Nat, S # {} PROVE \E m \in S : \A n \in S : m <= n
<1>1. \E m \in S : \A n \in S : ~(<<n, m>> \in OpToRel(<, Nat))
  BY NatLessThanWellFounded, WFMin
<1>2. ASSUME NEW m \in Nat, NEW n \in Nat, n < m PROVE <<n, m>> \in OpToRel(<, Nat)
  BY <1>2, Zenon DEF OpToRel
<1>3. \E m \in S : \A n \in S : ~(n < m)
  BY <1>1, <1>2
<1> QED BY <1>3

(* What a fold over the records has added up over a set of places.         *)
Adds(f, recs, m) ==
    f = [s \in SUBSET (1..m) |-> IF s = {} THEN 0 ELSE f[s \ {Max(s)}] + recs[Max(s)].size]

LEMMA AddsExist == ASSUME NEW recs, NEW n \in Nat PROVE \E f : Adds(f, recs, n)
<1> DEFINE S == {m \in Nat : ~\E f : Adds(f, recs, m)}
<1>1. CASE S = {}
  BY <1>1
<1>2. CASE S # {}
  <2>1. PICK m \in S : \A i \in S : m <= i
    BY <1>2, LeastOf
  <2>2. m \in Nat /\ ~\E f : Adds(f, recs, m)
    OBVIOUS
  <2>3. m # 0
    <3> SUFFICES ASSUME m = 0 PROVE FALSE
      OBVIOUS
    <3> DEFINE f == [s \in SUBSET (1..m) |-> 0]
    <3>1. \A s \in SUBSET (1..m) : s = {}
      OBVIOUS
    <3>2. f = [s \in SUBSET (1..m) |-> IF s = {} THEN 0 ELSE f[s \ {Max(s)}] + recs[Max(s)].size]
      BY <3>1
    <3> QED BY <2>2, <3>2 DEF Adds
  <2>4. m - 1 \in Nat /\ m - 1 \notin S
    BY <2>1, <2>2, <2>3
  <2>5. PICK f : Adds(f, recs, m - 1)
    BY <2>4
  <2> DEFINE g == [s \in SUBSET (1..m) |-> IF m \in s THEN f[s \ {m}] + recs[m].size ELSE f[s]]
             Sum(s) == IF s = {} THEN 0 ELSE g[s \ {Max(s)}] + recs[Max(s)].size
  <2>6. f = [s \in SUBSET (1..(m - 1)) |-> IF s = {} THEN 0 ELSE f[s \ {Max(s)}] + recs[Max(s)].size]
    BY <2>5 DEF Adds
  <2> HIDE DEF S
  <2>7. ASSUME NEW s \in SUBSET (1..m) PROVE g[s] = Sum(s)
    <3>1. CASE m \in s
      <4>1. Max(s) = m
        <5>1. m \in s /\ \A y \in s : m >= y
          BY <2>2, <3>1
        <5>2. ASSUME NEW x \in s, \A y \in s : x >= y PROVE x = m
          <6>1. x \in 1..m /\ x >= m
            BY <3>1, <5>2
          <6> QED BY <2>2, <6>1
        <5> QED BY <5>1, <5>2 DEF Max
      <4>2. s \ {m} \in SUBSET (1..m) /\ m \notin s \ {m}
        OBVIOUS
      <4>3. g[s] = f[s \ {m}] + recs[m].size /\ g[s \ {m}] = f[s \ {m}]
        BY <3>1, <4>2
      <4> QED BY <3>1, <4>1, <4>3
    <3>2. CASE m \notin s
      <4>1. s \in SUBSET (1..(m - 1))
        BY <2>2, <3>2
      <4> DEFINE x == Max(s)
      <4>2. s \ {x} \in SUBSET (1..m) /\ m \notin s \ {x}
        BY <3>2
      <4>3. g[s] = f[s] /\ g[s \ {x}] = f[s \ {x}]
        BY <3>2, <4>1, <4>2
      <4>4. f[s] = IF s = {} THEN 0 ELSE f[s \ {Max(s)}] + recs[Max(s)].size
        BY <2>6, <4>1
      <4> QED BY <4>3, <4>4
    <3> QED BY <3>1, <3>2
  <2>8. g = [s \in SUBSET (1..m) |-> Sum(s)]
    BY <2>7
  <2>9. Adds(g, recs, m)
    BY <2>8, Zenon DEF Adds
  <2> QED BY <2>2, <2>9
<1> QED BY <1>1, <1>2

LEMMA TotalAdds ==
    ASSUME NEW recs, NEW n \in Nat, DOMAIN recs = 1..n
    PROVE  \E f : Adds(f, recs, n) /\ TotalSize(recs) = f[1..n]
<1> DEFINE f == CHOOSE f : f = [s \in SUBSET (1..n) |->
                     IF s = {} THEN 0 ELSE f[s \ {Max(s)}] + recs[Max(s)].size]
<1>1. TotalSize(recs) = f[1..n]
  BY DEF TotalSize, FoldLeft, MapThenFoldSet
<1>2. Adds(f, recs, n)
  BY AddsExist DEF Adds
<1> QED BY <1>1, <1>2
(* The sequences put together so far.                                      *)
JoinsTo(g, seqs, m) ==
    g = [i \in 1..m |-> IF i = 1 THEN seqs[1] ELSE g[i - 1] \o seqs[i]]

LEMMA JoinsExist == ASSUME NEW seqs, NEW n \in Nat PROVE \E g : JoinsTo(g, seqs, n)
<1> DEFINE S == {m \in Nat : ~\E g : JoinsTo(g, seqs, m)}
<1>1. CASE S = {}
  BY <1>1
<1>2. CASE S # {}
  <2>1. PICK m \in S : \A i \in S : m <= i
    BY <1>2, LeastOf
  <2>2. m \in Nat /\ ~\E g : JoinsTo(g, seqs, m)
    OBVIOUS
  <2>3. m # 0
    <3> SUFFICES ASSUME m = 0 PROVE FALSE
      OBVIOUS
    <3> DEFINE g == [i \in 1..m |-> 0]
    <3>1. \A i \in 1..m : FALSE
      OBVIOUS
    <3>2. g = [i \in 1..m |-> IF i = 1 THEN seqs[1] ELSE g[i - 1] \o seqs[i]]
      BY <3>1
    <3> QED BY <2>2, <3>2 DEF JoinsTo
  <2>4. m - 1 \in Nat /\ m - 1 \notin S
    BY <2>1, <2>2, <2>3
  <2>5. PICK g : JoinsTo(g, seqs, m - 1)
    BY <2>4
  <2> HIDE DEF S
  <2> DEFINE h == [i \in 1..m |-> IF i # m THEN g[i] ELSE IF m = 1 THEN seqs[1] ELSE g[m - 1] \o seqs[m]]
             Join(i) == IF i = 1 THEN seqs[1] ELSE h[i - 1] \o seqs[i]
  <2>6. g = [i \in 1..(m - 1) |-> IF i = 1 THEN seqs[1] ELSE g[i - 1] \o seqs[i]]
    BY <2>5 DEF JoinsTo
  <2>7. ASSUME NEW i \in 1..m PROVE h[i] = Join(i)
    <3>1. CASE i = 1 /\ m = 1
      BY <3>1
    <3>2. CASE i = 1 /\ m # 1
      <4>1. h[1] = g[1] /\ 1 \in 1..(m - 1)
        BY <2>2, <3>2
      <4> QED BY <2>6, <3>2, <4>1
    <3>3. CASE i # 1
      <4>1. i - 1 \in 1..m /\ i - 1 # m
        BY <2>2, <3>3
      <4>2. h[i - 1] = g[i - 1]
        BY <4>1
      <4>3. CASE i = m
        BY <3>3, <4>2, <4>3
      <4>4. CASE i # m
        <5>1. i \in 1..(m - 1)
          BY <2>2, <4>4
        <5>2. g[i] = g[i - 1] \o seqs[i]
          BY <2>6, <3>3, <5>1
        <5> QED BY <3>3, <4>2, <4>4, <5>2
      <4> QED BY <4>3, <4>4
    <3> QED BY <3>1, <3>2, <3>3
  <2>8. h = [i \in 1..m |-> Join(i)]
    BY <2>7
  <2>9. JoinsTo(h, seqs, m)
    BY <2>8, Zenon DEF JoinsTo
  <2> QED BY <2>2, <2>9
<1> QED BY <1>1, <1>2

LEMMA FlattenJoins ==
    ASSUME NEW seqs, Len(seqs) \in Nat \ {0}
    PROVE  \E g : JoinsTo(g, seqs, Len(seqs)) /\ FlattenSeq(seqs) = g[Len(seqs)]
<1> DEFINE n == Len(seqs)
           P(g) == g = [i \in 1..n |-> IF i = 1 THEN seqs[i] ELSE g[i - 1] \o seqs[i]]
           g == CHOOSE g : P(g)
<1>1. FlattenSeq(seqs) = g[n]
  BY DEF FlattenSeq
<1>2. \A f : P(f) <=> JoinsTo(f, seqs, n)
  BY DEF JoinsTo
<1>3. P(g)
  BY <1>2, JoinsExist, Zenon
<1> QED BY <1>1, <1>2, <1>3

LEMMA IsSeq ==
    ASSUME NEW B, NEW n \in Nat, NEW s, s = [i \in 1..n |-> s[i]], \A i \in 1..n : s[i] \in B
    PROVE  s \in Seq(B) /\ Len(s) = n
<1>1. s \in [1..n -> B]
  OBVIOUS
<1> QED BY <1>1, LenProperties, SeqDef

Joined(recs) == FlattenSeq([i \in 1..Len(recs) |-> Slice(recs[i])])
OfRecords(bytes, recs) ==
    \A j \in 1..Len(bytes) : \E i \in 1..Len(recs) : \E h \in 1..recs[i].size :
        bytes[j] = <<recs[i].src, recs[i].pos + h - 1>>

(* The bytes of a definition: as many as its records name, and each of     *)
(* them a byte of one of the records.                                      *)
LEMMA SlicesJoin ==
    ASSUME NEW recs, Len(recs) \in Nat \ {0}, DOMAIN recs = 1..Len(recs),
           \A i \in 1..Len(recs) : recs[i].size \in Nat \ {0}
    PROVE  /\ Len(Joined(recs)) = TotalSize(recs) /\ Joined(recs) # <<>>
           /\ OfRecords(Joined(recs), recs)
<1> SUFFICES ASSUME NEW n, n = Len(recs), NEW bytes, bytes = Joined(recs)
             PROVE  Len(bytes) = TotalSize(recs) /\ bytes # <<>> /\ OfRecords(bytes, recs)
  OBVIOUS
<1>0. n \in Nat \ {0} /\ DOMAIN recs = 1..n /\ \A i \in 1..n : recs[i].size \in Nat \ {0}
  OBVIOUS
<1> DEFINE seqs == [i \in 1..n |-> Slice(recs[i])]
           B == UNION {{Slice(recs[i])[h] : h \in 1..recs[i].size} : i \in 1..n}
<1>1. ASSUME NEW i \in 1..n PROVE seqs[i] \in Seq(B) /\ Len(seqs[i]) = recs[i].size
  <2>1. seqs[i] = Slice(recs[i]) /\ recs[i].size \in Nat
    OBVIOUS
  <2>2. \A h \in 1..recs[i].size : Slice(recs[i])[h] \in B
    OBVIOUS
  <2>3. Slice(recs[i]) = [h \in 1..recs[i].size |-> Slice(recs[i])[h]]
    BY DEF Slice
  <2> HIDE DEF B
  <2>4. ASSUME NEW s, s = Slice(recs[i]) PROVE s \in Seq(B) /\ Len(s) = recs[i].size
    <3>1. s = [h \in 1..recs[i].size |-> s[h]] /\ \A h \in 1..recs[i].size : s[h] \in B
      BY <2>2, <2>3, <2>4, Zenon
    <3>2. recs[i].size \in Nat
      BY <2>1
    <3> QED BY <3>1, <3>2, IsSeq, Zenon
  <2> QED BY <2>1, <2>4, Zenon
<1>2. Len(seqs) = n
  OBVIOUS
<1>3. seqs = [i \in 1..Len(recs) |-> Slice(recs[i])]
  OBVIOUS
<1>4. \A b \in B : \E i \in 1..n : \E h \in 1..recs[i].size : b = <<recs[i].src, recs[i].pos + h - 1>>
  <2>1. \A i \in 1..n : \A h \in 1..recs[i].size : Slice(recs[i])[h] = <<recs[i].src, recs[i].pos + h - 1>>
    BY DEF Slice
  <2>2. \A b \in B : \E i \in 1..n : \E h \in 1..recs[i].size : b = Slice(recs[i])[h]
    BY Zenon
  <2>3. ASSUME NEW b \in B
        PROVE  \E i \in 1..n : \E h \in 1..recs[i].size : b = <<recs[i].src, recs[i].pos + h - 1>>
    <3>1. PICK i \in 1..n : \E h \in 1..recs[i].size : b = Slice(recs[i])[h]
      BY <2>2, Zenon
    <3>2. PICK h \in 1..recs[i].size : b = Slice(recs[i])[h]
      BY <3>1, Zenon
    <3> QED BY <2>1, <3>2, Zenon
  <2> HIDE DEF B
  <2> QED BY <2>3, Zenon
<1> HIDE DEF B, seqs
<1>5. PICK g : JoinsTo(g, seqs, n) /\ bytes = g[n]
  <2>1. bytes = FlattenSeq(seqs)
    BY <1>3, Zenon DEF Joined
  <2> QED BY <1>0, <1>2, <2>1, FlattenJoins
<1>6. PICK f : Adds(f, recs, n) /\ TotalSize(recs) = f[1..n]
  BY <1>0, TotalAdds
<1> DEFINE P(i) == g[i] \in Seq(B) /\ Len(g[i]) = f[1..i] /\ Len(g[i]) > 0
           Bad == {i \in 1..n : ~P(i)}
<1>7. \A i \in 1..n : g[i] = IF i = 1 THEN seqs[1] ELSE g[i - 1] \o seqs[i]
  BY <1>5 DEF JoinsTo
<1>8. ASSUME NEW i \in 1..n PROVE f[1..i] = f[1..(i - 1)] + recs[i].size
  <2>1. Max(1..i) = i
    <3>1. i \in 1..i /\ \A y \in 1..i : i >= y
      OBVIOUS
    <3>2. ASSUME NEW x \in 1..i, \A y \in 1..i : x >= y PROVE x = i
      <4>1. x >= i
        BY <3>2
      <4> QED BY <4>1
    <3> QED BY <3>1, <3>2 DEF Max
  <2>2. (1..i) \ {i} = 1..(i - 1) /\ 1..i # {}
    <3>1. ASSUME NEW x PROVE x \in (1..i) \ {i} <=> x \in 1..(i - 1)
      OBVIOUS
    <3>2. i \in 1..i
      OBVIOUS
    <3> QED BY <3>1, <3>2
  <2>3. 1..i \in SUBSET (1..n)
    OBVIOUS
  <2>4. f[1..i] = IF 1..i = {} THEN 0 ELSE f[(1..i) \ {Max(1..i)}] + recs[Max(1..i)].size
    BY <1>6, <2>3 DEF Adds
  <2> QED BY <2>1, <2>2, <2>4
<1>9. f[1..0] = 0
  <2>1. 1..0 = {} /\ 1..0 \in SUBSET (1..n)
    OBVIOUS
  <2> QED BY <1>6, <2>1 DEF Adds
<1>10. Bad = {}
  <2> SUFFICES ASSUME Bad # {} PROVE FALSE
    OBVIOUS
  <2>0. Bad \in SUBSET Nat
    OBVIOUS
  <2> HIDE DEF Bad
  <2>1. PICK m \in Bad : \A i \in Bad : m <= i
    BY <2>0, LeastOf
  <2>2. m \in 1..n /\ ~P(m) /\ recs[m].size \in Nat \ {0}
    BY DEF Bad
  <2>3. seqs[m] \in Seq(B) /\ Len(seqs[m]) = recs[m].size
    BY <1>1, <2>2
  <2>4. CASE m = 1
    <3>1. g[1] = seqs[1] /\ f[1..1] = f[1..(1 - 1)] + recs[1].size
      BY <1>7, <1>8, <2>2, <2>4
    <3>2. 1 - 1 = 0
      OBVIOUS
    <3>3. f[1..1] = recs[1].size
      BY <1>9, <2>2, <2>4, <3>1, <3>2
    <3> QED BY <2>2, <2>3, <2>4, <3>1, <3>3
  <2>5. CASE m # 1
    <3>1. m - 1 \in 1..n /\ m - 1 \notin Bad
      BY <2>1, <2>2, <2>5
    <3>2. P(m - 1)
      BY <3>1 DEF Bad
    <3>3. g[m] = g[m - 1] \o seqs[m] /\ f[1..m] = f[1..(m - 1)] + recs[m].size
      BY <1>7, <1>8, <2>2, <2>5
    <3>4. ASSUME NEW u \in Seq(B), NEW v \in Seq(B)
          PROVE  u \o v \in Seq(B) /\ Len(u \o v) = Len(u) + Len(v)
      OBVIOUS
    <3>5. g[m] \in Seq(B) /\ Len(g[m]) = Len(g[m - 1]) + Len(seqs[m])
      BY <2>3, <3>2, <3>3, <3>4, Zenon
    <3>6. Len(g[m - 1]) \in Nat
      BY <3>2
    <3> QED BY <2>2, <2>3, <3>2, <3>3, <3>5, <3>6
  <2> QED BY <2>4, <2>5
<1>11. P(n)
  <2>1. n \in 1..n
    OBVIOUS
  <2> QED BY <1>10, <2>1, Zenon
<1>12. bytes \in Seq(B) /\ Len(bytes) = TotalSize(recs) /\ Len(bytes) > 0
  BY <1>5, <1>6, <1>11
<1>13. \A j \in 1..Len(bytes) : bytes[j] \in B
  BY <1>12, ElementOfSeq
<1>14. bytes # <<>>
  BY <1>12
<1>15. OfRecords(bytes, recs)
  BY <1>4, <1>13 DEF OfRecords
<1> QED BY <1>12, <1>14, <1>15

-----------------------------------------------------------------------------
(* What the services keep is fit to be read: a definition in use has       *)
(* records, each of something that is there, and fits an answer.  Only the *)
(* VIN can be shorter than it was when the definition was accepted.        *)
Fits(rec) ==
    /\ rec.pos \in Nat /\ rec.size \in Nat \ {0}
    /\ \/ rec.src = Memory /\ InRegion(rec)
       \/ rec.src = "VIN" /\ rec.pos # 0
       \/ /\ rec.src \in Sources \ {"VIN"} /\ rec.pos # 0
          /\ rec.pos - 1 + rec.size <= IF rec.src = "IO" THEN 1 ELSE Strings[rec.src]

Readying(recs) ==
    /\ Pieces(recs) /\ recs # <<>> /\ ~(TotalSize(recs) > MaxData)
    /\ \A i \in DOMAIN recs : Fits(recs[i])

Fit(a) ==
    /\ DOMAIN a = DOMAIN FreshApp /\ a.vin \in Nat /\ DOMAIN a.dyn = 1..DynSlots
    /\ \A i \in 1..DynSlots : a.dyn[i].did # None => Readying(a.dyn[i].recs)

FitInv == Fit(app) /\ menu \in Menus

LEMMA LowestIsIn == ASSUME NEW S \in SUBSET (1..DynSlots), S # {} PROVE Lowest(S) \in S
<1>1. S \in SUBSET Nat
  BY ServiceAssumption
<1>2. \E i \in S : \A j \in S : i <= j
  BY <1>1, LeastOf
<1> QED BY <1>2 DEF Lowest

LEMMA FitElsewhere ==
    ASSUME Fit(app)
    PROVE  /\ \A x : Fit([app EXCEPT !.io = x]) /\ Fit([app EXCEPT !.subs = x])
           /\ \A x, y : Fit([app EXCEPT !.rx = x, !.tx = y])
           /\ \A x \in Nat : Fit([app EXCEPT !.vin = x])
           /\ \A i, d : (d.did # None => Readying(d.recs)) => Fit([app EXCEPT !.dyn[i] = d])
<1>1. \A x : Fit([app EXCEPT !.io = x]) /\ Fit([app EXCEPT !.subs = x])
  BY DEF Fit, FreshApp
<1>2. \A x, y : Fit([app EXCEPT !.rx = x, !.tx = y])
  BY DEF Fit, FreshApp
<1>3. \A x \in Nat : Fit([app EXCEPT !.vin = x])
  BY DEF Fit, FreshApp
<1>4. ASSUME NEW i, NEW d, d.did # None => Readying(d.recs) PROVE Fit([app EXCEPT !.dyn[i] = d])
  BY <1>4 DEF Fit, FreshApp
<1> QED BY <1>1, <1>2, <1>3, <1>4

LEMMA WithinFits ==
    ASSUME NEW rec, rec.pos \in Nat, rec.size \in Nat \ {0}, Within(rec)
    PROVE  Fits(rec)
<1>1. CASE rec.src = "VIN"
  BY <1>1 DEF Within, Fits
<1>2. CASE rec.src # "VIN"
  BY <1>2 DEF Within, Fits, SourceLength
<1> QED BY <1>1, <1>2

LEMMA DefinitionsFit ==
    ASSUME Fit(app), NEW r, WellFormed(r), r.sid = "2C" PROVE Fit(DynamicDefineDid(r).app)
<1>1. \A nrc : Refuse(nrc).app = app
  BY DEF Refuse, Give
<1>2. ASSUME NEW did, NEW recs, Readying(recs) PROVE Fit(CommitDefinition(did, recs).app)
  <2>1. ASSUME NEW i PROVE [Give(Positive(4)) EXCEPT !.app.dyn[i] = [did |-> did, recs |-> recs]].app
                           = [app EXCEPT !.dyn[i] = [did |-> did, recs |-> recs]]
    BY DEF Give
  <2>2. [did |-> did, recs |-> recs].recs = recs
    OBVIOUS
  <2>3. \A i : Fit([app EXCEPT !.dyn[i] = [did |-> did, recs |-> recs]])
    BY <1>2, <2>2, FitElsewhere, Zenon
  <2> QED BY <1>1, <2>1, <2>3, Zenon DEF CommitDefinition
<1>3. ASSUME NEW did PROVE Fit(ClearDefinition(did).app)
  <2>1. ASSUME NEW i PROVE [Give(Positive(4)) EXCEPT !.app.dyn[i] = Free].app = [app EXCEPT !.dyn[i] = Free]
    BY DEF Give
  <2>2. Free.did = None
    BY DEF Free
  <2>3. \A i : Fit([app EXCEPT !.dyn[i] = Free])
    BY <2>2, FitElsewhere, Zenon
  <2> QED BY <1>1, <2>1, <2>3, Zenon DEF ClearDefinition
<1>4. ASSUME r.sub = 1 PROVE Fit(DefineById(r).app)
  <2> DEFINE recs == r.arg.recs
  <2>1. CASE \/ r.len < 8 \/ (r.len - 4) % 4 # 0 \/ Len(recs) \notin 1..MaxRec
             \/ \E i \in 1..Len(recs) : recs[i].size = 0 \/ ~Within(recs[i])
             \/ TotalSize(recs) > MaxData
    BY <1>1, <2>1, Zenon DEF DefineById
  <2>2. CASE ~(\/ r.len < 8 \/ (r.len - 4) % 4 # 0 \/ Len(recs) \notin 1..MaxRec
               \/ \E i \in 1..Len(recs) : recs[i].size = 0 \/ ~Within(recs[i])
               \/ TotalSize(recs) > MaxData)
    <3>1. Pieces(recs)
      <4>1. r.len >= 8
        BY <2>2 DEF WellFormed
      <4> QED BY <1>4, <4>1 DEF WellFormed
    <3>2. ASSUME NEW i \in DOMAIN recs PROVE Fits(recs[i])
      BY <2>2, <3>1, WithinFits DEF Pieces
    <3>3. Readying(recs)
      BY <2>2, <3>1, <3>2 DEF Readying
    <3> QED BY <1>2, <2>2, <3>3, Zenon DEF DefineById
  <2> QED BY <2>1, <2>2
<1>5. ASSUME r.sub = 2 PROVE Fit(DefineByMemory(r).app)
  <2> DEFINE recs == r.arg.recs
             stride == r.arg.alen + r.arg.slen
             Bad == \/ r.len < 5 \/ r.arg.alen \notin Lengths \/ r.arg.slen \notin Lengths
                    \/ r.len < 5 + stride \/ (r.len - 5) % stride # 0 \/ Len(recs) \notin 1..MaxRec
                    \/ \E i \in 1..Len(recs) : recs[i].size \notin 1..MaxData \/ ~InRegion(recs[i])
                    \/ TotalSize(recs) > MaxData
  <2>1. CASE Bad
    BY <1>1, <2>1, Zenon DEF DefineByMemory
  <2>2. CASE ~Bad
    <3>1. Pieces(recs) /\ \A i \in DOMAIN recs : recs[i].src = Memory
      <4>1. r.arg.alen \in 1..4 /\ r.arg.slen \in 1..4 /\ r.len \in Nat
        BY <2>2 DEF WellFormed, Lengths
      <4>2. ~(r.len < 5 + stride)
        BY <2>2
      <4>3. r.len >= 5 + r.arg.alen + r.arg.slen
        BY <4>1, <4>2
      <4> HIDE DEF Bad
      <4> QED BY <1>5, <4>3 DEF WellFormed
    <3>2. ASSUME NEW i \in DOMAIN recs PROVE Fits(recs[i])
      <4>1. recs[i].pos \in Nat /\ i \in 1..Len(recs) /\ recs[i].src = Memory
        BY <3>1 DEF Pieces
      <4>2. recs[i].size \in 1..MaxData /\ InRegion(recs[i])
        BY <2>2, <4>1
      <4>3. recs[i].size \in Nat \ {0}
        BY <4>2, ServiceAssumption
      <4> HIDE DEF recs
      <4> QED BY <4>1, <4>2, <4>3 DEF Fits
    <3>3. Readying(recs)
      BY <2>2, <3>1, <3>2 DEF Readying
    <3> QED BY <1>2, <2>2, <3>3, Zenon DEF DefineByMemory
  <2> QED BY <2>1, <2>2
<1> QED BY <1>1, <1>3, <1>4, <1>5, Zenon DEF DynamicDefineDid

Leaves(o) == Fit(o.app)

LEMMA PlainFit ==
    ASSUME Fit(app)
    PROVE  /\ \A nrc : Leaves(Refuse(nrc))
           /\ \A a : Leaves(Give(a))
           /\ \A n, to, arg : Leaves(Asking(n, to, arg))
BY DEF Leaves, Refuse, Give, Asking, Positive

LEMMA WritesFit ==
    ASSUME Fit(app), NEW r, WellFormed(r)
    PROVE  /\ r.sid = "2E" => Leaves(WriteDataById(r))
           /\ Leaves(InputOutputControl(r)) /\ Leaves(CommunicationControl(r))
<1>1. ASSUME NEW a, NEW x \in Nat PROVE Leaves([Give(a) EXCEPT !.app.vin = x])
  <2>1. [Give(a) EXCEPT !.app.vin = x].app = [app EXCEPT !.vin = x]
    BY DEF Give
  <2> QED BY <2>1, FitElsewhere DEF Leaves
<1>2. ASSUME NEW a, NEW x PROVE Leaves([Give(a) EXCEPT !.app.io = x])
  <2>1. [Give(a) EXCEPT !.app.io = x].app = [app EXCEPT !.io = x]
    BY DEF Give
  <2> QED BY <2>1, FitElsewhere DEF Leaves
<1>3. ASSUME NEW a, NEW x, NEW y PROVE Leaves([Give(a) EXCEPT !.app.rx = x, !.app.tx = y])
  <2>1. [Give(a) EXCEPT !.app.rx = x, !.app.tx = y].app = [app EXCEPT !.rx = x, !.tx = y]
    BY DEF Give
  <2>2. Fit([app EXCEPT !.rx = x, !.tx = y])
    BY FitElsewhere, Zenon
  <2> QED BY <2>1, <2>2, Zenon DEF Leaves
<1>4. Leaves(InputOutputControl(r))
  BY <1>2, PlainFit, Zenon DEF InputOutputControl
<1>5. Leaves(CommunicationControl(r))
  BY <1>3, PlainFit, Zenon DEF CommunicationControl
<1>6. ASSUME r.sid = "2E" PROVE Leaves(WriteDataById(r))
  <2>1. CASE r.len < 4 \/ r.arg.did # "VIN" \/ r.len - 3 # Vin
    BY <2>1, PlainFit, Zenon DEF WriteDataById
  <2>2. CASE ~(r.len < 4 \/ r.arg.did # "VIN" \/ r.len - 3 # Vin)
    <3>1. r.len >= 4
      BY <2>2 DEF WellFormed
    <3>2. r.arg.text \in Nat
      BY <1>6, <3>1, ServiceAssumption DEF WellFormed
    <3> QED BY <1>1, <2>2, <3>2, Zenon DEF WriteDataById
  <2> QED BY <2>1, <2>2
<1> QED BY <1>4, <1>5, <1>6

LEMMA SessionFits ==
    ASSUME Fit(app), NEW r
    PROVE  /\ Leaves(SessionOutcome(r)) /\ Leaves(ResetOutcome(r)) /\ Leaves(SettingOutcome(r))
           /\ Leaves(SecurityOutcome(r)) /\ Leaves(TesterPresent(r)) /\ Leaves(ReadDataPeriodic(r))
<1>1. ASSUME NEW n PROVE Leaves([Asking(6, "session", n) EXCEPT !.app.subs = IF r.sub = 1 THEN {} ELSE @])
  <2> DEFINE s == IF r.sub = 1 THEN {} ELSE app.subs
  <2>1. [Asking(6, "session", n) EXCEPT !.app.subs = IF r.sub = 1 THEN {} ELSE @].app
        = [app EXCEPT !.subs = s]
    BY DEF Asking, Give
  <2> HIDE DEF s
  <2> QED BY <2>1, FitElsewhere DEF Leaves
<1>2. Leaves(SessionOutcome(r))
  BY <1>1, PlainFit, Zenon DEF SessionOutcome
<1>3. \A nrc, x : Leaves([Refuse(nrc) EXCEPT !.asks = x])
  BY DEF Leaves, Refuse, Give
<1>4. \A a, x : Leaves([Give(a) EXCEPT !.asks = x])
  BY DEF Leaves, Give
<1>5. Leaves(SecurityOutcome(r))
  BY <1>3, <1>4, PlainFit, Zenon DEF SecurityOutcome, SeedOutcome, KeyOutcome
<1>6. ASSUME NEW a, NEW x, NEW y PROVE Leaves([answer |-> a, app |-> [app EXCEPT !.subs = x], asks |-> y])
  BY FitElsewhere DEF Leaves
<1>7. Leaves(ReadDataPeriodic(r))
  BY <1>6, PlainFit, Zenon DEF ReadDataPeriodic
<1> QED BY <1>2, <1>5, <1>7, PlainFit, Zenon DEF ResetOutcome, SettingOutcome, TesterPresent

LEMMA OutcomesFit == ASSUME Fit(app), NEW r, WellFormed(r) PROVE Leaves(Outcome(r))
<1>1. /\ Leaves(CurrentData(r)) /\ Leaves(StoredDtcs(r)) /\ Leaves(PendingDtcs(r))
      /\ Leaves(VehicleInfo(r)) /\ Leaves(ClearDtcs) /\ Leaves(ClearDtc(r))
      /\ Leaves(RoutineControl(r)) /\ Leaves(ReadDataById(r)) /\ Leaves(ReadMemByAddr(r))
  BY PlainFit, Zenon
     DEF CurrentData, StoredDtcs, PendingDtcs, VehicleInfo, ClearDtcs, ClearDtc, RoutineControl,
         ReadDataById, ReadMemByAddr
<1>2. r.sid = "2C" => Leaves(DynamicDefineDid(r))
  BY DefinitionsFit DEF Leaves
<1>3. Leaves(Handle(r))
  BY <1>1, <1>2, WritesFit, SessionFits, PlainFit DEF Handle
<1> DEFINE o == IF Barred(r.sid) # None THEN Refuse(Barred(r.sid)) ELSE Handle(r)
<1>4. Leaves(o)
  BY <1>3, PlainFit
<1>5. Outcome(r) = IF Suppressed(r, o.answer) THEN [o EXCEPT !.answer = Silence] ELSE o
  BY DEF Outcome
<1>6. Outcome(r).app = o.app
  BY <1>5
<1> QED BY <1>4, <1>6, Zenon DEF Leaves

LEMMA FitAlways == ServiceSpec => []FitInv
<1>1. ServiceInit => FitInv
  BY ServiceAssumption DEF ServiceInit, FitInv, Fit, FreshApp, Free
<1>2. FitInv /\ [ServiceNext]_svars => FitInv'
  <2> SUFFICES ASSUME FitInv, [ServiceNext]_svars PROVE FitInv'
    OBVIOUS
  <2>1. Fit(FreshApp)
    BY ServiceAssumption DEF Fit, FreshApp, Free
  <2>2. menu' \in Menus
    BY DEF FitInv, ServiceNext, svars
  <2>3. CASE \E r \in menu : Receive(r)
    <3>1. PICK r \in menu : Receive(r)
      BY <2>3
    <3>2. WellFormed(r) /\ Fit(app)
      BY RequestAssumption DEF FitInv
    <3>3. app' = Outcome(r).app \/ app' = app
      BY <3>1 DEF Receive, Serve
    <3> QED BY <2>2, <3>2, <3>3, OutcomesFit DEF FitInv, Leaves
  <2>4. CASE ServiceMainTask
    <3>1. app' = FreshApp \/ app' = app \/ \E x : app' = [app EXCEPT !.subs = x]
      BY <2>4 DEF ServiceMainTask, WalkAndReadClock
    <3> QED BY <2>1, <2>2, <3>1, FitElsewhere DEF FitInv
  <2>5. CASE UNCHANGED app
    BY <2>2, <2>5 DEF FitInv
  <2> QED BY <2>3, <2>4, <2>5 DEF ServiceNext, svars
<1> QED BY <1>1, <1>2, PTL DEF ServiceSpec

LEMMA ByteInRegion ==
    ASSUME NEW p \in Nat, NEW z \in Nat, NEW y \in 1..z, NEW f \in Nat, NEW e \in Nat,
           p \in f..(e - 1), z <= e - p
    PROVE  p + y - 1 \in f..(e - 1)
OBVIOUS

LEMMA ByteInSource ==
    ASSUME NEW p \in Nat \ {0}, NEW z \in Nat, NEW y \in 1..z, NEW e \in Nat, p - 1 + z <= e
    PROVE  p + y - 1 \in 1..e
OBVIOUS

LEMMA ReadyingJoins ==
    ASSUME NEW recs, Readying(recs)
    PROVE  /\ Len(recs) \in Nat \ {0} /\ DOMAIN recs = 1..Len(recs)
           /\ \A i \in 1..Len(recs) : Fits(recs[i])
           /\ Len(Joined(recs)) = TotalSize(recs) /\ Joined(recs) # <<>>
           /\ OfRecords(Joined(recs), recs)
<1>1. /\ Len(recs) \in Nat \ {0} /\ DOMAIN recs = 1..Len(recs)
      /\ \A i \in 1..Len(recs) : Fits(recs[i])
  BY DEF Readying, Pieces
<1>2. \A i \in 1..Len(recs) : recs[i].size \in Nat \ {0}
  BY <1>1 DEF Fits
<1> QED BY <1>1, <1>2, SlicesJoin

(* What 0x22 answers for a dynamic identifier.                             *)
LEMMA DynamicRead ==
    ASSUME NEW did \in DynIds, SlotsOf(did) # {},
           NEW a, a = Outcome([sid |-> "22", addr |-> "physical", len |-> 3, sub |-> 0,
                               quiet |-> FALSE, arg |-> [did |-> did]]).answer,
           NEW bytes, bytes = Assemble(Records(did))
    PROVE  /\ bytes = <<>> => a = Negative(OutOfRange)
           /\ bytes # <<>> => a = Data(3, bytes)
<1> DEFINE r == [sid |-> "22", addr |-> "physical", len |-> 3, sub |-> 0,
                 quiet |-> FALSE, arg |-> [did |-> did]]
<1>1. did \notin Readable
  BY RequestAssumption DEF Readable
<1>2. r.sid = "22" /\ r.len = 3 /\ ~r.quiet /\ r.arg.did = did
  OBVIOUS
<1> HIDE DEF r
<1>3. Barred(r.sid) = None
  BY <1>2 DEF Barred, NeedExtended, NeedSecurity
<1>4. Handle(r) = ReadDataById(r)
  BY <1>2 DEF Handle
<1>5. Outcome(r) = Handle(r)
  BY <1>2, <1>3 DEF Outcome, Suppressed
<1>6. ReadDataById(r) = IF bytes = <<>> THEN Refuse(OutOfRange) ELSE Give(Data(3, bytes))
  BY <1>1, <1>2 DEF ReadDataById
<1>7. ReadDataById(r).answer = IF bytes = <<>> THEN Negative(OutOfRange) ELSE Data(3, bytes)
  BY <1>6 DEF Refuse, Give
<1> QED BY <1>4, <1>5, <1>7 DEF r

(* What 0x22 gives for a dynamic identifier are bytes its sources have     *)
(* now, for whatever requests a tester sends and every size of the tables: *)
(* a definition is refused only when the VIN has become too short for it.  *)
THEOREM ReadsStayWithinSource == ServiceSpec => []ReadsWithinSource
<1>1. FitInv => ReadsWithinSource
  <2> SUFFICES ASSUME FitInv, NEW did \in DynIds, SlotsOf(did) # {},
                      NEW recs, recs = Records(did), NEW n, n = Len(recs),
                      NEW bytes, bytes = Assemble(Records(did)),
                      NEW all, all = Joined(recs),
                      NEW a, a = Outcome([sid |-> "22", addr |-> "physical", len |-> 3, sub |-> 0,
                               quiet |-> FALSE, arg |-> [did |-> did]]).answer
               PROVE  /\ a.len <= MaxResponse
                      /\ a.kind = "negative" <=> \E i \in 1..Len(recs) :
                            recs[i].src = "VIN" /\ recs[i].pos - 1 + recs[i].size > app.vin
                      /\ \A i \in 1..Len(a.bytes) :
                            IF a.bytes[i][1] = Memory
                            THEN \E m \in Regions : a.bytes[i][2] \in m.first..(m.end - 1)
                            ELSE a.bytes[i][2] \in 1..SourceLength(a.bytes[i][1])
    BY Zenon DEF ReadsWithinSource
  <2> DEFINE Shrunk(i) == recs[i].src = "VIN" /\ recs[i].pos - 1 + recs[i].size > app.vin
  <2>1. Readying(recs)
    <3>1. Lowest(SlotsOf(did)) \in SlotsOf(did)
      BY LowestIsIn DEF SlotsOf
    <3>2. did # None
      BY RequestAssumption
    <3> QED BY <3>1, <3>2 DEF FitInv, Fit, SlotsOf, Records
  <2>2. /\ bytes = <<>> => a = Negative(OutOfRange)
        /\ bytes # <<>> => a = Data(3, bytes)
    BY DynamicRead
  <2>3. n \in Nat \ {0} /\ DOMAIN recs = 1..n /\ \A i \in 1..n : Fits(recs[i])
    BY <2>1, ReadyingJoins
  <2>4. \A i \in 1..n : recs[i].size \in Nat \ {0} /\ recs[i].pos \in Nat
    BY <2>3 DEF Fits
  <2>5. Len(all) = TotalSize(recs) /\ all # <<>> /\ OfRecords(all, recs)
    BY <2>1, ReadyingJoins
  <2>6. app.vin \in Nat
    BY DEF FitInv, Fit
  <2>7. ASSUME NEW i \in 1..n
        PROVE  Shrunk(i) <=> recs[i].src # Memory /\ ~Within(recs[i])
    <3>1. Fits(recs[i])
      BY <2>3
    <3>2. CASE recs[i].src = Memory
      BY <3>2 DEF Memory
    <3>3. CASE recs[i].src = "VIN"
      BY <2>4, <2>6, <3>1, <3>3 DEF Fits, Within, SourceLength, Sources, Readable, Memory
    <3>4. CASE recs[i].src # Memory /\ recs[i].src # "VIN"
      BY <3>1, <3>4 DEF Fits, Within, SourceLength
    <3> QED BY <3>2, <3>3, <3>4
  <2>8. CASE \E i \in 1..n : Shrunk(i)
    <3>1. bytes = <<>>
      BY <2>7, <2>8 DEF Assemble
    <3>2. a = Negative(OutOfRange)
      BY <2>2, <3>1
    <3>3. a.len = 3 /\ a.kind = "negative" /\ a.bytes = <<>>
      BY <3>2 DEF Negative
    <3>4. a.len <= MaxResponse
      BY <3>3, ServiceAssumption
    <3>5. \A i \in 1..Len(a.bytes) : FALSE
      BY <3>3
    <3> QED BY <2>8, <3>3, <3>4, <3>5
  <2>9. CASE ~\E i \in 1..n : Shrunk(i)
    <3>1. bytes = all
      BY <2>1, <2>7, <2>9 DEF Assemble, Readying, Joined
    <3>2. a = Data(3, all)
      BY <2>2, <2>5, <3>1
    <3>3. a.len = 3 + Len(all) /\ a.kind = "positive" /\ a.bytes = all
      BY <3>2 DEF Data, Positive
    <3>4. Len(all) \in Nat /\ Len(all) <= MaxData
      BY <2>1, <2>5, ServiceAssumption DEF Readying
    <3>5. ASSUME NEW j \in 1..Len(all)
          PROVE  IF all[j][1] = Memory
                 THEN \E m \in Regions : all[j][2] \in m.first..(m.end - 1)
                 ELSE all[j][2] \in 1..SourceLength(all[j][1])
      <4>1. PICK i \in 1..n : \E h \in 1..recs[i].size : all[j] = <<recs[i].src, recs[i].pos + h - 1>>
        BY <2>5 DEF OfRecords
      <4>2. PICK h \in 1..recs[i].size : all[j] = <<recs[i].src, recs[i].pos + h - 1>>
        BY <4>1, Zenon
      <4>3. all[j][1] = recs[i].src /\ all[j][2] = recs[i].pos + h - 1
        BY <4>2
      <4>4. Fits(recs[i]) /\ (recs[i].src # Memory => Within(recs[i]))
        BY <2>3, <2>7, <2>9
      <4> HIDE DEF Shrunk
      <4> DEFINE x == recs[i].pos + h - 1
      <4>5. recs[i].pos \in Nat /\ recs[i].size \in Nat /\ h \in 1..recs[i].size
        BY <2>4, <4>2
      <4>6. CASE recs[i].src = Memory
        <5>1. InRegion(recs[i])
          BY <4>4, <4>6, RequestAssumption DEF Fits, Memory, Sources, Readable
        <5>2. PICK m \in Regions : recs[i].pos \in m.first..(m.end - 1) /\ recs[i].size <= m.end - recs[i].pos
          BY <5>1 DEF InRegion
        <5>3. m.first \in Nat /\ m.end \in Nat
          BY RequestAssumption
        <5>4. x \in m.first..(m.end - 1)
          BY <4>5, <5>2, <5>3, ByteInRegion
        <5> QED BY <4>3, <4>6, <5>4
      <4>7. CASE recs[i].src # Memory
        <5>1. /\ recs[i].src \in Sources /\ recs[i].pos # 0
              /\ recs[i].pos - 1 + recs[i].size <= SourceLength(recs[i].src)
          BY <4>4, <4>7 DEF Within
        <5>2. SourceLength(recs[i].src) \in Nat
          BY <2>6, <5>1, ServiceAssumption DEF SourceLength, Sources, Readable
        <5>3. recs[i].pos \in Nat \ {0}
          BY <4>5, <5>1
        <5>4. x \in 1..SourceLength(recs[i].src)
          BY <4>5, <5>1, <5>2, <5>3, ByteInSource
        <5> QED BY <4>3, <4>7, <5>4
      <4> QED BY <4>6, <4>7
    <3>6. a.len <= MaxResponse
      BY <3>3, <3>4, ServiceAssumption
    <3>7. a.kind # "negative"
      BY <3>3
    <3> QED BY <2>9, <3>3, <3>5, <3>6, <3>7
  <2> QED BY <2>8, <2>9
<1> QED BY <1>1, FitAlways, PTL
=============================================================================
