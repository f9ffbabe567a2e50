-------------------------- MODULE UdsServicesProps --------------------------
(* What the services promise their tester, whatever was requested before.  *)
EXTENDS UdsServices

(* A request that is answered negatively has changed nothing: session,     *)
(* lock, setting, reset and the services' data are as they were, though    *)
(* checks and effects are mixed in the handlers.  0x2A is made otherwise:  *)
(* it keeps what it did before the identifier that fails,                  *)
(* uds_service.c:1708.                                                     *)
RefusalLeavesNoTrace ==
    [][\/ UNCHANGED <<app, session, unlocked, dtcOn, periodic, reset, handoff>>
       \/ \A r \in menu : Outcome(r).answer.kind = "negative" /\ r.sid # "2A" => ~Serve(r)]_svars

(* A broadcast never reaches session, security, reset, identifiers or what *)
(* they name: the policy of uds_service.c:218, which leaves it the DTC     *)
(* setting and the communication flags.  (And the fault table, which a     *)
(* broadcast 0x04 clears, lines 228 and 1854: it is not in this state.)    *)
BroadcastIsHarmless ==
    [][\/ /\ UNCHANGED <<session, unlocked, fresh, fails, periodic, reset, handoff>>
          /\ \A f \in {"vin", "io", "dyn", "subs"} : app'[f] = app[f]
       \/ \A r \in menu : r.addr = "functional" => ~Serve(r)]_svars

(* What 0x22 gives for a dynamic identifier are bytes its sources have     *)
(* now, and fit an answer, though the sources may have become shorter      *)
(* since it was defined; it is refused only when one has.                  *)
ReadsWithinSource ==
    \A did \in DynIds : SlotsOf(did) # {} =>
        LET recs   == Records(did)
            answer == Outcome([sid |-> "22", addr |-> "physical", len |-> 3, sub |-> 0,
                               quiet |-> FALSE, arg |-> [did |-> did]]).answer
            Shrunk(rec) == rec.src = "VIN" /\ rec.pos - 1 + rec.size > app.vin
        IN  /\ answer.len <= MaxResponse
            /\ answer.kind = "negative" <=> \E i \in 1..Len(recs) : Shrunk(recs[i])
            /\ \A i \in 1..Len(answer.bytes) :
                 LET b == answer.bytes[i]
                 IN  IF b[1] = Memory THEN \E m \in Regions : b[2] \in m.first..(m.end - 1)
                     ELSE b[2] \in 1..SourceLength(b[1])
=============================================================================
