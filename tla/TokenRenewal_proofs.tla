------------------------ MODULE TokenRenewal_proofs -----------------------
(***************************************************************************)
(* Theorems about TokenRenewal, for every number of tasks, sessions and    *)
(* rotations. RenewalInv is inductive: QuietInv covers the steps that      *)
(* leave every running flight alone, AnswerInv those in which the OP       *)
(* answers one, and every action has a lemma of its own. OutcomeInv, what  *)
(* a flight's answer means to those who hear it, is inductive given it.    *)
(***************************************************************************)
EXTENDS TokenRenewal, TLAPS

(* Nothing is persisted and no flight runs at first.                       *)
LEMMA InitInv == RenewalInit => RenewalInv
<1> SUFFICES ASSUME RenewalInit PROVE RenewalInv
  OBVIOUS
<1> USE DEF RenewalInit
<1>1. RenewalTypeOK
  BY RenewalAssumption, SMT DEF RenewalTypeOK, Flight, Stores, Answers, IdleFlight
<1>2. \A f \in FlightIds : ~Running(f)
  BY DEF Running, IdleFlight
<1>3. \A s \in Stores : store[s] = None
  OBVIOUS
<1>. QED
  BY <1>1, <1>2, <1>3
  DEF RenewalInv, SingleFlight, SlotHoldsRunning, RunningHasToken, UnusedIsUntouched,
      OneHomePerFamily, StoredIsNewest, PresentedIsNewest, InStep, KilledOnlyAfterLoss

(* A step that leaves the slot and the running flights alone, and at most  *)
(* removes bundles, keeps the invariant.                                   *)
LEMMA QuietInv ==
  ASSUME RenewalInv, RenewalTypeOK',
         slot' = slot,
         \A f \in FlightIds : Running(f)' <=> Running(f),
         \A f \in FlightIds : Running(f) => flights'[f] = flights[f],
         \A s \in Stores : store'[s] # None => store'[s] = store[s],
         UNCHANGED <<used, cur, grant, orphans, lost, rotated>>
  PROVE  RenewalInv'
<1>1. SingleFlight' /\ SlotHoldsRunning' /\ RunningHasToken'
  BY DEF RenewalInv, RenewalTypeOK, SingleFlight, SlotHoldsRunning, RunningHasToken
<1>2. UnusedIsUntouched'
  BY DEF RenewalInv, UnusedIsUntouched
<1>3. OneHomePerFamily'
  BY DEF RenewalInv, OneHomePerFamily
<1>4. StoredIsNewest' /\ PresentedIsNewest'
  BY DEF RenewalInv, StoredIsNewest, PresentedIsNewest, Newest
<1>5. InStep' /\ KilledOnlyAfterLoss'
  BY DEF RenewalInv, InStep, KilledOnlyAfterLoss
<1>. QED BY <1>1, <1>2, <1>3, <1>4, <1>5 DEF RenewalInv

(* Joining a flight is a quiet step.                                       *)
LEMMA JoinInv ==
  ASSUME NEW w \in Waiters, RenewalInv, Join(w)
  PROVE  RenewalInv'
<1> USE DEF Join, opVars
<1>1. RenewalTypeOK'
  BY DEF RenewalInv, RenewalTypeOK
<1>. QED BY <1>1, QuietInv DEF Running

(* A caller woken late leaves a finished flight, which is not in the slot, *)
(* so its step is quiet, whatever it goes on to clear.                     *)
LEMMA LateInv ==
  ASSUME NEW w \in Waiters, NEW keys \in Clearings, RenewalInv, Late(w, keys)
  PROVE  RenewalInv'
<1>1. PICK f \in FlightIds : f = joined[w] /\ flights[f].st = "done" /\ slot # f
  BY DEF Late, RenewalInv, RenewalTypeOK, SlotHoldsRunning, Running
<1>2. \A g \in FlightIds \ {f} : flights'[g] = flights[g]
  BY <1>1 DEF Late, Leave, RenewalInv, RenewalTypeOK
<1>3. ~Running(f) /\ ~Running(f)'
  <2>1. flights'[f].st \in {"done", "idle"}
    BY <1>1 DEF Late, Leave, IdleFlight, RenewalInv, RenewalTypeOK
  <2>. QED BY <1>1, <2>1 DEF Running
<1>4. RenewalTypeOK'
  <2>1. flights' \in [FlightIds -> Flight]
    BY <1>1, SMT DEF Late, Leave, IdleFlight, RenewalInv, RenewalTypeOK, Flight, Stores
  <2>. QED
    BY <1>1, <2>1 DEF Late, Leave, Cleared, BearerAfter, opVars, RenewalInv, RenewalTypeOK
<1>5. slot' = slot
  BY <1>1 DEF Late, Leave
<1>6. \A s \in Stores : store'[s] # None => store'[s] = store[s]
  BY DEF Late, Cleared
<1>7. UNCHANGED <<used, cur, grant, orphans, lost, rotated>>
  BY DEF Late, opVars
<1>8. \A g \in FlightIds : (Running(g)' <=> Running(g)) /\ (Running(g) => flights'[g] = flights[g])
  BY <1>2, <1>3 DEF Running
<1>. QED
  BY <1>4, <1>5, <1>6, <1>7, <1>8, QuietInv

(* A cancelled caller leaves the flight in the slot as it is: quiet.       *)
LEMMA CancelInv ==
  ASSUME NEW w \in Waiters, RenewalInv, Cancel(w)
  PROVE  RenewalInv'
<1>1. \A g \in FlightIds :
        \/ flights'[g] = flights[g]
        \/ flights[g].st = "done" /\ flights'[g] = IdleFlight
  BY DEF Cancel, RenewalInv, RenewalTypeOK
<1>2. IdleFlight \in Flight
  BY SMT DEF IdleFlight, Flight, Stores
<1>3. RenewalTypeOK'
  BY <1>2 DEF Cancel, opVars, RenewalInv, RenewalTypeOK
<1>4. \A g \in FlightIds : (Running(g)' <=> Running(g)) /\ (Running(g) => flights'[g] = flights[g])
  BY <1>1 DEF Running, IdleFlight
<1>. QED
  BY <1>3, <1>4, QuietInv DEF Cancel, opVars

(* Signing out removes bundles and touches no flight: quiet.               *)
LEMMA ClearInv ==
  ASSUME NEW keys \in Clearings, RenewalInv, Clear(keys)
  PROVE  RenewalInv'
<1> USE DEF Clear, opVars
<1>1. \A s \in Stores : store'[s] # None => store'[s] = store[s]
  BY DEF Cleared
<1>2. RenewalTypeOK'
  BY DEF Cleared, RenewalInv, RenewalTypeOK
<1>. QED BY <1>1, <1>2, QuietInv DEF Running

(* A reload forgets every flight. A session whose flight was running is in *)
(* lost from then on, so InStep says nothing more about it.                *)
LEMMA ReloadInv ==
  ASSUME RenewalInv, Reload
  PROVE  RenewalInv'
<1> USE DEF Reload
<1>1. IdleFlight \in Flight
  BY SMT DEF IdleFlight, Flight, Stores
<1>2. \A f \in FlightIds : Running(f) => flights[f].tok \in Token
  BY DEF RenewalInv, RunningHasToken
<1>3. orphans' \subseteq Token
  BY <1>2 DEF Running, RenewalInv, RenewalTypeOK
<1>4. lost' \subseteq Families
  BY <1>2, SMT DEF Token, RenewalInv, RenewalTypeOK
<1>5. bearer' \in Token \cup {None}
  BY SMT DEF Persisted, Preferred, Stores, Bundle, RenewalInv, RenewalTypeOK
<1>6. RenewalTypeOK'
  BY <1>1, <1>3, <1>4, <1>5 DEF RenewalInv, RenewalTypeOK
<1>7. \A f \in FlightIds : ~Running(f)'
  BY DEF Running, IdleFlight
<1>8. SingleFlight' /\ SlotHoldsRunning' /\ RunningHasToken' /\ PresentedIsNewest'
  BY <1>7 DEF SingleFlight, SlotHoldsRunning, RunningHasToken, PresentedIsNewest
<1>9. UnusedIsUntouched'
  BY <1>7 DEF RenewalInv, UnusedIsUntouched, Running
<1>10. OneHomePerFamily' /\ StoredIsNewest'
  BY <1>7 DEF RenewalInv, OneHomePerFamily, StoredIsNewest, Newest
<1>11. InStep'
  <2>1. \A t \in orphans' : t.fam \in lost'
    BY DEF Running, RenewalInv, InStep
  <2>2. ASSUME NEW s \in Stores, store[s] # None, store[s].rt, store[s].tok.fam \notin lost'
        PROVE  store[s].tok.ver = cur[store[s].tok.fam]
    BY <2>2 DEF RenewalInv, InStep
  <2>. QED BY <1>7, <2>1, <2>2 DEF InStep
<1>12. KilledOnlyAfterLoss'
  BY DEF RenewalInv, KilledOnlyAfterLoss
<1>. QED BY <1>6, <1>8, <1>9, <1>10, <1>11, <1>12 DEF RenewalInv

(* A new flight presents the newest token of its session: the slot was     *)
(* empty, so by InStep the persisted version is the OP's.                  *)
LEMMA StartInv ==
  ASSUME NEW w \in Waiters, RenewalInv, Start(w)
  PROVE  RenewalInv'
<1>1. PICK f \in FlightIds : f = FreshFlight
  BY DEF Start, FreshFlight
<1>2. PICK s \in Stores : s = Preferred /\ store[s] # None /\ store[s].rt
  BY DEF Start, Refreshable, Persisted, Preferred, Stores
<1>3. /\ slot = None /\ slot' = f
      /\ joined' = [joined EXCEPT ![w] = f]
      /\ flights' = [flights EXCEPT ![f] =
                       [st |-> "sent", at |-> s, tok |-> store[s].tok, ans |-> "none"]]
      /\ UNCHANGED <<store, bearer, used, cur, grant, orphans, lost, rotated>>
  BY <1>1, <1>2 DEF Start, opVars
<1>4. store[s].tok \in Token /\ store[s].tok.ver <= MaxRotations
  BY <1>2, SMT DEF RenewalInv, RenewalTypeOK, StoredIsNewest, Bundle
<1>5. /\ flights'[f] = [st |-> "sent", at |-> s, tok |-> store[s].tok, ans |-> "none"]
      /\ Running(f)'
  BY <1>3 DEF Running, RenewalInv, RenewalTypeOK
<1>6. \A g \in FlightIds : ~Running(g)
  BY <1>3, RenewalAssumption DEF RenewalInv, SingleFlight
<1>7. \A g \in FlightIds : Running(g)' => g = f
  BY <1>6, <1>3 DEF Running, RenewalInv, RenewalTypeOK
<1>8. RenewalTypeOK'
  <2>1. flights' \in [FlightIds -> Flight]
    BY <1>3, <1>4, SMT DEF Flight, Answers, RenewalInv, RenewalTypeOK
  <2>. QED BY <1>3, <2>1 DEF RenewalInv, RenewalTypeOK
<1>9. SingleFlight' /\ SlotHoldsRunning'
  BY <1>3, <1>5, <1>7 DEF SingleFlight, SlotHoldsRunning
<1>10. RunningHasToken'
  BY <1>4, <1>5, <1>7, SMT DEF RunningHasToken
<1>11. UnusedIsUntouched'
  BY <1>2, <1>3, <1>5, <1>7, SMT DEF RenewalInv, UnusedIsUntouched
<1>12. OneHomePerFamily'
  BY <1>2, <1>3, <1>5, <1>7, SMT DEF RenewalInv, OneHomePerFamily
<1>13. StoredIsNewest' /\ PresentedIsNewest'
  BY <1>2, <1>3, <1>5, <1>7, SMT DEF RenewalInv, StoredIsNewest, PresentedIsNewest, Newest
<1>14. InStep'
  <2>2. \A r \in Stores : (store[r] # None /\ store[r].rt /\ store[r].tok.fam \notin lost)
                            => store[r].tok.ver = cur[store[r].tok.fam]
    BY <1>6 DEF RenewalInv, InStep
  <2>. QED BY <1>2, <1>3, <1>5, <1>7, <2>2, SMT DEF RenewalInv, InStep
<1>15. KilledOnlyAfterLoss'
  BY <1>3 DEF RenewalInv, KilledOnlyAfterLoss
<1>. QED
  BY <1>8, <1>9, <1>10, <1>11, <1>12, <1>13, <1>14, <1>15 DEF RenewalInv

(* The store a flight writes back to.                                      *)
LEMMA FlightFields ==
  ASSUME NEW fl \in Flight
  PROVE  fl.at \in Stores
BY SMT DEF Flight

(* The poll that finishes a flight. The bundle it writes is the successor  *)
(* of the one it presented, in the store that session lives in, and no     *)
(* flight runs afterwards.                                                 *)
LEMMA FinishInv ==
  ASSUME NEW w \in Waiters, NEW keys \in Clearings, RenewalInv, Finish(w, keys)
  PROVE  RenewalInv'
<1> DEFINE f == joined[w]
           fl == flights[f]
           new == Successor(fl.tok)
           ok == Succeeded(fl.ans)
           base == IF ok THEN [store EXCEPT ![fl.at] = [tok |-> new, rt |-> fl.ans = "ok"]] ELSE store
<1>1. /\ f \in FlightIds /\ slot = f /\ fl \in Flight /\ fl.st = "answered" /\ fl.tok \in Token /\ fl.tok.ver <= MaxRotations
      /\ fl.ans = "ok" => fl.tok.ver < MaxRotations
      /\ \A g \in FlightIds : Running(g) => g = f
  BY SMT, RenewalAssumption DEF Finish, RenewalInv, RenewalTypeOK, SingleFlight, RunningHasToken, Running
<1>2. /\ new \in Token /\ new.fam = fl.tok.fam /\ new.ver = fl.tok.ver + 1
      /\ fl.ans = "ok" => new.ver <= MaxRotations
  BY <1>1, RenewalAssumption, SMT DEF Token, Successor
<1>3. \A g \in FlightIds : ~Running(g)'
  BY <1>1, SMT DEF Finish, Leave, IdleFlight, Running, RenewalInv, RenewalTypeOK
<1>4. slot' = None
  BY <1>1 DEF Finish, Leave
<1>5. \A s \in Stores : store'[s] # None => store'[s] = base[s]
  BY DEF Finish, Cleared
<1>6. \A s \in Stores : base[s] # None =>
         \/ ok /\ s = fl.at /\ base[s] = [tok |-> new, rt |-> fl.ans = "ok"]
         \/ base[s] = store[s] /\ ~(ok /\ s = fl.at)
  BY <1>1, SMT DEF RenewalInv, RenewalTypeOK
<1>7. fl.at \in Stores BY <1>1, FlightFields
<1>8. \A s \in Stores : store'[s] # None =>
         \/ ok /\ s = fl.at /\ store'[s] = [tok |-> new, rt |-> fl.ans = "ok"]
         \/ store'[s] = store[s] /\ ~(ok /\ store[s].tok.fam = fl.tok.fam)
  <2> SUFFICES ASSUME NEW s \in Stores, store'[s] # None
               PROVE  \/ ok /\ s = fl.at /\ store'[s] = [tok |-> new, rt |-> fl.ans = "ok"]
                      \/ store'[s] = store[s] /\ ~(ok /\ store[s].tok.fam = fl.tok.fam)
    OBVIOUS
  <2>1. base[s] # None /\ store'[s] = base[s]
    BY <1>5
  <2>2. CASE ok /\ s = fl.at /\ base[s] = [tok |-> new, rt |-> fl.ans = "ok"]
    BY <2>1, <2>2
  <2>3. CASE base[s] = store[s] /\ ~(ok /\ s = fl.at)
    BY <1>1, <2>1, <2>3 DEF RenewalInv, OneHomePerFamily, Running
  <2>. QED BY <1>6, <2>1, <2>2, <2>3
<1>9. rotated' = IF ok THEN rotated \cup {fl.tok} ELSE rotated
  BY DEF Finish
<1>10. UNCHANGED <<used, cur, grant, orphans, lost>>
  BY DEF Finish, opVars
<1>11. RenewalTypeOK'
  <2>1. store' \in [Stores -> Bundle \cup {None}]
    BY <1>1, <1>2, <1>7, SMT DEF Finish, Cleared, RenewalInv, RenewalTypeOK, Bundle
  <2>2. bearer' \in Token \cup {None}
    BY <1>2 DEF Finish, BearerAfter, RenewalInv, RenewalTypeOK
  <2>3. flights' \in [FlightIds -> Flight] /\ joined' \in [Waiters -> FlightIds \cup {None}]
    BY <1>1, SMT DEF Finish, Leave, IdleFlight, RenewalInv, RenewalTypeOK, Flight, Stores
  <2>. QED BY <1>1, <1>4, <1>9, <1>10, <2>1, <2>2, <2>3 DEF RenewalInv, RenewalTypeOK
<1>12. SingleFlight' /\ SlotHoldsRunning' /\ RunningHasToken' /\ PresentedIsNewest'
  BY <1>3, <1>4 DEF SingleFlight, SlotHoldsRunning, RunningHasToken, PresentedIsNewest, Running
<1>13. UnusedIsUntouched'
  <2>1. fl.tok.fam \in used
     BY <1>1 DEF RenewalInv, UnusedIsUntouched, Running, Token
  <2>. QED BY <1>1, <1>2, <1>3, <1>8, <1>9, <1>10, <2>1 DEF RenewalInv, UnusedIsUntouched, Running
<1>14. OneHomePerFamily'
  BY <1>2, <1>3, <1>8, SMT DEF RenewalInv, OneHomePerFamily, Running
<1>15. StoredIsNewest'
  <2>1. ASSUME NEW s \in Stores, store'[s] # None
        PROVE  (store'[s].rt => store'[s].tok.ver <= MaxRotations)
               /\ \A r \in rotated' : r.fam = store'[s].tok.fam => r.ver < store'[s].tok.ver
    <3>1. CASE ok /\ s = fl.at /\ store'[s] = [tok |-> new, rt |-> fl.ans = "ok"]
      <4>1. \A r \in rotated : r.fam = fl.tok.fam => r.ver < fl.tok.ver
        BY <1>1 DEF RenewalInv, PresentedIsNewest, Newest, Running
      <4>2. rotated \subseteq Token BY DEF RenewalInv, RenewalTypeOK
      <4>3. new.fam = fl.tok.fam /\ new.ver = fl.tok.ver + 1 /\ rotated' = rotated \cup {fl.tok}
        BY <1>2, <1>9, <3>1
      <4>4. \A r \in rotated' : r.fam = new.fam => r.ver < new.ver
         <5> HIDE DEF fl, new
         <5>. QED BY <1>1, <4>1, <4>2, <4>3, RenewalAssumption, SMT DEF Token
      <4>5. store'[s].tok = new /\ store'[s].rt = (fl.ans = "ok")
        BY <3>1, SMT
      <4>. QED BY <1>2, <4>5, <4>4
    <3>2. CASE store'[s] = store[s] /\ ~(ok /\ store[s].tok.fam = fl.tok.fam)
      BY <1>9, <2>1, <3>2, SMT DEF RenewalInv, StoredIsNewest, Newest
    <3>. QED BY <1>8, <2>1, <3>1, <3>2
  <2>. QED BY <2>1 DEF StoredIsNewest, Newest
<1>16. InStep'
  <2>1. SUFFICES ASSUME NEW s \in Stores, store'[s] # None, store'[s].rt, store'[s].tok.fam \notin lost
        PROVE store'[s].tok.ver = cur[store'[s].tok.fam]
    BY <1>3, <1>10, SMT DEF InStep, RenewalInv, Running
  <2>2. CASE ok /\ s = fl.at /\ store'[s] = [tok |-> new, rt |-> fl.ans = "ok"]
    <3>1. store'[s].tok = new /\ store'[s].rt = (fl.ans = "ok")
      BY <2>2, SMT
    <3>2. fl.ans = "ok" BY <2>1, <3>1, Zenon
    <3>. QED BY <1>1, <1>2, <2>1, <3>1, <3>2, SMT DEF RenewalInv, InStep, Running
  <2>3. CASE store'[s] = store[s] /\ ~(ok /\ store[s].tok.fam = fl.tok.fam)
    BY <1>1, <2>1, <2>3, SMT DEF RenewalInv, InStep, Running, Succeeded
  <2>. QED BY <1>8, <2>1, <2>2, <2>3
<1>17. KilledOnlyAfterLoss'
  BY <1>10 DEF RenewalInv, KilledOnlyAfterLoss
<1>. QED BY <1>11, <1>12, <1>13, <1>14, <1>15, <1>16, <1>17 DEF RenewalInv

(* A new session: nothing refers to it yet, by UnusedIsUntouched.          *)
LEMMA InstallInv ==
  ASSUME NEW s \in Stores, NEW fam \in Families, NEW rt \in BOOLEAN,
         RenewalInv, Install(s, fam, rt)
  PROVE  RenewalInv'
<1>1. [fam |-> fam, ver |-> 0] \in Token
  BY RenewalAssumption, SMT DEF Token
<1>2. PICK t \in Token : t = [fam |-> fam, ver |-> 0] /\ t.fam = fam /\ t.ver = 0
  BY <1>1, Zenon
<1>3. [tok |-> t, rt |-> rt] \in Bundle
  BY SMT DEF Bundle
<1>4. PICK b \in Bundle : b = [tok |-> t, rt |-> rt] /\ b.tok = t
  BY <1>3, Zenon
<1>5. /\ fam \notin used /\ used' = used \cup {fam}
      /\ store' = [store EXCEPT ![s] = b] /\ bearer' = t
      /\ UNCHANGED <<slot, flights, joined, cur, grant, orphans, lost, rotated>>
  BY <1>2, <1>4 DEF Install, opVars
<1>6. store'[s] = b /\ \A r \in Stores \ {s} : store'[r] = store[r]
  BY <1>5 DEF RenewalInv, RenewalTypeOK
<1>7. /\ cur[fam] = 0
      /\ \A r \in Stores : store[r] # None => store[r].tok.fam # fam
      /\ \A f \in FlightIds : Running(f) => flights[f].tok.fam # fam
      /\ \A r \in rotated : r.fam # fam
  BY <1>5 DEF RenewalInv, UnusedIsUntouched
<1>8. RenewalTypeOK'
  BY <1>5 DEF RenewalInv, RenewalTypeOK
<1>9. SingleFlight' /\ SlotHoldsRunning' /\ RunningHasToken' /\ PresentedIsNewest'
  BY <1>5 DEF RenewalInv, SingleFlight, SlotHoldsRunning, RunningHasToken, PresentedIsNewest,
              Running, Newest
<1>10. UnusedIsUntouched'
  BY <1>2, <1>4, <1>5, <1>6 DEF RenewalInv, UnusedIsUntouched, Running
<1>11. OneHomePerFamily'
  BY <1>2, <1>4, <1>5, <1>6, <1>7 DEF RenewalInv, OneHomePerFamily, Running
<1>12. StoredIsNewest'
  BY <1>2, <1>4, <1>5, <1>6, <1>7, RenewalAssumption, SMT DEF RenewalInv, StoredIsNewest, Newest
<1>13. InStep'
  BY <1>2, <1>4, <1>5, <1>6, <1>7, SMT DEF RenewalInv, InStep, Running
<1>14. KilledOnlyAfterLoss'
  BY <1>5 DEF RenewalInv, KilledOnlyAfterLoss
<1>. QED
  BY <1>8, <1>9, <1>10, <1>11, <1>12, <1>13, <1>14 DEF RenewalInv

(* An answered flight is a flight.                                         *)
LEMMA FlightUpdate ==
  ASSUME NEW fl \in Flight, NEW ans \in Answers
  PROVE  [[fl EXCEPT !.st = "answered"] EXCEPT !.ans = ans] \in Flight
<1>1. ASSUME NEW g \in Flight PROVE [g EXCEPT !.st = "answered"] \in Flight
  BY SMT DEF Flight
<1>2. ASSUME NEW g \in Flight PROVE [g EXCEPT !.ans = ans] \in Flight
  BY SMT DEF Flight
<1>. QED BY <1>1, <1>2

(* What the arrival of an answer leaves alone: the flight answered is the  *)
(* one in the slot, and keeps its token.                                   *)
LEMMA AnsweredFlight ==
  ASSUME NEW f \in FlightIds, NEW ans \in Answers, RenewalInv, Sent(f), Answer(f, ans)
  PROVE  /\ flights' \in [FlightIds -> Flight]
         /\ \A g \in FlightIds : Running(g)' <=> Running(g)
         /\ \A g \in FlightIds : flights'[g].tok = flights[g].tok /\ flights'[g].at = flights[g].at
         /\ \A g \in FlightIds \ {f} : flights'[g] = flights[g]
         /\ flights'[f].st = "answered" /\ flights'[f].ans = ans
         /\ Running(f) /\ slot = f /\ flights[f].ans = "none"
         /\ \A g \in FlightIds : Running(g) => g = f
         /\ flights[f].tok \in Token /\ flights[f].tok.ver <= MaxRotations
<1>1. flights \in [FlightIds -> Flight]
  BY DEF RenewalInv, RenewalTypeOK
<1>2. Running(f) /\ slot = f /\ flights[f].ans = "none" /\ flights[f].tok \in Token
      /\ flights[f].tok.ver <= MaxRotations
      /\ \A g \in FlightIds : Running(g) => g = f
  BY DEF Sent, Running, RenewalInv, SingleFlight, RunningHasToken
<1>3. flights' = [flights EXCEPT ![f].st = "answered", ![f].ans = ans]
  BY DEF Answer
<1>4. flights'[f] = [[flights[f] EXCEPT !.st = "answered"] EXCEPT !.ans = ans]
      /\ \A g \in FlightIds \ {f} : flights'[g] = flights[g]
  BY <1>1, <1>3
<1>5. /\ flights'[f].tok = flights[f].tok /\ flights'[f].at = flights[f].at
      /\ flights'[f].st = "answered" /\ flights'[f].ans = ans
  BY <1>1, <1>4 DEF Flight
<1>6. flights' \in [FlightIds -> Flight]
  BY <1>1, <1>3, FlightUpdate, Zenon
<1>. QED BY <1>2, <1>6, <1>4, <1>5 DEF Running

(* An answer to the flight on the wire keeps the invariant if InStep and   *)
(* KilledOnlyAfterLoss hold of what the OP did.                            *)
LEMMA AnswerInv ==
  ASSUME NEW f \in FlightIds, NEW ans \in Answers, RenewalInv, Sent(f), Answer(f, ans),
         UNCHANGED <<store, bearer, slot, joined, used, orphans, rotated>>,
         cur'   \in [Families -> 0..MaxRotations + 1],
         grant' \in [Families -> {"live", "ended", "reuse"}],
         lost'  \in SUBSET Families,
         \A fam \in Families : fam # flights[f].tok.fam => cur'[fam] = cur[fam],
         ans = "ok" => flights[f].tok.ver < MaxRotations,
         InStep', KilledOnlyAfterLoss'
  PROVE  RenewalInv'
<1> USE AnsweredFlight
<1>1. RenewalTypeOK'
  BY DEF RenewalInv, RenewalTypeOK
<1>2. SingleFlight' /\ SlotHoldsRunning'
  BY DEF RenewalInv, RenewalTypeOK, SingleFlight, SlotHoldsRunning
<1>3. RunningHasToken'
  BY DEF RunningHasToken
<1>4. UnusedIsUntouched'
  BY DEF RenewalInv, UnusedIsUntouched
<1>5. OneHomePerFamily'
  BY DEF RenewalInv, OneHomePerFamily
<1>6. StoredIsNewest' /\ PresentedIsNewest'
  BY DEF RenewalInv, StoredIsNewest, PresentedIsNewest, Newest
<1>. QED BY <1>1, <1>2, <1>3, <1>4, <1>5, <1>6 DEF RenewalInv

(* The OP rotates: the client catches up when it finishes, unless the      *)
(* answer was lost.                                                        *)
LEMMA OpRotatesInv ==
  ASSUME NEW f \in FlightIds, RenewalInv, OpRotates(f)
  PROVE  RenewalInv'
<1>1. PICK t \in Token : t = flights[f].tok /\ t.fam \in Families
  BY SMT DEF OpRotates, Sent, Running, RenewalInv, RunningHasToken, Token
<1>2. PICK ans \in {"ok", "transient"} : Answer(f, ans) /\ (ans = "transient" => t.fam \in lost')
  BY <1>1 DEF OpRotates
<1>3. /\ Sent(f) /\ t.ver = cur[t.fam] /\ t.ver < MaxRotations
      /\ cur' = [cur EXCEPT ![t.fam] = @ + 1]
      /\ lost \subseteq lost' /\ lost' \in SUBSET Families
      /\ UNCHANGED <<store, bearer, slot, joined, used, grant, orphans, rotated>>
  BY <1>1 DEF OpRotates, RenewalInv, RenewalTypeOK
<1>4. cur' \in [Families -> 0..MaxRotations + 1] /\ cur'[t.fam] = t.ver + 1
  BY <1>1, <1>3, RenewalAssumption, SMT DEF Token, RenewalInv, RenewalTypeOK
<1>5. \A fam \in Families : fam # t.fam => cur'[fam] = cur[fam]
  BY <1>3 DEF RenewalInv, RenewalTypeOK
<1>6. ans \in Answers
  BY DEF Answers
<1>7. InStep'
  BY <1>1, <1>2, <1>3, <1>4, <1>5, <1>6, AnsweredFlight, SMT
  DEF RenewalInv, RenewalTypeOK, InStep, Bundle, Token
<1>8. KilledOnlyAfterLoss'
  BY <1>3 DEF RenewalInv, KilledOnlyAfterLoss
<1>. QED
  BY <1>1, <1>2, <1>3, <1>4, <1>5, <1>6, <1>7, <1>8, AnswerInv DEF RenewalInv, RenewalTypeOK

(* The OP renews without rotating: the version stays.                      *)
LEMMA OpRenewsWithoutRotatingInv ==
  ASSUME NEW f \in FlightIds, RenewalInv, OpRenewsWithoutRotating(f)
  PROVE  RenewalInv'
<1>1. /\ Sent(f) /\ Answer(f, "bare") /\ "bare" \in Answers
      /\ UNCHANGED <<store, bearer, slot, joined, used, cur, grant, orphans, lost, rotated>>
  BY DEF OpRenewsWithoutRotating, opVars, Answers
<1>2. InStep'
  BY <1>1, AnsweredFlight DEF RenewalInv, InStep
<1>. QED
  BY <1>1, <1>2, AnswerInv DEF RenewalInv, RenewalTypeOK, KilledOnlyAfterLoss

(* Reuse detection fires only on a token older than the OP's, and by       *)
(* InStep the session of such a token is in lost: the heart of             *)
(* KilledOnlyAfterLoss.                                                    *)
LEMMA OpDetectsReuseInv ==
  ASSUME NEW f \in FlightIds, RenewalInv, OpDetectsReuse(f)
  PROVE  RenewalInv'
<1>1. PICK t \in Token : t = flights[f].tok /\ t.fam \in Families
  BY SMT DEF OpDetectsReuse, Sent, Running, RenewalInv, RunningHasToken, Token
<1>2. PICK ans \in {"dead", "transient"} : Answer(f, ans)
  BY DEF OpDetectsReuse
<1>3. /\ Sent(f) /\ t.ver < cur[t.fam]
      /\ grant' = [grant EXCEPT ![t.fam] = "reuse"]
      /\ UNCHANGED <<store, bearer, slot, joined, used, cur, orphans, lost, rotated>>
      /\ ans \in Answers
  BY <1>1 DEF OpDetectsReuse, Answers
<1>4. t.fam \in lost
  BY <1>1, <1>2, <1>3, AnsweredFlight, RenewalAssumption, SMT
  DEF RenewalInv, RenewalTypeOK, InStep, Token
<1>5. InStep'
  BY <1>2, <1>3, AnsweredFlight DEF RenewalInv, InStep
<1>6. KilledOnlyAfterLoss' /\ grant' \in [Families -> {"live", "ended", "reuse"}]
  BY <1>3, <1>4 DEF RenewalInv, RenewalTypeOK, KilledOnlyAfterLoss
<1>. QED
  BY <1>2, <1>3, <1>5, <1>6, AnswerInv DEF RenewalInv, RenewalTypeOK

(* A refusal changes nothing at the OP.                                    *)
LEMMA OpRefusesInv ==
  ASSUME NEW f \in FlightIds, RenewalInv, OpRefuses(f)
  PROVE  RenewalInv'
<1>1. /\ Sent(f) /\ Answer(f, "dead") /\ "dead" \in Answers
      /\ UNCHANGED <<store, bearer, slot, joined, used, cur, grant, orphans, lost, rotated>>
  BY DEF OpRefuses, opVars, Answers
<1>2. InStep'
  BY <1>1, AnsweredFlight DEF RenewalInv, InStep
<1>. QED
  BY <1>1, <1>2, AnswerInv DEF RenewalInv, RenewalTypeOK, KilledOnlyAfterLoss

(* Neither does a request that never arrived.                              *)
LEMMA OpUnreachableInv ==
  ASSUME NEW f \in FlightIds, RenewalInv, OpUnreachable(f)
  PROVE  RenewalInv'
<1>1. /\ Sent(f) /\ Answer(f, "transient") /\ "transient" \in Answers
      /\ UNCHANGED <<store, bearer, slot, joined, used, cur, grant, orphans, lost, rotated>>
  BY DEF OpUnreachable, opVars, Answers
<1>2. InStep'
  BY <1>1, AnsweredFlight DEF RenewalInv, InStep
<1>. QED
  BY <1>1, <1>2, AnswerInv DEF RenewalInv, RenewalTypeOK, KilledOnlyAfterLoss

(* An orphaned request may rotate or kill its grant, but its session is in *)
(* lost already.                                                           *)
LEMMA OpSeesOrphanInv ==
  ASSUME NEW t \in Token, RenewalInv, OpSeesOrphan(t)
  PROVE  RenewalInv'
<1>1. /\ t \in orphans /\ orphans' = orphans \ {t}
      /\ UNCHANGED <<store, bearer, slot, flights, joined, used, lost, rotated>>
  BY DEF OpSeesOrphan, clientVars
<1>2. t.fam \in used /\ t.fam \in lost /\ t.fam \in Families
  BY <1>1, SMT DEF RenewalInv, UnusedIsUntouched, InStep, Token
<1>3. /\ cur' \in [Families -> 0..MaxRotations + 1]
      /\ \A fam \in Families : fam # t.fam => cur'[fam] = cur[fam]
  BY <1>2, RenewalAssumption, SMT DEF OpSeesOrphan, RenewalInv, RenewalTypeOK
<1>4. /\ grant' \in [Families -> {"live", "ended", "reuse"}]
      /\ \A fam \in Families : fam # t.fam => grant'[fam] = grant[fam]
  BY <1>2 DEF OpSeesOrphan, RenewalInv, RenewalTypeOK
<1>5. RenewalTypeOK'
  BY <1>1, <1>3, <1>4 DEF RenewalInv, RenewalTypeOK
<1>6. SingleFlight' /\ SlotHoldsRunning' /\ RunningHasToken' /\ OneHomePerFamily'
      /\ StoredIsNewest' /\ PresentedIsNewest'
  BY <1>1 DEF RenewalInv, SingleFlight, SlotHoldsRunning, RunningHasToken, OneHomePerFamily,
              StoredIsNewest, PresentedIsNewest, Running, Newest
<1>7. UnusedIsUntouched'
  BY <1>1, <1>2, <1>3 DEF RenewalInv, UnusedIsUntouched, Running
<1>8. InStep'
  <2>1. \A f \in FlightIds : Running(f) => flights[f].tok.fam \in Families
    BY SMT DEF RenewalInv, RunningHasToken, Token
  <2>2. \A s \in Stores : store[s] # None => store[s].tok.fam \in Families
    BY SMT DEF RenewalInv, RenewalTypeOK, Bundle, Token
  <2>. QED BY <1>1, <1>2, <1>3, <2>1, <2>2 DEF RenewalInv, InStep, Running
<1>9. KilledOnlyAfterLoss'
  BY <1>1, <1>2, <1>4 DEF RenewalInv, KilledOnlyAfterLoss
<1>. QED BY <1>5, <1>6, <1>7, <1>8, <1>9 DEF RenewalInv

(* A revocation is not reuse detection.                                    *)
LEMMA OpEndsGrantInv ==
  ASSUME NEW fam \in Families, RenewalInv, OpEndsGrant(fam)
  PROVE  RenewalInv'
<1>1. /\ grant[fam] = "live" /\ grant' = [grant EXCEPT ![fam] = "ended"]
      /\ UNCHANGED <<store, bearer, slot, flights, joined, used, cur, orphans, lost, rotated>>
  BY DEF OpEndsGrant, clientVars
<1>2. RenewalTypeOK' /\ KilledOnlyAfterLoss'
  BY <1>1 DEF RenewalInv, RenewalTypeOK, KilledOnlyAfterLoss
<1>3. SingleFlight' /\ SlotHoldsRunning' /\ RunningHasToken' /\ UnusedIsUntouched'
      /\ OneHomePerFamily' /\ StoredIsNewest' /\ PresentedIsNewest' /\ InStep'
  BY <1>1 DEF RenewalInv, SingleFlight, SlotHoldsRunning, RunningHasToken, UnusedIsUntouched,
              OneHomePerFamily, StoredIsNewest, PresentedIsNewest, InStep, Running, Newest
<1>. QED BY <1>2, <1>3 DEF RenewalInv

(* Every step of the renewal layer keeps the invariant.                    *)
LEMMA StepInv ==
  ASSUME RenewalInv, [RenewalNext]_renewalVars
  PROVE  RenewalInv'
<1>1. CASE UNCHANGED renewalVars
  <2>1. RenewalTypeOK'
    BY <1>1 DEF renewalVars, RenewalInv, RenewalTypeOK
  <2>. QED BY <1>1, <2>1, QuietInv DEF renewalVars, Running
<1>2. ASSUME NEW w \in Waiters, Refused(w) PROVE RenewalInv'
  BY <1>1, <1>2 DEF Refused
<1>3. ASSUME NEW f \in FlightIds, OpAnswers(f) PROVE RenewalInv'
  BY <1>3, OpRotatesInv, OpRenewsWithoutRotatingInv, OpDetectsReuseInv, OpRefusesInv,
     OpUnreachableInv DEF OpAnswers
<1>4. ASSUME NEW keys \in Clearings \ {{}}, Clear(keys) PROVE RenewalInv'
  BY <1>4, ClearInv
<1>. QED
  BY <1>1, <1>2, <1>3, <1>4, JoinInv, StartInv, CancelInv, FinishInv, LateInv, InstallInv,
     ReloadInv, OpSeesOrphanInv, OpEndsGrantInv
  DEF RenewalNext, Call, Resume

-----------------------------------------------------------------------------
(* The inductive invariant is an invariant: types, the single flight of    *)
(* renew_access_token, the agreement of the persisted bundles with the OP  *)
(* and what each flight carries, for any number of concurrent callers.     *)
THEOREM RenewalIsInvariant == RenewalSpec => []RenewalInv
<1>1. RenewalInit => RenewalInv
  BY InitInv
<1>2. RenewalInv /\ [RenewalNext]_renewalVars => RenewalInv'
  BY StepInv
<1>. QED BY <1>1, <1>2, PTL DEF RenewalSpec

(* At most one exchange is outstanding, and it is the one in RENEWAL       *)
(* (fetch.rs:515-519).                                                     *)
THEOREM RenewalIsSingleFlight == RenewalSpec => []SingleFlight
<1>1. RenewalInv => SingleFlight
  BY DEF RenewalInv
<1>. QED BY <1>1, RenewalIsInvariant, PTL

(* This client never trips the OP's reuse detection unless one of the      *)
(* answers of that session was lost on the way (fetch.rs:515-519).         *)
THEOREM RenewalNeverReplays == RenewalSpec => []KilledOnlyAfterLoss
<1>1. RenewalInv => KilledOnlyAfterLoss
  BY DEF RenewalInv
<1>. QED BY <1>1, RenewalIsInvariant, PTL

-----------------------------------------------------------------------------
(* A grant that is over stays over: no answer of the OP revives it.        *)
LEMMA GrantStaysOver ==
  ASSUME RenewalInv, RenewalNext, NEW fam \in Families, grant[fam] # "live"
  PROVE  grant'[fam] # "live"
<1>1. grant \in [Families -> {"live", "ended", "reuse"}]
  BY DEF RenewalInv, RenewalTypeOK
<1>2. ASSUME NEW f \in FlightIds, OpAnswers(f) PROVE grant'[fam] # "live"
  BY <1>1, <1>2
  DEF OpAnswers, OpRotates, OpRenewsWithoutRotating, OpDetectsReuse, OpRefuses, OpUnreachable,
      opVars
<1>3. ASSUME NEW t \in Token, OpSeesOrphan(t) PROVE grant'[fam] # "live"
  BY <1>1, <1>3 DEF OpSeesOrphan
<1>. QED
  BY <1>1, <1>2, <1>3
  DEF RenewalNext, Call, Join, Start, Refused, Cancel, Resume, Finish, Late, Install, Clear,
      Reload, OpEndsGrant, opVars, renewalVars

(* A step that answers no flight and starts none keeps OutcomeInv, if it   *)
(* frees only flights nobody awaits.                                       *)
LEMMA QuietOutcome ==
  ASSUME RenewalInv, OutcomeInv, RenewalNext,
         \A f \in FlightIds : Known(f)' => /\ Known(f)
                                           /\ flights'[f].tok = flights[f].tok
                                           /\ flights'[f].ans = flights[f].ans,
         \A f \in FlightIds : Running(f)' => Running(f),
         \A w \in Waiters : joined'[w] # None => flights'[joined'[w]].st # "idle"
  PROVE  OutcomeInv'
<1>1. KnownHasToken' /\ NobodyWaitsInVain'
  BY DEF OutcomeInv, KnownHasToken, NobodyWaitsInVain, Known
<1>2. \A f \in FlightIds : Running(f) => Known(f)
  BY DEF Running, Known
<1>3. \A f \in FlightIds : Running(f)' => Known(f)'
  BY DEF Running, Known
<1>4. ASSUME NEW f \in FlightIds, Known(f)', flights'[f].ans = "dead"
      PROVE  /\ grant'[flights'[f].tok.fam] # "live"
             /\ \A g \in FlightIds :
                  Running(g)' /\ flights'[g].tok.fam = flights'[f].tok.fam
                    => ~Succeeded(flights'[g].ans)
  <2>1. /\ Known(f) /\ flights[f].ans = "dead" /\ flights'[f].tok = flights[f].tok
        /\ flights[f].tok \in Token
    BY <1>4 DEF OutcomeInv, KnownHasToken
  <2>2. flights[f].tok.fam \in Families
    BY <2>1, SMT DEF Token
  <2>3. grant'[flights'[f].tok.fam] # "live"
    BY <2>1, <2>2, GrantStaysOver DEF OutcomeInv, RefusedIsOver
  <2>. QED BY <1>3, <2>1, <2>3 DEF OutcomeInv, RefusedIsOver
<1>. QED BY <1>1, <1>4 DEF OutcomeInv, RefusedIsOver

(* The flight a caller leaves is freed with its last caller only.          *)
LEMMA LeaveOutcome ==
  ASSUME NEW w \in Waiters, RenewalInv, OutcomeInv, RenewalNext,
         joined[w] # None, Leave(w, joined[w]),
         flights[joined[w]].st \in {"answered", "done"}
  PROVE  OutcomeInv'
<1>1. PICK f \in FlightIds : f = joined[w] /\ Known(f)
  BY DEF RenewalInv, RenewalTypeOK, OutcomeInv, NobodyWaitsInVain
<1>2. /\ flights \in [FlightIds -> Flight]
      /\ joined \in [Waiters -> FlightIds \cup {None}]
  BY DEF RenewalInv, RenewalTypeOK
<1>3. \A g \in FlightIds \ {f} : flights'[g] = flights[g]
  BY <1>1, <1>2 DEF Leave
<1>4. \/ flights'[f] = IdleFlight /\ \A v \in Waiters \ {w} : joined[v] # f
      \/ flights'[f] = [flights[f] EXCEPT !.st = "done"]
  BY <1>1, <1>2 DEF Leave
<1>5. /\ [flights[f] EXCEPT !.st = "done"].st = "done"
      /\ [flights[f] EXCEPT !.st = "done"].tok = flights[f].tok
      /\ [flights[f] EXCEPT !.st = "done"].ans = flights[f].ans
  BY <1>2 DEF Flight
<1>6. IdleFlight.st = "idle"
  BY DEF IdleFlight
<1>7. /\ ~Running(f)'
      /\ Known(f)' => flights'[f].tok = flights[f].tok /\ flights'[f].ans = flights[f].ans
  BY <1>4, <1>5, <1>6 DEF Running, Known
<1>8. \A v \in Waiters : joined'[v] # None => joined'[v] = joined[v] /\ v # w
  BY <1>2 DEF Leave
<1>9. ASSUME NEW v \in Waiters, joined'[v] # None PROVE flights'[joined'[v]].st # "idle"
  <2>1. joined'[v] = joined[v] /\ v # w /\ joined[v] \in FlightIds /\ Known(joined[v])
    BY <1>2, <1>8, <1>9 DEF OutcomeInv, NobodyWaitsInVain
  <2>2. CASE joined[v] = f
    BY <1>4, <1>5, <2>1, <2>2 DEF Known
  <2>3. CASE joined[v] # f
    BY <1>3, <2>1, <2>3 DEF Known
  <2>. QED BY <2>2, <2>3
<1>. QED
  BY <1>1, <1>3, <1>7, <1>9, QuietOutcome DEF Running, Known

(* Every step keeps it.  A new flight has no answer yet; an unrecoverable  *)
(* answer is given only once the grant is over, and only a live grant      *)
(* yields a success.                                                       *)
LEMMA OutcomeStep ==
  ASSUME RenewalInv, OutcomeInv, [RenewalNext]_renewalVars
  PROVE  OutcomeInv'
<1>0. /\ flights \in [FlightIds -> Flight]
      /\ joined \in [Waiters -> FlightIds \cup {None}]
      /\ slot \in FlightIds \cup {None}
  BY DEF RenewalInv, RenewalTypeOK
<1>1. CASE UNCHANGED renewalVars
  BY <1>1 DEF renewalVars, OutcomeInv, KnownHasToken, NobodyWaitsInVain, RefusedIsOver,
              Known, Running
<1>2. ASSUME RenewalNext, UNCHANGED <<flights, joined>> PROVE OutcomeInv'
  BY <1>2, QuietOutcome DEF OutcomeInv, NobodyWaitsInVain, Known, Running
<1>3. ASSUME NEW w \in Waiters, Join(w) PROVE OutcomeInv'
  <2>1. Known(slot) /\ slot # None
    BY <1>3 DEF Join, RenewalInv, SlotHoldsRunning, Running, Known
  <2>2. \A v \in Waiters : joined'[v] # None => Known(joined'[v])
    BY <1>0, <1>3, <2>1 DEF Join, OutcomeInv, NobodyWaitsInVain
  <2>. QED
    BY <1>3, <2>2, QuietOutcome DEF Join, RenewalNext, Call, Known, Running
<1>4. ASSUME NEW w \in Waiters, Start(w) PROVE OutcomeInv'
  <2>1. PICK f \in FlightIds : f = FreshFlight
    BY <1>4 DEF Start, FreshFlight
  <2>2. PICK s \in Stores : s = Preferred /\ store[s] # None
    BY <1>4 DEF Start, Refreshable, Persisted, Preferred, Stores
  <2>3. store[s].tok \in Token
    BY <2>2, SMT DEF RenewalInv, RenewalTypeOK, Bundle
  <2>4. /\ flights'[f] = [st |-> "sent", at |-> s, tok |-> store[s].tok, ans |-> "none"]
        /\ \A g \in FlightIds \ {f} : flights'[g] = flights[g]
        /\ joined' = [joined EXCEPT ![w] = f]
        /\ grant' = grant
    BY <1>0, <1>4, <2>1, <2>2 DEF Start, opVars
  <2>5. KnownHasToken'
    BY <2>3, <2>4 DEF OutcomeInv, KnownHasToken, Known
  <2>6. NobodyWaitsInVain'
    <3>1. Known(f)'
      BY <2>4 DEF Known
    <3>2. ASSUME NEW v \in Waiters, joined'[v] # None PROVE flights'[joined'[v]].st # "idle"
      <4>1. CASE joined'[v] = f
        BY <3>1, <4>1 DEF Known
      <4>2. CASE joined'[v] # f
        BY <1>0, <2>4, <3>2, <4>2 DEF OutcomeInv, NobodyWaitsInVain, Known
      <4>. QED BY <4>1, <4>2
    <3>. QED BY <3>2 DEF NobodyWaitsInVain, Known
  <2>7. RefusedIsOver'
    BY <2>4 DEF OutcomeInv, RefusedIsOver, Known, Running, Succeeded
  <2>. QED BY <2>5, <2>6, <2>7 DEF OutcomeInv
<1>5. ASSUME NEW w \in Waiters, Cancel(w) PROVE OutcomeInv'
  <2>1. PICK f \in FlightIds : f = joined[w]
    BY <1>0, <1>5 DEF Cancel
  <2>2. /\ \A g \in FlightIds : \/ flights'[g] = flights[g]
                                \/ /\ g = f /\ flights'[g] = IdleFlight
                                   /\ \A v \in Waiters \ {w} : joined[v] # f
        /\ joined' = [joined EXCEPT ![w] = None]
    BY <1>0, <1>5, <2>1 DEF Cancel
  <2>3. IdleFlight.st = "idle"
    BY DEF IdleFlight
  <2>4. ASSUME NEW v \in Waiters, joined'[v] # None PROVE flights'[joined'[v]].st # "idle"
    <3>1. v # w /\ joined'[v] = joined[v] /\ joined[v] \in FlightIds /\ Known(joined[v])
      BY <1>0, <2>2, <2>4 DEF OutcomeInv, NobodyWaitsInVain
    <3>. QED BY <2>2, <3>1 DEF Known
  <2>. QED
    BY <1>5, <2>2, <2>3, <2>4, QuietOutcome DEF RenewalNext, Known, Running
<1>6. ASSUME NEW w \in Waiters, NEW keys \in Clearings, Resume(w, keys) PROVE OutcomeInv'
  BY <1>6, LeaveOutcome DEF Resume, Finish, Late, RenewalNext
<1>7. CASE Reload
  <2>1. IdleFlight.st = "idle"
    BY DEF IdleFlight
  <2>. QED BY <1>7, <2>1, QuietOutcome DEF Reload, RenewalNext, Known, Running
<1>8. ASSUME NEW f \in FlightIds, OpAnswers(f) PROVE OutcomeInv'
  <2>1. PICK ans \in Answers :
          /\ Sent(f) /\ Answer(f, ans) /\ joined' = joined
          /\ ans = "dead" => grant'[flights[f].tok.fam] # "live"
          /\ Succeeded(ans) => grant[flights[f].tok.fam] = "live"
          /\ \A fam \in Families : grant[fam] # "live" => grant'[fam] # "live"
    <3>1. /\ flights[f].tok.fam \in Families
          /\ grant \in [Families -> {"live", "ended", "reuse"}]
      <4>1. flights[f].tok \in Token
        BY <1>8 DEF OpAnswers, OpRotates, OpRenewsWithoutRotating, OpDetectsReuse, OpRefuses,
                    OpUnreachable, Sent, Running, RenewalInv, RunningHasToken
      <4>. QED BY <4>1, SMT DEF Token, RenewalInv, RenewalTypeOK
    <3>2. \A fam \in Families : grant[fam] # "live" => grant'[fam] # "live"
      BY <1>8, GrantStaysOver DEF RenewalNext
    <3>3. CASE OpRotates(f)
      BY <3>1, <3>2, <3>3 DEF OpRotates, Answers
    <3>4. CASE OpRenewsWithoutRotating(f)
      BY <3>1, <3>2, <3>4 DEF OpRenewsWithoutRotating, Answers
    <3>5. CASE OpDetectsReuse(f)
      BY <3>1, <3>2, <3>5 DEF OpDetectsReuse, Answers, Succeeded
    <3>6. CASE OpRefuses(f)
      BY <3>1, <3>2, <3>6 DEF OpRefuses, Answers, Succeeded
    <3>7. CASE OpUnreachable(f)
      BY <3>1, <3>2, <3>7 DEF OpUnreachable, Answers, Succeeded
    <3>. QED BY <1>8, <3>3, <3>4, <3>5, <3>6, <3>7 DEF OpAnswers
  <2>2. /\ \A g \in FlightIds : Running(g)' <=> Running(g)
        /\ \A g \in FlightIds : flights'[g].tok = flights[g].tok
        /\ \A g \in FlightIds \ {f} : flights'[g] = flights[g]
        /\ flights'[f].st = "answered" /\ flights'[f].ans = ans
        /\ Running(f) /\ \A g \in FlightIds : Running(g) => g = f
        /\ flights[f].tok \in Token
    BY <2>1, AnsweredFlight
  <2>3. \A g \in FlightIds : Known(g)' <=> Known(g)
    BY <2>2 DEF Known, Running
  <2>4. KnownHasToken'
    BY <2>2, <2>3 DEF OutcomeInv, KnownHasToken
  <2>5. NobodyWaitsInVain'
    BY <1>0, <2>1, <2>3 DEF OutcomeInv, NobodyWaitsInVain
  <2>6. ASSUME NEW g \in FlightIds, Known(g)', flights'[g].ans = "dead"
        PROVE  /\ grant'[flights'[g].tok.fam] # "live"
               /\ \A h \in FlightIds :
                    Running(h)' /\ flights'[h].tok.fam = flights'[g].tok.fam
                      => ~Succeeded(flights'[h].ans)
    <3>1. CASE g = f
      BY <2>1, <2>2, <2>6, <3>1 DEF Succeeded
    <3>2. CASE g # f
      <4>1. /\ Known(g) /\ flights[g].ans = "dead" /\ flights[g].tok \in Token
            /\ grant[flights[g].tok.fam] # "live"
        BY <2>2, <2>3, <2>6, <3>2 DEF OutcomeInv, KnownHasToken, RefusedIsOver
      <4>2. flights[g].tok.fam \in Families
        BY <4>1, SMT DEF Token
      <4>. QED BY <2>1, <2>2, <4>1, <4>2
    <3>. QED BY <3>1, <3>2
  <2>. QED BY <2>4, <2>5, <2>6 DEF OutcomeInv, RefusedIsOver
<1>. QED
  BY <1>1, <1>2, <1>3, <1>4, <1>5, <1>6, <1>7, <1>8
  DEF RenewalNext, Call, Refused, Install, Clear, OpSeesOrphan, OpEndsGrant, clientVars

(* Nothing is known at first.                                              *)
LEMMA InitOutcome == RenewalInit => OutcomeInv
BY DEF RenewalInit, OutcomeInv, KnownHasToken, NobodyWaitsInVain, RefusedIsOver, Known, Running,
       IdleFlight

(* What a caller of renew_access_token learns: the flight it awaits is     *)
(* there when it is woken, whoever else left it, and an unrecoverable      *)
(* answer means that the grant is over and stays so, and that no exchange  *)
(* of that session still under way succeeds (auth.rs:773-797), for any     *)
(* number of tasks and sessions.                                           *)
THEOREM OutcomesAreFinal == RenewalSpec => []OutcomeInv
<1>1. RenewalInv /\ OutcomeInv /\ [RenewalNext]_renewalVars => OutcomeInv'
  BY OutcomeStep
<1>. QED BY <1>1, InitOutcome, RenewalIsInvariant, PTL DEF RenewalSpec

-----------------------------------------------------------------------------
(* The token on the wire, read off the slot.                               *)
Outstanding == IF slot = None THEN None ELSE flights[slot].tok

(* The refinement mapping's out is the slot's token: whatever is exchanged *)
(* is in the slot.                                                         *)
LEMMA OutIsOutstanding ==
  ASSUME RenewalInv
  PROVE  (IF Exchanging = {} THEN None ELSE flights[CHOOSE f \in Exchanging : TRUE].tok) = Outstanding
<1>1. CASE slot = None
  BY <1>1, RenewalAssumption DEF Exchanging, Outstanding, RenewalInv, SingleFlight
<1>2. CASE slot # None
  <2>1. Exchanging = {slot}
    BY <1>2 DEF Exchanging, RenewalInv, RenewalTypeOK, SingleFlight, SlotHoldsRunning
  <2>. QED BY <1>2, <2>1 DEF Outstanding
<1>. QED BY <1>1, <1>2

(* What is on the wire has no successor yet.                               *)
LEMMA OutstandingToken ==
  ASSUME RenewalInv, slot # None
  PROVE  /\ Outstanding \in Token /\ Outstanding # None /\ Outstanding \notin rotated
<1>1. slot \in FlightIds /\ Running(slot) /\ flights[slot].tok \in Token
  BY DEF RenewalInv, RenewalTypeOK, SlotHoldsRunning, RunningHasToken
<1>2. Newest(flights[slot].tok)
  BY <1>1 DEF RenewalInv, PresentedIsNewest
<1>3. flights[slot].tok \notin rotated
  BY <1>1, <1>2, RenewalAssumption, SMT DEF Newest, Token
<1>. QED BY <1>1, <1>3, RenewalAssumption DEF Outstanding, Token

(* A step of RefreshGrant, or a stutter, in terms of Outstanding.          *)
GrantStep ==
  \/ Outstanding = None /\ Outstanding' \in Token /\ Outstanding' \notin rotated /\ rotated' = rotated
  \/ Outstanding # None /\ Outstanding' = None /\ rotated' = rotated \cup {Outstanding}
  \/ Outstanding # None /\ Outstanding' = None /\ rotated' = rotated
  \/ Outstanding' = Outstanding /\ rotated' = rotated

(* Start presents, the poll that finishes a flight rotates or gives up, a  *)
(* reload gives up, and every other step is invisible to the OP's side of  *)
(* the contract.                                                           *)
LEMMA RenewalStepIsGrantStep ==
  ASSUME RenewalInv, RenewalInv', [RenewalNext]_renewalVars
  PROVE  GrantStep
<1> SUFFICES ASSUME RenewalNext PROVE GrantStep
  BY DEF GrantStep, Outstanding, renewalVars
<1>0. /\ slot # None => slot \in FlightIds
      /\ flights \in [FlightIds -> Flight]
  BY DEF RenewalInv, RenewalTypeOK
<1>1. ASSUME slot' = slot, rotated' = rotated, slot # None => flights'[slot].tok = flights[slot].tok
      PROVE  GrantStep
  BY <1>1 DEF GrantStep, Outstanding
<1>2. ASSUME NEW w \in Waiters, Join(w) \/ Refused(w) PROVE GrantStep
  BY <1>1, <1>2 DEF Join, Refused, renewalVars
<1>3. ASSUME NEW w \in Waiters, Start(w) PROVE GrantStep
  <2>1. slot = None /\ rotated' = rotated
    BY <1>3 DEF Start
  <2>2. slot' # None
    BY <1>3, RenewalAssumption DEF Start, FreshFlight
  <2>3. Outstanding' \in Token /\ Outstanding' \notin rotated'
    <3>. SUFFICES RenewalInv' /\ (slot # None)' => (Outstanding \in Token /\ Outstanding # None /\ Outstanding \notin rotated)'
      BY <2>2
    <3>. QED BY OutstandingToken, PTL
  <2>. QED BY <2>1, <2>3 DEF GrantStep, Outstanding
<1>4. ASSUME NEW w \in Waiters, Cancel(w) PROVE GrantStep
  <2>1. slot # None => flights'[slot] = flights[slot]
    BY <1>0, <1>4 DEF Cancel, RenewalInv, SlotHoldsRunning, Running
  <2>. QED BY <1>1, <1>4, <2>1 DEF Cancel
<1>5. ASSUME NEW w \in Waiters, NEW keys \in Clearings, Finish(w, keys) PROVE GrantStep
  <2>1. PICK f \in FlightIds : f = joined[w] /\ f = slot /\ flights[f].st = "answered"
    BY <1>5, RenewalAssumption DEF Finish, RenewalInv, RenewalTypeOK, SingleFlight, Running
  <2>2. slot' = None /\ (rotated' = rotated \/ rotated' = rotated \cup {flights[f].tok})
    BY <1>5, <2>1 DEF Finish, Leave
  <2>3. Outstanding # None /\ Outstanding = flights[f].tok
    BY <2>1, OutstandingToken, RenewalAssumption DEF Outstanding
  <2>. QED BY <2>2, <2>3 DEF GrantStep, Outstanding
<1>6. ASSUME NEW w \in Waiters, NEW keys \in Clearings, Late(w, keys) PROVE GrantStep
  <2>1. PICK f \in FlightIds : f = joined[w] /\ f # slot
    BY <1>6 DEF Late, RenewalInv, RenewalTypeOK, SlotHoldsRunning, Running
  <2>. QED BY <1>0, <1>1, <1>6, <2>1 DEF Late, Leave
<1>7. ASSUME NEW s \in Stores, NEW fam \in Families, NEW rt \in BOOLEAN, Install(s, fam, rt)
      PROVE  GrantStep
  BY <1>1, <1>7 DEF Install
<1>8. ASSUME NEW keys \in Clearings, Clear(keys) PROVE GrantStep
  BY <1>1, <1>8 DEF Clear
<1>9. ASSUME Reload PROVE GrantStep
  BY <1>9, OutstandingToken DEF Reload, GrantStep, Outstanding
<1>10. ASSUME NEW f \in FlightIds, OpAnswers(f) PROVE GrantStep
  <2>1. PICK ans \in Answers : Answer(f, ans) /\ slot' = slot /\ rotated' = rotated
    BY <1>10, SMT DEF OpAnswers, OpRotates, OpRenewsWithoutRotating, OpDetectsReuse, OpRefuses,
                 OpUnreachable, Answers
  <2>2. slot # None => flights'[slot].tok = flights[slot].tok
    BY <1>0, <2>1 DEF Answer, Flight
  <2>. QED BY <1>1, <2>1, <2>2
<1>11. ASSUME NEW t \in Token, OpSeesOrphan(t) PROVE GrantStep
  BY <1>1, <1>11 DEF OpSeesOrphan, clientVars
<1>12. ASSUME NEW fam \in Families, OpEndsGrant(fam) PROVE GrantStep
  BY <1>1, <1>12 DEF OpEndsGrant, clientVars
<1>. QED
  BY <1>2, <1>3, <1>4, <1>5, <1>6, <1>7, <1>8, <1>9, <1>10, <1>11, <1>12
  DEF RenewalNext, Call, Resume

(* The renewal layer implements RefreshGrant: one exchange at a time, none *)
(* for a token whose successor the client already received.                *)
THEOREM RenewalImplementsGrant == RenewalSpec => ImplementsGrant
<1>1. RenewalInit => Grant!Init
  <2> SUFFICES ASSUME RenewalInit PROVE Grant!Init
    OBVIOUS
  <2>1. Exchanging = {} /\ rotated = {}
    BY DEF RenewalInit, Exchanging, Running, IdleFlight
  <2>. QED BY <2>1 DEF Grant!Init
<1>2. RenewalInv /\ RenewalInv' /\ [RenewalNext]_renewalVars => [Grant!Next]_(Grant!grantVars)
  <2> SUFFICES ASSUME RenewalInv, RenewalInv', [RenewalNext]_renewalVars
               PROVE  [Grant!Next]_(Grant!grantVars)
    OBVIOUS
  <2>1. GrantStep
    BY RenewalStepIsGrantStep
  <2>2. (IF Exchanging = {} THEN None ELSE flights[CHOOSE f \in Exchanging : TRUE].tok) = Outstanding
    BY OutIsOutstanding
  <2>3. (IF Exchanging = {} THEN None ELSE flights[CHOOSE f \in Exchanging : TRUE].tok)' = Outstanding'
    <3>. SUFFICES RenewalInv' => ((IF Exchanging = {} THEN None ELSE flights[CHOOSE f \in Exchanging : TRUE].tok) = Outstanding)'
      OBVIOUS
    <3>. QED BY OutIsOutstanding, PTL
  <2>. QED
    BY <2>1, <2>2, <2>3
    DEF GrantStep, Grant!Next, Grant!Present, Grant!Rotate, Grant!GiveUp, Grant!grantVars
<1>. QED
  BY <1>1, <1>2, RenewalIsInvariant, PTL DEF RenewalSpec, ImplementsGrant, Grant!Spec
=============================================================================
