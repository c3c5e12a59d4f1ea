-------------------------- MODULE ServerHealth_proofs --------------------------
(***************************************************************************)
(* The invariant of ServerHealth, for any pages, requests, threshold and   *)
(* mix of helpers.  What an answer does to the flag, the count and the     *)
(* closures is one lemma (NoteIsCoherent); the rest is about who is called,*)
(* mounted or run meanwhile.                                               *)
(***************************************************************************)
EXTENDS ServerHealth, TLAPS

(* An answer leaves flag and count in step, and if it moves the flag every *)
(* closure that has read it is due (fetch.rs, set_server_reachable).       *)
LEMMA NoteIsCoherent ==
  ASSUME HealthTypeOK, FlagIsCount, NEW c \in Callers, NEW outcome,
         Note(c, outcome)
  PROVE  /\ failures' \in 0..MaxFailures
         /\ reachable' \in BOOLEAN
         /\ reachable' <=> failures' < Threshold
         /\ stale \subseteq stale'
         /\ stale' \subseteq stale \cup {Monitor} \cup mounted
         /\ reachable' # reachable => {Monitor} \cup mounted \subseteq stale'
<1>1. failures \in 0..MaxFailures /\ reachable \in BOOLEAN
  BY DEF HealthTypeOK
<1>2. Threshold \in Nat \ {0} /\ MaxFailures \in Nat /\ MaxFailures >= Threshold
  BY HealthAssumption
<1>3. ASSUME NEW b \in BOOLEAN, SetReachable(b)
      PROVE  /\ reachable' = b
             /\ stale \subseteq stale'
             /\ stale' \subseteq stale \cup {Monitor} \cup mounted
             /\ b # reachable => {Monitor} \cup mounted \subseteq stale'
  BY <1>3 DEF SetReachable, Readers
<1>4. CASE RecordFailure
  <2>1. OneFailure \in 0..MaxFailures
    BY <1>1, <1>2 DEF OneFailure
  <2>2. failures' = OneFailure
    BY <1>4 DEF RecordFailure
  <2>3. CASE OneFailure >= Threshold
    <3>1. SetReachable(FALSE)
      BY <1>4, <2>3 DEF RecordFailure
    <3>2. ~(failures' < Threshold)
      BY <1>2, <2>1, <2>2, <2>3
    <3> QED  BY <1>3, <2>1, <2>2, <3>1, <3>2
  <2>4. CASE ~(OneFailure >= Threshold)
    <3>1. reachable' = reachable /\ stale' = stale
      BY <1>4, <2>4 DEF RecordFailure
    <3>2. failures < Threshold /\ failures' < Threshold
      BY <1>1, <1>2, <2>1, <2>2, <2>4 DEF OneFailure
    <3> QED  BY <1>1, <2>1, <2>2, <3>1, <3>2 DEF FlagIsCount
  <2> QED  BY <2>3, <2>4
<1>5. CASE RecordSuccess
  <2>1. failures' = 0 /\ SetReachable(TRUE)
    BY <1>5 DEF RecordSuccess
  <2>2. failures' \in 0..MaxFailures /\ failures' < Threshold
    BY <1>2, <2>1
  <2>3. /\ reachable' = TRUE
        /\ stale \subseteq stale'
        /\ stale' \subseteq stale \cup {Monitor} \cup mounted
        /\ TRUE # reachable => {Monitor} \cup mounted \subseteq stale'
    BY <1>3, <2>1
  <2> QED  BY <2>2, <2>3
<1>6. CASE UNCHANGED <<flagVars, stale>>
  BY <1>1, <1>6 DEF flagVars, FlagIsCount
<1> QED  BY <1>4, <1>5, <1>6 DEF Note

LEMMA HealthInitHolds == HealthInit => HealthInv
<1> SUFFICES ASSUME HealthInit  PROVE HealthInv
  OBVIOUS
<1>1. 0 \in 0..MaxFailures /\ 0 < Threshold
  BY HealthAssumption
<1>2. HealthTypeOK
  BY <1>1 DEF HealthInit, HealthTypeOK
<1>3. FlagIsCount
  BY <1>1 DEF HealthInit, FlagIsCount
<1>4. PollFollowsFlag /\ RefetchFollowsFlag
  BY DEF HealthInit, PollFollowsFlag, RefetchFollowsFlag
<1> QED  BY <1>2, <1>3, <1>4 DEF HealthInv

(* Who calls, and what is heard, leaves the tables well formed.            *)
LEMMA ReplyIsTyped ==
  ASSUME HealthTypeOK, NEW c \in Callers, NEW v \in {"none", "sent"} \cup Outcomes,
         reply' = [reply EXCEPT ![c] = v]
  PROVE  reply' \in [Callers -> {"none", "sent"} \cup Outcomes]
  BY DEF HealthTypeOK

(* Steps that leave the flag, the count, the poll and the closures alone.  *)
LEMMA ReplyOnly ==
  ASSUME HealthInv, NEW c \in Callers, NEW v \in {"none", "sent"} \cup Outcomes,
         reply' = [reply EXCEPT ![c] = v],
         UNCHANGED <<server, flagVars, polling, mounted, value, seen, stale>>
  PROVE  HealthInv'
<1>1. reply' \in [Callers -> {"none", "sent"} \cup Outcomes]
  BY ReplyIsTyped DEF HealthInv
<1> QED
  BY <1>1 DEF HealthInv, HealthTypeOK, FlagIsCount, PollFollowsFlag,
              RefetchFollowsFlag, flagVars

LEMMA HealthStep ==
  ASSUME HealthInv, [HealthNext]_healthVars
  PROVE  HealthInv'
<1> USE DEF HealthInv
<1>a. /\ Resources \subseteq Callers /\ Requests \subseteq Callers
      /\ Monitor \in Callers /\ Monitor \notin Resources /\ mounted \subseteq Resources
  BY HealthAssumption DEF Callers, HealthTypeOK
<1>1. ASSUME NEW q \in Requests, Send(q)  PROVE HealthInv'
  BY <1>1, <1>a, ReplyOnly DEF Send, Called
<1>2. ASSUME NEW q \in Requests, Abandon(q)  PROVE HealthInv'
  BY <1>2, <1>a, ReplyOnly DEF Abandon, Ended
<1>3. ASSUME NEW c \in Callers, Serve(c)  PROVE HealthInv'
  <2>1. PICK outcome \in Outcomes : reply' = [reply EXCEPT ![c] = outcome]
    BY <1>3 DEF Serve
  <2> QED  BY <1>3, <2>1, ReplyOnly DEF Serve
<1>4. CASE MonitorProbes
  BY <1>4, <1>a, ReplyOnly DEF MonitorProbes, Called
<1>5. ASSUME NEW q \in Requests, Hear(q)  PROVE HealthInv'
  <2>1. Note(q, reply[q]) /\ reply' = [reply EXCEPT ![q] = "none"]
        /\ UNCHANGED <<server, polling, mounted, value, seen>>
    BY <1>5 DEF Hear, Ended
  <2>2. reply' \in [Callers -> {"none", "sent"} \cup Outcomes]
    BY <2>1, <1>a, ReplyIsTyped
  <2>3. /\ failures' \in 0..MaxFailures /\ reachable' \in BOOLEAN
        /\ reachable' <=> failures' < Threshold
        /\ stale \subseteq stale'
        /\ stale' \subseteq stale \cup {Monitor} \cup mounted
        /\ reachable' # reachable => {Monitor} \cup mounted \subseteq stale'
    BY <2>1, <1>a, NoteIsCoherent
  <2> QED  BY <2>1, <2>2, <2>3 DEF HealthTypeOK, FlagIsCount, PollFollowsFlag, RefetchFollowsFlag
<1>6. ASSUME NEW r \in Resources, Load(r)  PROVE HealthInv'
  <2>1. Note(r, reply[r]) /\ reply' = [reply EXCEPT ![r] = "none"]
        /\ value' = [value EXCEPT ![r] = IF reply[r] = "ok" THEN "ok" ELSE "err"]
        /\ UNCHANGED <<server, polling, mounted, seen>>
    BY <1>6 DEF Load, Ended
  <2>2. reply' \in [Callers -> {"none", "sent"} \cup Outcomes]
    BY <2>1, <1>a, ReplyIsTyped
  <2>3. /\ failures' \in 0..MaxFailures /\ reachable' \in BOOLEAN
        /\ reachable' <=> failures' < Threshold
        /\ stale \subseteq stale'
        /\ stale' \subseteq stale \cup {Monitor} \cup mounted
        /\ reachable' # reachable => {Monitor} \cup mounted \subseteq stale'
    BY <2>1, <1>a, NoteIsCoherent
  <2>4. value' \in [Resources -> {"none", "ok", "err"}]
    BY <2>1 DEF HealthTypeOK
  <2> QED  BY <2>1, <2>2, <2>3, <2>4 DEF HealthTypeOK, FlagIsCount, PollFollowsFlag, RefetchFollowsFlag
<1>7. CASE MonitorHears
  <2>1. Note(Monitor, reply[Monitor]) /\ reply' = [reply EXCEPT ![Monitor] = "none"]
        /\ polling' = ~reachable'
        /\ UNCHANGED <<server, mounted, value, seen>>
    BY <1>7 DEF MonitorHears, Ended
  <2>2. reply' \in [Callers -> {"none", "sent"} \cup Outcomes]
    BY <2>1, <1>a, ReplyIsTyped
  <2>3. /\ failures' \in 0..MaxFailures /\ reachable' \in BOOLEAN
        /\ reachable' <=> failures' < Threshold
        /\ stale \subseteq stale'
        /\ stale' \subseteq stale \cup {Monitor} \cup mounted
        /\ reachable' # reachable => {Monitor} \cup mounted \subseteq stale'
    BY <2>1, <1>a, NoteIsCoherent
  <2> QED  BY <2>1, <2>2, <2>3 DEF HealthTypeOK, FlagIsCount, PollFollowsFlag, RefetchFollowsFlag
<1>8. ASSUME NEW r \in Resources, Refetch(r)  PROVE HealthInv'
  <2>1. reply' \in [Callers -> {"none", "sent"} \cup Outcomes]
    BY <1>8, <1>a, ReplyIsTyped DEF Refetch, Called
  <2>2. /\ seen' = [seen EXCEPT ![r] = reachable] /\ stale' = stale \ {r}
        /\ UNCHANGED <<server, flagVars, polling, mounted, value>>
    BY <1>8 DEF Refetch
  <2>3. seen' \in [Resources -> BOOLEAN]
    BY <2>2 DEF HealthTypeOK
  <2>4. RefetchFollowsFlag'
    BY <2>2, <1>a DEF RefetchFollowsFlag, HealthTypeOK, flagVars
  <2> QED  BY <1>a, <2>1, <2>2, <2>3, <2>4 DEF HealthTypeOK, FlagIsCount, PollFollowsFlag, flagVars
<1>9. ASSUME NEW r \in Resources, Mount(r)  PROVE HealthInv'
  <2>1. reply' \in [Callers -> {"none", "sent"} \cup Outcomes]
    BY <1>9, <1>a, ReplyIsTyped DEF Mount, Called
  <2>2. /\ mounted' = mounted \cup {r} /\ seen' = [seen EXCEPT ![r] = reachable]
        /\ UNCHANGED <<server, flagVars, polling, value, stale>>
    BY <1>9 DEF Mount
  <2>3. seen' \in [Resources -> BOOLEAN]
    BY <2>2 DEF HealthTypeOK
  <2>4. RefetchFollowsFlag'
    BY <2>2, <1>a DEF RefetchFollowsFlag, HealthTypeOK, flagVars
  <2> QED  BY <1>a, <2>1, <2>2, <2>3, <2>4 DEF HealthTypeOK, FlagIsCount, PollFollowsFlag, flagVars
<1>10. ASSUME NEW r \in Resources, Unmount(r)  PROVE HealthInv'
  <2>1. reply' \in [Callers -> {"none", "sent"} \cup Outcomes]
    BY <1>10, <1>a, ReplyIsTyped DEF Unmount, Ended
  <2>2. /\ mounted' = mounted \ {r} /\ stale' = stale \ {r}
        /\ value' = [value EXCEPT ![r] = "none"]
        /\ UNCHANGED <<server, flagVars, polling, seen>>
    BY <1>10 DEF Unmount
  <2>3. value' \in [Resources -> {"none", "ok", "err"}]
    BY <2>2 DEF HealthTypeOK
  <2> QED  BY <1>a, <2>1, <2>2, <2>3
           DEF HealthTypeOK, FlagIsCount, PollFollowsFlag, RefetchFollowsFlag, flagVars
<1>11. CASE TenantChanges
  BY <1>11, <1>a DEF TenantChanges, HealthTypeOK, FlagIsCount, PollFollowsFlag,
                     RefetchFollowsFlag, flagVars
<1>12. CASE MonitorRuns
  <2>1. reply' \in [Callers -> {"none", "sent"} \cup Outcomes]
    BY <1>12, <1>a, ReplyIsTyped DEF MonitorRuns, Ended
  <2>2. /\ polling' = ~reachable /\ stale' = stale \ {Monitor}
        /\ UNCHANGED <<server, flagVars, mounted, value, seen>>
    BY <1>12 DEF MonitorRuns
  <2> QED  BY <1>a, <2>1, <2>2
           DEF HealthTypeOK, FlagIsCount, PollFollowsFlag, RefetchFollowsFlag, flagVars
<1>13. CASE ServerTurns
  BY <1>13 DEF ServerTurns, HealthTypeOK, FlagIsCount, PollFollowsFlag, RefetchFollowsFlag, flagVars
<1>14. CASE UNCHANGED healthVars
  BY <1>14 DEF healthVars, flagVars, HealthTypeOK, FlagIsCount, PollFollowsFlag, RefetchFollowsFlag
<1> QED
  BY <1>1, <1>2, <1>3, <1>4, <1>5, <1>6, <1>7, <1>8, <1>9, <1>10, <1>11, <1>12, <1>13, <1>14
     DEF HealthNext, PageSteps, Hearing, Mount, Unmount, Load, Refetch

(* The tables are well formed and the parts below hold together.           *)
THEOREM HealthIsInvariant == HealthSpec => []HealthInv
<1>1. HealthInit => HealthInv
  BY HealthInitHolds
<1>2. HealthInv /\ [HealthNext]_healthVars => HealthInv'
  BY HealthStep
<1> QED  BY <1>1, <1>2, PTL DEF HealthSpec

(* The count never passes where it saturates, and nothing but a mounted    *)
(* page or the monitor is due a re-run (fetch.rs, remote_data.rs).         *)
THEOREM HealthIsTyped == HealthSpec => []HealthTypeOK
<1>1. HealthInv => HealthTypeOK
  BY DEF HealthInv
<1> QED  BY <1>1, HealthIsInvariant, PTL

(* The banner's flag is down exactly when the count has reached the        *)
(* threshold, whatever the threshold and where the count saturates         *)
(* (fetch.rs, record_success and record_failure).                          *)
THEOREM FlagIsAlwaysCount == HealthSpec => []FlagIsCount
<1>1. HealthInv => FlagIsCount
  BY DEF HealthInv
<1> QED  BY <1>1, HealthIsInvariant, PTL

(* The recovery poll follows the flag, whoever moves it (server_status.rs).*)
THEOREM PollAlwaysFollowsFlag == HealthSpec => []PollFollowsFlag
<1>1. HealthInv => PollFollowsFlag
  BY DEF HealthInv
<1> QED  BY <1>1, HealthIsInvariant, PTL

(* Every page's data was asked for under the flag as it is, or is about to *)
(* be asked for again (remote_data.rs).                                    *)
THEOREM RefetchAlwaysFollowsFlag == HealthSpec => []RefetchFollowsFlag
<1>1. HealthInv => RefetchFollowsFlag
  BY DEF HealthInv
<1> QED  BY <1>1, HealthIsInvariant, PTL
=============================================================================
