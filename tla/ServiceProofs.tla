---------------------------- MODULE ServiceProofs ----------------------------
(***************************************************************************)
(* Proofs about the parts of the auth service around its accounts: the     *)
(* rate limiter, the consent choices, the migrations and the settings, for *)
(* every number of requests, keys, posts, runners and files.               *)
(***************************************************************************)
EXTENDS Components, FiniteSetTheorems, SequenceTheorems, TLAPS

\* Each part moves as its own next-state relation says, or not at all.
LEMMA PartsMove ==
    [ComponentsNext]_allVars =>
        /\ [UploaderNext]_uploaderVars /\ [PanelNext]_panelVars
        /\ [ServerNext]_serverVars /\ [DataNext]_dataVars
        /\ [MigrateNext]_migrateVars /\ [EnvironmentNext]_environmentVars
        /\ [CallNext]_callVars /\ part' = part
  BY DEF ComponentsNext, allVars, UploaderMoves, PanelMoves, ServerMoves, DataMoves,
     MigrateMoves, EnvironmentMoves, CallMoves


-----------------------------------------------------------------------------
(* The rate limiter: within a window no two requests are told the same count *)

Replies == {"none", "waiting", "next", "limited", "unavailable"}
KeySet(r) == ToSet(KeysOf[r])
Counted(k) == {r \in Attempts : k \in window[r]}

\* The count of a key is that of the requests in its window.
WindowIsCounted == \A k \in Keys : count[k] = Cardinality(Counted(k))

\* A call that is still to be counted is in no window; a request calls for its
\* own keys only, and not before it arrives.
CallsCountOnce ==
    /\ \A r \in Attempts, k \in Keys :
          call[<<r, k>>] \in {"none", "dial", "send"} => k \notin window[r]
    /\ \A r \in Attempts, k \in Keys : k \notin KeySet(r) => call[<<r, k>>] = "none"
    /\ \A r \in Attempts, k \in Keys : reply[r] = "none" => call[<<r, k>>] = "none"

\* The requests of a window that were told at most n.
ToldAtMost(k, n) ==
    {r \in Counted(k) : call[<<r, k>>] = "done" /\ highest[r] <= n}

\* At most n of them were told at most n: the counts of a window differ.
CountsDiffer == \A k \in Keys, n \in Nat : Cardinality(ToldAtMost(k, n)) <= n

\* A request that went on was told each of its counts, all within the limit.
NextIsWithinLimit ==
    \A r \in Attempts : reply[r] = "next" =>
        highest[r] <= Limit /\ \A k \in KeySet(r) : call[<<r, k>>] = "done"

ServerInv ==
    /\ ServerTypeOK
    /\ WindowIsCounted
    /\ CallsCountOnce
    /\ CountsDiffer
    /\ NextIsWithinLimit

\* A key of an attempt is counted by a call of its own.
LEMMA CallOfKey == \A r \in Attempts : \A k \in KeySet(r) : k \in Keys /\ <<r, k>> \in RedisCalls
  BY DEF Keys, KeySet, RedisCalls

\* What settling does to the answers: a request that was answered keeps its
\* answer, one that has none yet has sent nothing, and one that goes on was
\* told all its counts.
LEMMA SettleStep ==
  ASSUME ServerTypeOK, SettleAll
  PROVE  /\ reply' \in [Attempts -> Replies]
         /\ \A r \in Attempts : reply'[r] = "none" =>
               reply[r] = "none" /\ \A k \in KeySet(r) : call'[<<r, k>>] = "none"
         /\ \A r \in Attempts : reply[r] \notin {"none", "waiting"} => reply'[r] = reply[r]
         /\ \A r \in Attempts : reply'[r] = "next" /\ reply[r] # "next" =>
               highest'[r] <= Limit /\ \A k \in KeySet(r) : call'[<<r, k>>] = "done"
  <1> SUFFICES ASSUME NEW r \in Attempts
               PROVE  /\ Settled(r, call', highest'[r]) \in Replies
                      /\ Settled(r, call', highest'[r]) = "none" =>
                            reply[r] = "none" /\ \A k \in KeySet(r) : call'[<<r, k>>] = "none"
                      /\ reply[r] \notin {"none", "waiting"} =>
                            Settled(r, call', highest'[r]) = reply[r]
                      /\ Settled(r, call', highest'[r]) = "next" /\ reply[r] # "next" =>
                            highest'[r] <= Limit /\ \A k \in KeySet(r) : call'[<<r, k>>] = "done"
    BY DEF SettleAll
  <1> DEFINE mine == {call'[<<r, k>>] : k \in KeySet(r)}
  <1>1. reply[r] \in Replies
    BY DEF ServerTypeOK, Replies
  <1>2. Settled(r, call', highest'[r]) =
          IF reply[r] \notin {"none", "waiting"} THEN reply[r]
          ELSE CASE "failed" \in mine -> "unavailable"
                 [] mine = {"done"} -> Verdict(r, highest'[r])
                 [] mine = {"none"} /\ reply[r] = "none" -> "none"
                 [] OTHER -> "waiting"
    BY DEF Settled, KeySet
  <1>3. Verdict(r, highest'[r]) = IF highest'[r] <= Limit THEN "next" ELSE "limited"
    BY DEF Verdict
  <1>4. \A v : mine = {v} => \A k \in KeySet(r) : call'[<<r, k>>] = v
    OBVIOUS
  <1> HIDE DEF mine
  <1>5. CASE reply[r] \notin {"none", "waiting"}
    BY <1>1, <1>2, <1>5 DEF Replies
  <1>6. CASE reply[r] \in {"none", "waiting"} /\ "failed" \in mine
    <2>1. mine # {"done"} /\ mine # {"none"}
      BY <1>6
    <2> QED
      BY <1>1, <1>2, <1>6, <2>1 DEF Replies
  <1>7. CASE reply[r] \in {"none", "waiting"} /\ "failed" \notin mine
    <2>1. CASE mine = {"done"}
      <3>1. mine # {"none"}
        BY <2>1
      <3> QED
        BY <1>2, <1>3, <1>4, <1>7, <2>1, <3>1 DEF Replies
    <2>2. CASE mine # {"done"}
      BY <1>2, <1>4, <1>7, <2>2 DEF Replies
    <2> QED
      BY <2>1, <2>2
  <1> QED
    BY <1>5, <1>6, <1>7, <1>1 DEF Replies

-----------------------------------------------------------------------------

\* The requests of a window are finitely many, and so are any of them.
LEMMA WindowsAreFinite ==
    \A k \in Keys : /\ IsFiniteSet(Counted(k))
                    /\ Cardinality(Counted(k)) \in Nat
                    /\ Cardinality(Counted(k)) <= Cardinality(Attempts)
                    /\ \A n \in Nat : IsFiniteSet(ToldAtMost(k, n))
                                      /\ Cardinality(ToldAtMost(k, n)) \in Nat
                                      /\ Cardinality(ToldAtMost(k, n)) <= Cardinality(Counted(k))
  <1> TAKE k \in Keys
  <1>1. Counted(k) \in SUBSET Attempts
    BY DEF Counted
  <1>2. IsFiniteSet(Counted(k)) /\ Cardinality(Counted(k)) <= Cardinality(Attempts)
    BY <1>1, AttemptsAreFinite, FS_Subset
  <1>3. ASSUME NEW n \in Nat
        PROVE  /\ IsFiniteSet(ToldAtMost(k, n))
               /\ Cardinality(ToldAtMost(k, n)) <= Cardinality(Counted(k))
    <2>1. ToldAtMost(k, n) \in SUBSET Counted(k)
      BY DEF ToldAtMost
    <2> QED
      BY <2>1, <1>2, FS_Subset
  <1> QED
    BY <1>2, <1>3, FS_CardinalityType

\* Where no further request is told, the counts stay as different as they were.
LEMMA FewerAreTold ==
  ASSUME CountsDiffer,
         \A k \in Keys, n \in Nat : ToldAtMost(k, n)' \subseteq ToldAtMost(k, n)
  PROVE  CountsDiffer'
  <1> SUFFICES ASSUME NEW k \in Keys, NEW n \in Nat
               PROVE  Cardinality(ToldAtMost(k, n)') <= n
    BY DEF CountsDiffer
  <1>1. IsFiniteSet(ToldAtMost(k, n)) /\ Cardinality(ToldAtMost(k, n)) \in Nat
    BY WindowsAreFinite
  <1>2. Cardinality(ToldAtMost(k, n)') <= Cardinality(ToldAtMost(k, n))
    BY <1>1, FS_Subset
  <1>3. IsFiniteSet(ToldAtMost(k, n)')
    BY <1>1, FS_Subset
  <1>4. Cardinality(ToldAtMost(k, n)') \in Nat
    BY <1>3, FS_CardinalityType
  <1> QED
    BY <1>1, <1>2, <1>4 DEF CountsDiffer

\* The steps that only move calls: none of them is counted, a call that was
\* begun does not become one that was not, and the requests are settled.
LEMMA MovingCalls ==
  ASSUME ServerInv, ServerTypeOK',
         UNCHANGED <<count, window, highest>>,
         \/ SettleAll
         \/ UNCHANGED reply /\ \A r \in Attempts : reply[r] = "next" =>
               \A k \in KeySet(r) : call'[<<r, k>>] = call[<<r, k>>],
         \A r \in Attempts, k \in Keys :
             /\ call'[<<r, k>>] \in {"none", "dial", "send"} =>
                   call[<<r, k>>] \in {"none", "dial", "send"}
             /\ call'[<<r, k>>] = "done" <=> call[<<r, k>>] = "done"
             /\ k \notin KeySet(r) => call'[<<r, k>>] = call[<<r, k>>]
             /\ reply'[r] = "none" => call'[<<r, k>>] = "none"
  PROVE  ServerInv'
  <1>1. WindowIsCounted'
    BY DEF ServerInv, WindowIsCounted, Counted
  <1>2. CallsCountOnce'
    BY DEF ServerInv, CallsCountOnce
  <1>3. CountsDiffer'
    BY FewerAreTold DEF ServerInv, ToldAtMost, Counted
  <1>4. NextIsWithinLimit'
    <2>1. CASE SettleAll
      BY <2>1, SettleStep, CallOfKey DEF ServerInv, NextIsWithinLimit
    <2>2. CASE UNCHANGED reply
      BY <2>2, CallOfKey DEF ServerInv, NextIsWithinLimit
    <2> QED
      BY <2>1, <2>2
  <1> QED
    BY <1>1, <1>2, <1>3, <1>4 DEF ServerInv

\* An attempt that arrives has counted nothing yet.
LEMMA ArriveKeeps ==
  ASSUME ServerInv, NEW r \in Attempts, Arrive(r)
  PROVE  ServerInv'
  <1>1. \A k \in Keys : call[<<r, k>>] = "none"
    BY DEF Arrive, ServerInv, CallsCountOnce
  <1>2. \A b \in BOOLEAN : Opening(b) \in {"send", "dial", "failed"}
                            /\ (Opening(b) = "dial" => ConnAfter = "connecting")
    BY DEF Opening, ConnAfter, MustConnect
  <1>3. \A c \in RedisCalls :
           \/ call'[c] = call[c] /\ \A k \in KeySet(r) : c # <<r, k>>
           \/ /\ \E k \in KeySet(r) : c = <<r, k>>
              /\ call'[c] \in {"send", "dial", "failed"}
              /\ call'[c] = "dial" => conn' = "connecting"
    BY <1>2 DEF Arrive, KeySet
  <1>4. SettleAll /\ UNCHANGED <<count, window, highest>>
    BY DEF Arrive
  <1>5. ServerTypeOK'
    <2>1. /\ call' \in [RedisCalls -> {"none", "dial", "send", "done", "failed"}]
      BY <1>3 DEF Arrive, ServerInv, ServerTypeOK
    <2>2. conn' \in {"wait", "connecting", "ready", "end"}
          /\ (conn = "connecting" => conn' = "connecting")
      BY DEF Arrive, ConnAfter, MustConnect, ServerInv, ServerTypeOK
    <2>3. \A c \in RedisCalls : call'[c] = "dial" => conn' = "connecting"
      BY <1>3, <2>2 DEF ServerInv, ServerTypeOK
    <2> QED
      BY <1>4, <2>1, <2>2, <2>3, SettleStep
         DEF Arrive, ServerInv, ServerTypeOK, probeVars, Replies
  <1>6. \A s \in Attempts, k \in Keys :
             /\ call'[<<s, k>>] \in {"none", "dial", "send"} =>
                   call[<<s, k>>] \in {"none", "dial", "send"}
             /\ call'[<<s, k>>] = "done" <=> call[<<s, k>>] = "done"
             /\ k \notin KeySet(s) => call'[<<s, k>>] = call[<<s, k>>]
    BY <1>1, <1>3 DEF RedisCalls
  <1>7. ASSUME NEW s \in Attempts, NEW k \in Keys, reply'[s] = "none"
        PROVE  call'[<<s, k>>] = "none"
    <2>1. reply[s] = "none" /\ \A j \in KeySet(s) : call'[<<s, j>>] = "none"
      BY <1>4, <1>7, SettleStep DEF ServerInv
    <2> QED
      BY <2>1, <1>6 DEF ServerInv, CallsCountOnce
  <1> QED
    BY <1>4, <1>5, <1>6, <1>7, MovingCalls

\* The connection is made, or cannot be made, or is gone.
LEMMA ConnectionKeeps ==
  ASSUME ServerInv, Connected \/ ConnectFails
  PROVE  ServerInv'
  <1>1. UNCHANGED <<count, window, highest>> /\ UNCHANGED <<redisUp, probeVars>>
        /\ conn' \in {"ready", "end"}
    BY DEF Connected, ConnectFails
  <1>2. \A c \in RedisCalls :
           \/ call[c] # "dial" /\ call'[c] = call[c]
           \/ call[c] = "dial" /\ call'[c] \in {"send", "failed"}
    BY DEF Connected, ConnectFails
  <1>3. call' \in [RedisCalls -> {"none", "dial", "send", "done", "failed"}]
    BY <1>2 DEF Connected, ConnectFails, ServerInv, ServerTypeOK
  <1>4. SettleAll \/ UNCHANGED reply
    BY DEF Connected, ConnectFails
  <1>5. reply' \in [Attempts -> Replies]
    BY <1>4, SettleStep DEF ServerInv, ServerTypeOK, Replies
  <1>6. ServerTypeOK'
    BY <1>1, <1>2, <1>3, <1>5 DEF ServerInv, ServerTypeOK, probeVars, Replies
  <1>7. \A s \in Attempts, k \in Keys :
             /\ call'[<<s, k>>] \in {"none", "dial", "send"} =>
                   call[<<s, k>>] \in {"none", "dial", "send"}
             /\ call'[<<s, k>>] = "done" <=> call[<<s, k>>] = "done"
             /\ k \notin KeySet(s) => call'[<<s, k>>] = call[<<s, k>>]
             /\ reply[s] = "none" => call'[<<s, k>>] = "none"
    <2> TAKE s \in Attempts, k \in Keys
    <2>1. <<s, k>> \in RedisCalls
      BY DEF RedisCalls
    <2>2. /\ k \notin KeySet(s) => call[<<s, k>>] = "none"
          /\ reply[s] = "none" => call[<<s, k>>] = "none"
      BY DEF ServerInv, CallsCountOnce
    <2> QED
      BY <1>2, <2>1, <2>2
  <1>8. \A s \in Attempts : reply'[s] = "none" => reply[s] = "none"
    BY <1>4, SettleStep DEF ServerInv
  <1>9. \A s \in Attempts : reply[s] = "next" =>
               \A k \in KeySet(s) : call'[<<s, k>>] = call[<<s, k>>]
    BY <1>2, CallOfKey DEF ServerInv, NextIsWithinLimit
  <1> QED
    BY <1>1, <1>4, <1>6, <1>7, <1>8, <1>9, MovingCalls

\* What becomes reachable, goes and answers beside the calls to Redis.
Beside ==
    \/ AskDatabase \/ AskBrokers \/ RedisReturns
    \/ \E d \in Dependencies : DependencyGoes(d) \/ DependencyReturns(d)

\* The calls of the readiness check, and what it waits for.
LEMMA ProbeKeeps ==
  ASSUME ServerInv, BeginProbe \/ Pong \/ EndProbe \/ Beside
  PROVE  ServerInv'
  <1>around. ASSUME Beside
             PROVE  /\ UNCHANGED <<conn, count, window, call, highest, reply>>
                    /\ redisUp' \in BOOLEAN /\ reachable' \in SUBSET Dependencies
                    /\ asked' \in SUBSET Dependencies /\ allUp' \in BOOLEAN /\ ready' \in BOOLEAN
    BY <1>around DEF Beside, AskDatabase, AskBrokers, Ask, RedisReturns, DependencyGoes,
                     DependencyReturns, redisVars, limiterVars, probeVars, ServerInv, ServerTypeOK
  <1>1. UNCHANGED <<count, window, highest, reply>>
    BY <1>around DEF BeginProbe, Pong, EndProbe, redisVars
  <1>2. \A r \in Attempts, k \in Keys : call'[<<r, k>>] = call[<<r, k>>]
    <2> TAKE r \in Attempts, k \in Keys
    <2>1. <<r, k>> \in RedisCalls /\ <<r, k>> # Ping
      BY PingIsNoAttempt DEF RedisCalls
    <2>2. CASE BeginProbe \/ Pong \/ EndProbe
      <3>1. \E v : call' = [call EXCEPT ![Ping] = v]
        BY <2>2 DEF BeginProbe, Pong, EndProbe
      <3> QED
        BY <2>1, <3>1 DEF ServerInv, ServerTypeOK
    <2>3. CASE Beside
      BY <2>3, <1>around
    <2> QED
      BY <2>2, <2>3
  <1>3. ServerTypeOK'
    <2> USE DEF ServerInv, ServerTypeOK
    <2>1. CASE BeginProbe
      <3>1. Ping \in RedisCalls
        BY DEF RedisCalls
      <3>2. /\ Opening(TRUE) \in {"send", "dial", "failed"}
            /\ Opening(TRUE) = "dial" => ConnAfter = "connecting"
            /\ conn = "connecting" => ConnAfter = "connecting"
            /\ ConnAfter \in {"wait", "connecting", "ready", "end"}
        BY DEF Opening, ConnAfter, MustConnect
      <3> QED
        BY <2>1, <3>1, <3>2 DEF BeginProbe
    <2>2. CASE Pong
      BY <2>2 DEF Pong, redisVars, probeVars, RedisCalls
    <2>3. CASE EndProbe
      <3>1. ready' \in BOOLEAN /\ allUp' \in BOOLEAN
        BY <2>3, Zenon DEF EndProbe
      <3>2. /\ UNCHANGED <<conn, redisUp, count, window, highest, reply, reachable, asked>>
            /\ call' = [call EXCEPT ![Ping] = "none"]
        BY <2>3 DEF EndProbe, redisVars
      <3> QED
        BY <3>1, <3>2 DEF RedisCalls
    <2>4. CASE Beside
      BY <2>4, <1>around
    <2> QED
      BY <2>1, <2>2, <2>3, <2>4
  <1> QED
    BY <1>1, <1>2, <1>3, MovingCalls, CallOfKey DEF ServerInv, CallsCountOnce

\* One more request is counted under a key, and told the count.
LEMMA CountKeeps ==
  ASSUME ServerInv, NEW r \in Attempts, NEW k \in Keys, Count(r, k)
  PROVE  ServerInv'
  <1>types. /\ call \in [RedisCalls -> {"none", "dial", "send", "done", "failed"}]
            /\ count \in [Keys -> Nat]
            /\ highest \in [Attempts -> Nat]
            /\ window \in [Attempts -> SUBSET Keys]
            /\ <<r, k>> \in RedisCalls
    BY AttemptsAreFinite, FS_CardinalityType DEF ServerInv, ServerTypeOK, RedisCalls
  <1>1. /\ call[<<r, k>>] = "send"
        /\ count' = [count EXCEPT ![k] = @ + 1]
        /\ window' = [window EXCEPT ![r] = @ \cup {k}]
        /\ call' = [call EXCEPT ![<<r, k>>] = "done"]
        /\ highest' = [highest EXCEPT ![r] = Told(r, count[k] + 1)]
        /\ UNCHANGED <<conn, redisUp, probeVars>>
        /\ SettleAll
    BY <1>types DEF Count
  <1>2. k \notin window[r]
    BY <1>1 DEF ServerInv, CallsCountOnce
  <1>3. \A j \in Keys : Counted(j)' = IF j = k THEN Counted(j) \cup {r} ELSE Counted(j)
    BY <1>1, <1>types DEF Counted
  <1>added. /\ IsFiniteSet(Counted(k) \cup {r})
            /\ Cardinality(Counted(k) \cup {r}) = Cardinality(Counted(k)) + 1
    <2>1. r \notin Counted(k)
      BY <1>2 DEF Counted
    <2> QED
      BY <2>1, WindowsAreFinite, FS_AddElement
  <1>4. WindowIsCounted'
    <2>1. \A j \in Keys : count'[j] = Cardinality(Counted(j)')
      BY <1>1, <1>types, <1>3, <1>added DEF ServerInv, WindowIsCounted
    <2> QED
      BY <2>1 DEF WindowIsCounted
  <1>5. Told(r, count[k] + 1) \in Nat /\ Told(r, count[k] + 1) >= count[k] + 1
        /\ Told(r, count[k] + 1) >= highest[r]
    BY <1>types DEF Told
  <1>6. count'[k] = count[k] + 1 /\ \A j \in Keys : count'[j] \in 0 .. Cardinality(Attempts)
    <2>1. \A j \in Keys : count'[j] = Cardinality(Counted(j)')
      BY <1>4 DEF WindowIsCounted
    <2>2. \A j \in Keys : Counted(j)' \in SUBSET Attempts
      BY DEF Counted
    <2>3. \A j \in Keys : Cardinality(Counted(j)') <= Cardinality(Attempts)
      BY <2>2, AttemptsAreFinite, FS_Subset
    <2> QED
      BY <1>1, <1>types, <2>1, <2>3, AttemptsAreFinite, FS_CardinalityType
  <1>7. ServerTypeOK'
    <2>1. Cardinality(Attempts) \in Nat
      BY AttemptsAreFinite, FS_CardinalityType
    <2>2. count' \in [Keys -> 0 .. Cardinality(Attempts)]
      BY <1>1, <1>6, <1>types
    <2>3. highest[r] \in 0 .. Cardinality(Attempts) /\ count[k] + 1 \in 0 .. Cardinality(Attempts)
      BY <1>6 DEF ServerInv, ServerTypeOK
    <2>4. Told(r, count[k] + 1) \in 0 .. Cardinality(Attempts)
      BY <2>3 DEF Told
    <2>5. highest' \in [Attempts -> 0 .. Cardinality(Attempts)]
      BY <1>1, <2>4 DEF ServerInv, ServerTypeOK
    <2>6. reply' \in [Attempts -> Replies]
      BY <1>1, SettleStep DEF ServerInv
    <2> QED
      BY <1>1, <1>types, <2>2, <2>5, <2>6 DEF ServerInv, ServerTypeOK, probeVars, Replies
  <1>8. CallsCountOnce'
    <2>1. k \in KeySet(r) /\ reply[r] # "none"
      BY <1>1 DEF ServerInv, CallsCountOnce
    <2>2. \A s \in Attempts : reply'[s] = "none" => reply[s] = "none"
      BY <1>1, SettleStep DEF ServerInv
    <2> QED
      BY <1>1, <1>types, <2>1, <2>2 DEF ServerInv, CallsCountOnce, RedisCalls
  <1>9. CountsDiffer'
    <2> SUFFICES ASSUME NEW j \in Keys, NEW n \in Nat
                 PROVE  Cardinality(ToldAtMost(j, n)') <= n
      BY DEF CountsDiffer
    <2>1. CASE j = k /\ n >= count[k] + 1
      <3>1. ToldAtMost(j, n)' \in SUBSET (Counted(k) \cup {r})
        BY <1>3, <2>1 DEF ToldAtMost
      <3>2. Cardinality(ToldAtMost(j, n)') <= Cardinality(Counted(k) \cup {r})
            /\ IsFiniteSet(ToldAtMost(j, n)')
        BY <3>1, <1>added, FS_Subset
      <3>3. Cardinality(Counted(k)) = count[k]
        BY DEF ServerInv, WindowIsCounted
      <3>4. Cardinality(ToldAtMost(j, n)') \in Nat
        BY <3>2, FS_CardinalityType
      <3> QED
        BY <2>1, <3>2, <3>3, <3>4, <1>added, <1>types
    <2>2. CASE ~(j = k /\ n >= count[k] + 1)
      <3>1. ToldAtMost(j, n)' \subseteq ToldAtMost(j, n)
        <4> SUFFICES ASSUME NEW s \in ToldAtMost(j, n)'
                     PROVE  s \in ToldAtMost(j, n)
          OBVIOUS
        <4>1. s \in Counted(j)' /\ s \in Attempts /\ call'[<<s, j>>] = "done" /\ highest'[s] <= n
          BY DEF ToldAtMost, Counted
        <4>2. ~(s = r /\ j = k)
          BY <1>1, <1>5, <1>types, <2>2, <4>1
        <4>3. call[<<s, j>>] = "done" /\ s \in Counted(j)
          BY <1>1, <1>3, <1>types, <4>1, <4>2 DEF RedisCalls
        <4>4. highest[s] <= n
          BY <1>1, <1>5, <1>types, <4>1
        <4> QED
          BY <4>3, <4>4 DEF ToldAtMost
      <3>2. IsFiniteSet(ToldAtMost(j, n)) /\ Cardinality(ToldAtMost(j, n)) \in Nat
        BY WindowsAreFinite
      <3>3. Cardinality(ToldAtMost(j, n)') <= Cardinality(ToldAtMost(j, n))
            /\ IsFiniteSet(ToldAtMost(j, n)')
        BY <3>1, <3>2, FS_Subset
      <3>4. Cardinality(ToldAtMost(j, n)') \in Nat
        BY <3>3, FS_CardinalityType
      <3> QED
        BY <3>2, <3>3, <3>4 DEF ServerInv, CountsDiffer
    <2> QED
      BY <2>1, <2>2
  <1>10. NextIsWithinLimit'
    <2>1. reply[r] # "next"
      BY <1>1 DEF ServerInv, NextIsWithinLimit, CallsCountOnce
    <2>2. ASSUME NEW s \in Attempts, reply[s] = "next"
          PROVE  highest'[s] = highest[s] /\ \A j \in KeySet(s) : call'[<<s, j>>] = call[<<s, j>>]
      BY <1>1, <1>types, <2>1, <2>2, CallOfKey
    <2> QED
      BY <1>1, <2>2, SettleStep DEF ServerInv, NextIsWithinLimit
  <1> QED
    BY <1>4, <1>7, <1>8, <1>9, <1>10 DEF ServerInv


\* The key of a window expires: the window and its count are gone.
LEMMA WindowEndKeeps ==
  ASSUME ServerInv, NEW k \in Keys, WindowEnds(k)
  PROVE  ServerInv'
  <1>1. /\ count' = [count EXCEPT ![k] = 0]
        /\ window' = [r \in Attempts |-> window[r] \ {k}]
        /\ UNCHANGED <<conn, redisUp, call, highest, reply, probeVars>>
    BY DEF WindowEnds, limiterVars
  <1>2. \A j \in Keys : Counted(j)' = IF j = k THEN {} ELSE Counted(j)
    BY <1>1 DEF Counted
  <1>3. ServerTypeOK'
    <2>1. 0 \in 0 .. Cardinality(Attempts)
      BY AttemptsAreFinite, FS_CardinalityType
    <2> QED
      BY <1>1, <2>1 DEF ServerInv, ServerTypeOK, probeVars
  <1>4. WindowIsCounted'
    BY <1>1, <1>2, FS_EmptySet DEF ServerInv, ServerTypeOK, WindowIsCounted
  <1>5. CallsCountOnce' /\ NextIsWithinLimit'
    BY <1>1 DEF ServerInv, CallsCountOnce, NextIsWithinLimit
  <1>6. CountsDiffer'
    BY <1>1, <1>2, FewerAreTold DEF ServerInv, ToldAtMost
  <1> QED
    BY <1>3, <1>4, <1>5, <1>6 DEF ServerInv

\* As many requests were counted under a key as calls for it.
LEMMA OneCallPerRequest ==
  ASSUME NEW counted \in SUBSET (Attempts \X Keys), NEW k \in Keys
  PROVE  /\ IsFiniteSet({r \in Attempts : <<r, k>> \in counted})
         /\ Cardinality({c \in counted : c[2] = k}) =
               Cardinality({r \in Attempts : <<r, k>> \in counted})
  <1> DEFINE requests == {r \in Attempts : <<r, k>> \in counted}
             calls == {c \in counted : c[2] = k}
             f == [r \in requests |-> <<r, k>>]
  <1>1. IsFiniteSet(requests)
    BY AttemptsAreFinite, FS_Subset
  <1>2. f \in Bijection(requests, calls)
    <2>1. f \in Injection(requests, calls)
      BY DEF Injection, IsInjective
    <2>2. \A c \in calls : c[1] \in requests /\ f[c[1]] = c
      OBVIOUS
    <2> QED
      BY <2>1, <2>2 DEF Bijection, Surjection
  <1>3. Cardinality(calls) = Cardinality(requests)
    BY <1>1, <1>2, FS_Bijection DEF ExistsBijection
  <1> QED
    BY <1>1, <1>3

\* Redis is lost: of the calls under way some were counted, and all fail.
LEMMA RedisGoesKeeps ==
  ASSUME ServerInv, RedisGoes
  PROVE  ServerInv'
  <1>1. PICK counted \in SUBSET {c \in Attempts \X Keys : call[c] = "send"} :
           /\ count' = [k \in Keys |-> count[k] + Cardinality({c \in counted : c[2] = k})]
           /\ window' = [r \in Attempts |-> window[r] \cup {k \in Keys : <<r, k>> \in counted}]
    BY DEF RedisGoes
  <1>2. /\ redisUp' = FALSE
        /\ conn' = IF conn = "ready" THEN "end" ELSE conn
        /\ call' = [c \in RedisCalls |-> IF call[c] = "send" THEN "failed" ELSE call[c]]
        /\ UNCHANGED <<highest, probeVars>>
        /\ SettleAll
    BY DEF RedisGoes
  <1>3. \A s \in Attempts, k \in Keys :
             /\ <<s, k>> \in counted => call[<<s, k>>] = "send"
             /\ call[<<s, k>>] = "send" => call'[<<s, k>>] = "failed"
             /\ call[<<s, k>>] # "send" => call'[<<s, k>>] = call[<<s, k>>]
    BY <1>1, <1>2 DEF RedisCalls
  <1>4. \A k \in Keys : /\ Counted(k)' = Counted(k) \cup {r \in Attempts : <<r, k>> \in counted}
                        /\ Counted(k) \cap {r \in Attempts : <<r, k>> \in counted} = {}
    BY <1>1, <1>3 DEF Counted, ServerInv, CallsCountOnce
  <1>5. WindowIsCounted'
    <2> SUFFICES ASSUME NEW k \in Keys PROVE count'[k] = Cardinality(Counted(k)')
      BY DEF WindowIsCounted
    <2> DEFINE new == {r \in Attempts : <<r, k>> \in counted}
    <2>1. counted \in SUBSET (Attempts \X Keys)
      BY <1>1
    <2>2. IsFiniteSet(new) /\ Cardinality({c \in counted : c[2] = k}) = Cardinality(new)
      BY <2>1, OneCallPerRequest
    <2>3. Cardinality(new) \in Nat
      BY <2>2, FS_CardinalityType
    <2>4. Counted(k)' = Counted(k) \cup new /\ Counted(k) \cap new = {}
      BY <1>4
    <2> HIDE DEF new
    <2>5. IsFiniteSet(Counted(k)) /\ Cardinality(Counted(k)) \in Nat
      BY WindowsAreFinite
    <2>6. Cardinality(Counted(k) \cup new) = Cardinality(Counted(k)) + Cardinality(new)
      <3>1. Cardinality(Counted(k) \cup new) =
              Cardinality(Counted(k)) + Cardinality(new) - Cardinality(Counted(k) \cap new)
        BY <2>2, <2>5, FS_Union
      <3>2. Cardinality(Counted(k) \cap new) = 0
        BY <2>4, FS_EmptySet
      <3> QED
        BY <3>1, <3>2, <2>3, <2>5
    <2> QED
      BY <1>1, <2>2, <2>4, <2>6 DEF ServerInv, WindowIsCounted
  <1>6. ServerTypeOK'
    <2>1. \A k \in Keys : count'[k] \in 0 .. Cardinality(Attempts)
      <3> TAKE k \in Keys
      <3>1. Counted(k)' \in SUBSET Attempts
        BY DEF Counted
      <3>2. Cardinality(Counted(k)') <= Cardinality(Attempts) /\ IsFiniteSet(Counted(k)')
        BY <3>1, AttemptsAreFinite, FS_Subset
      <3>3. Cardinality(Counted(k)') \in Nat /\ Cardinality(Attempts) \in Nat
        BY <3>2, AttemptsAreFinite, FS_CardinalityType
      <3> QED
        BY <1>5, <3>2, <3>3 DEF WindowIsCounted
    <2>2. count' \in [Keys -> 0 .. Cardinality(Attempts)]
      BY <1>1, <2>1
    <2>3. reply' \in [Attempts -> Replies]
      BY <1>2, SettleStep DEF ServerInv
    <2>4. call' \in [RedisCalls -> {"none", "dial", "send", "done", "failed"}]
          /\ \A c \in RedisCalls : call'[c] = "dial" => conn' = "connecting"
      BY <1>2 DEF ServerInv, ServerTypeOK
    <2>5. window' \in [Attempts -> SUBSET Keys]
      BY <1>1 DEF ServerInv, ServerTypeOK
    <2> QED
      BY <1>2, <2>2, <2>3, <2>4, <2>5 DEF ServerInv, ServerTypeOK, probeVars, Replies
  <1>7. CallsCountOnce'
    <2>1. \A s \in Attempts : reply'[s] = "none" => reply[s] = "none"
      BY <1>2, SettleStep DEF ServerInv
    <2>2. \A s \in Attempts, k \in Keys : k \in window'[s] => k \in window[s] \/ <<s, k>> \in counted
      BY <1>1
    <2> SUFFICES ASSUME NEW s \in Attempts, NEW k \in Keys
                 PROVE  /\ call'[<<s, k>>] \in {"none", "dial", "send"} => k \notin window'[s]
                        /\ k \notin KeySet(s) => call'[<<s, k>>] = "none"
                        /\ reply'[s] = "none" => call'[<<s, k>>] = "none"
      BY DEF CallsCountOnce
    <2>3. /\ call[<<s, k>>] \in {"none", "dial", "send"} => k \notin window[s]
          /\ k \notin KeySet(s) => call[<<s, k>>] = "none"
          /\ reply[s] = "none" => call[<<s, k>>] = "none"
      BY DEF ServerInv, CallsCountOnce
    <2> QED
      BY <1>3, <2>1, <2>2, <2>3
  <1>8. CountsDiffer'
    BY <1>2, <1>3, <1>4, FewerAreTold DEF ServerInv, ToldAtMost, Counted
  <1>9. NextIsWithinLimit'
    BY <1>2, <1>3, SettleStep, CallOfKey DEF ServerInv, NextIsWithinLimit
  <1> QED
    BY <1>5, <1>6, <1>7, <1>8, <1>9 DEF ServerInv

\* Nothing was counted, called or answered at first.
LEMMA ServerStart == ServerInit => ServerInv
  <1> SUFFICES ASSUME ServerInit PROVE ServerInv
    OBVIOUS
  <1>1. Cardinality(Attempts) \in Nat
    BY AttemptsAreFinite, FS_CardinalityType
  <1>2. ServerTypeOK
    <2>1. 0 \in 0 .. Cardinality(Attempts)
      BY <1>1
    <2>2. /\ redisUp \in BOOLEAN /\ allUp \in BOOLEAN /\ ready \in BOOLEAN
          /\ count \in [Keys -> 0 .. Cardinality(Attempts)]
          /\ highest \in [Attempts -> 0 .. Cardinality(Attempts)]
          /\ window \in [Attempts -> SUBSET Keys]
      BY <2>1 DEF ServerInit
    <2> QED
      BY <2>2 DEF ServerInit, ServerTypeOK
  <1>3. \A k \in Keys : Counted(k) = {} /\ \A n \in Nat : ToldAtMost(k, n) = {}
    BY DEF ServerInit, Counted, ToldAtMost
  <1>4. WindowIsCounted /\ CountsDiffer
    <2>1. Cardinality({}) = 0
      BY FS_EmptySet
    <2>2. WindowIsCounted
      BY <1>3, <2>1 DEF ServerInit, WindowIsCounted
    <2>3. CountsDiffer
      BY <1>3, <2>1 DEF CountsDiffer
    <2> QED
      BY <2>2, <2>3
  <1>5. CallsCountOnce /\ NextIsWithinLimit
    BY DEF ServerInit, CallsCountOnce, NextIsWithinLimit, RedisCalls
  <1> QED
    BY <1>2, <1>4, <1>5 DEF ServerInv

\* Every step of the limiter keeps its invariant.
LEMMA ServerStep == ServerInv /\ [ServerNext]_serverVars => ServerInv'
  <1> SUFFICES ASSUME ServerInv, [ServerNext]_serverVars PROVE ServerInv'
    OBVIOUS
  <1>1. ASSUME NEW r \in Attempts, Arrive(r) PROVE ServerInv'
    BY <1>1, ArriveKeeps
  <1>2. ASSUME NEW r \in Attempts, NEW k \in Keys, Count(r, k) PROVE ServerInv'
    BY <1>2, CountKeeps
  <1>3. ASSUME NEW k \in Keys, WindowEnds(k) PROVE ServerInv'
    BY <1>3, WindowEndKeeps
  <1>4. CASE Dialling
    BY <1>4, ConnectionKeeps DEF Dialling
  <1>5. CASE Probing \/ Beside
    BY <1>5, ProbeKeeps DEF Probing, Beside
  <1>6. CASE RedisGoes
    BY <1>6, RedisGoesKeeps
  <1>7. CASE UNCHANGED serverVars
    <2>1. UNCHANGED <<conn, redisUp, count, window, call, highest, reply, reachable, asked, allUp,
                      ready>>
      BY <1>7 DEF serverVars, redisVars, limiterVars, probeVars
    <2>2. ServerTypeOK'
      BY <2>1 DEF ServerInv, ServerTypeOK
    <2> QED
      BY <2>1, <2>2, MovingCalls DEF ServerInv, CallsCountOnce
  <1> QED
    BY <1>1, <1>2, <1>3, <1>4, <1>5, <1>6, <1>7 DEF ServerNext, Beside

\* The requests of a window that went on were told at most the limit.
LEMMA LimitFollows == ServerInv => LimitHolds
  <1> SUFFICES ASSUME ServerInv, NEW k \in Keys
               PROVE  Cardinality({r \in Attempts : reply[r] = "next" /\ k \in window[r]}) <= Limit
    BY DEF LimitHolds
  <1> DEFINE passed == {r \in Attempts : reply[r] = "next" /\ k \in window[r]}
  <1>1. passed \subseteq ToldAtMost(k, Limit)
    <2> SUFFICES ASSUME NEW r \in passed PROVE r \in ToldAtMost(k, Limit)
      OBVIOUS
    <2>1. k \in KeySet(r)
      BY DEF ServerInv, CallsCountOnce
    <2> QED
      BY <2>1 DEF ServerInv, NextIsWithinLimit, ToldAtMost, Counted
  <1>2. IsFiniteSet(ToldAtMost(k, Limit)) /\ Cardinality(ToldAtMost(k, Limit)) \in Nat
        /\ Cardinality(ToldAtMost(k, Limit)) <= Limit
    BY WindowsAreFinite, LimitIsPositive DEF ServerInv, CountsDiffer
  <1>3. Cardinality(passed) <= Cardinality(ToldAtMost(k, Limit)) /\ IsFiniteSet(passed)
    BY <1>1, <1>2, FS_Subset
  <1>4. Cardinality(passed) \in Nat
    BY <1>3, FS_CardinalityType
  <1> QED
    BY <1>2, <1>3, <1>4, LimitIsPositive

\* Of the requests that count in a window of a key no more than the limit go
\* on, whatever the connection to Redis does meanwhile (RateLimitMiddleware.use,
\* RedisService.increment).
THEOREM LimitIsKept == ComponentsSpec => []LimitHolds
  <1>1. ComponentsInit => ServerInv
    BY ServerStart DEF ComponentsInit
  <1>2. ServerInv /\ [ComponentsNext]_allVars => ServerInv'
    BY ServerStep, PartsMove
  <1>3. ServerInv => LimitHolds
    BY LimitFollows
  <1> QED
    BY <1>1, <1>2, <1>3, PTL DEF ComponentsSpec


-----------------------------------------------------------------------------
(* Consent: the times of the rows count the rows, so a post that begins after *)
(* an answer gets a later time than the one that was answered                  *)

Stages == {"none", "checked", "stored", "written", "answered", "refused"}
Timed == {p \in Posts : time[p] > 0}

DataTypes ==
    /\ post \in [Posts -> Stages]
    /\ time \in [Posts -> Nat]
    /\ earlier \in [Posts -> SUBSET Posts]

\* A row has a time from its INSERT on, and no time is ahead of the count.
TimesCount ==
    /\ \A p \in Posts : post[p] \in {"none", "checked"} => time[p] = 0
    /\ \A p \in Posts : post[p] \in {"stored", "written", "answered"} => time[p] > 0
    /\ \A p \in Posts : time[p] <= Clock

\* What was answered when a post began is answered for good, and older.
EarlierIsOlder ==
    \A p \in Posts : \A q \in earlier[p] :
        post[q] = "answered" /\ (time[p] > 0 => time[q] < time[p])

DataInv == DataTypes /\ TimesCount /\ EarlierIsOlder

-----------------------------------------------------------------------------

\* The count of the rows is a number.
LEMMA ClockIsNatural == IsFiniteSet(Timed) /\ Clock \in Nat
  <1>1. IsFiniteSet(Timed)
    BY PostsAreFinite, FS_Subset DEF Timed
  <1> QED
    BY <1>1, FS_CardinalityType DEF Timed, Clock

\* An INSERT counts one row more, and its time is later than every other.
LEMMA StoreStep ==
    ASSUME DataInv, NEW p \in Posts, StoreChoice(p)
    PROVE  DataInv'
  <1> USE DEF DataInv, DataTypes
  <1>1. /\ post[p] = "checked" /\ post' = [post EXCEPT ![p] = "stored"]
        /\ time' = [time EXCEPT ![p] = Clock + 1] /\ earlier' = earlier
    BY DEF StoreChoice, Moves
  <1>2. Clock \in Nat /\ IsFiniteSet(Timed) /\ Clock = Cardinality(Timed)
    BY ClockIsNatural DEF Timed, Clock
  <1>3. p \notin Timed /\ Timed' = Timed \cup {p}
    BY <1>1, <1>2 DEF Timed, TimesCount
  <1>4. Clock' = Clock + 1
    <2>1. Cardinality(Timed \cup {p}) = Cardinality(Timed) + 1
      BY <1>2, <1>3, FS_AddElement
    <2>2. Clock' = Cardinality(Timed')
      BY DEF Clock, Timed
    <2> QED
      BY <2>1, <2>2, <1>2, <1>3
  <1>5. DataTypes'
    BY <1>1, <1>2 DEF Stages
  <1>6. TimesCount'
    BY <1>1, <1>2, <1>4 DEF TimesCount, Stages
  <1>7. EarlierIsOlder'
    BY <1>1, <1>2 DEF TimesCount, EarlierIsOlder, Stages
  <1> QED
    BY <1>5, <1>6, <1>7

\* Every step keeps the invariant.
LEMMA DataStep == DataInv /\ [DataNext]_dataVars => DataInv'
  <1> SUFFICES ASSUME DataInv, [DataNext]_dataVars PROVE DataInv'
    OBVIOUS
  <1> USE DEF DataInv, DataTypes, TimesCount, EarlierIsOlder, Stages, Clock, Moves, Answered
  <1>1. ASSUME NEW v \in Notices, Publish(v) \/ Retire(v) PROVE DataInv'
    BY <1>1 DEF Publish, Retire
  <1>2. CASE ReadNotice
    BY <1>2 DEF ReadNotice
  <1>3. ASSUME NEW p \in Posts, CheckNotice(p) PROVE DataInv'
    BY <1>3 DEF CheckNotice
  <1>4. ASSUME NEW p \in Posts, StoreChoice(p) PROVE DataInv'
    BY <1>4, StoreStep
  <1>5. ASSUME NEW p \in Posts, CommitChoice(p) PROVE DataInv'
    BY <1>5 DEF CommitChoice
  <1>6. ASSUME NEW p \in Posts, AnswerChoice(p) PROVE DataInv'
    BY <1>6 DEF AnswerChoice
  <1>7. ASSUME NEW p \in Posts, ChoiceFails(p) PROVE DataInv'
    BY <1>7 DEF ChoiceFails
  <1>8. CASE UNCHANGED dataVars
    BY <1>8 DEF dataVars
  <1> QED
    BY <1>1, <1>2, <1>3, <1>4, <1>5, <1>6, <1>7, <1>8 DEF DataNext

\* No post has a row or an earlier answer at first.
LEMMA DataStart == DataInit => DataInv
  <1> SUFFICES ASSUME DataInit PROVE DataInv
    OBVIOUS
  <1>1. Clock \in Nat
    BY ClockIsNatural
  <1> QED
    BY <1>1 DEF DataInit, DataInv, DataTypes, TimesCount, EarlierIsOlder, Stages

-----------------------------------------------------------------------------

\* The types that are left: one notice is current, and what was offered, or is
\* named by a post that was let through, has been published.
NoticesAreOut ==
    /\ notice \in [Notices -> {"draft", "current", "retired"}]
    /\ offered \in Notices \cup {NoNotice}
    /\ names \in [Posts -> Notices \cup {NoNotice}]
    /\ \A v, w \in Notices : notice[v] = "current" /\ notice[w] = "current" => v = w
    /\ offered \in Notices => notice[offered] # "draft"
    /\ \A p \in Posts : post[p] \in {"checked", "stored", "written", "answered"} =>
          names[p] \in Notices /\ notice[names[p]] # "draft"

\* Every step keeps one notice current, and what a form names published.
LEMMA NoticeStep == DataTypes /\ NoticesAreOut /\ [DataNext]_dataVars => NoticesAreOut'
  <1> SUFFICES ASSUME DataTypes, NoticesAreOut, [DataNext]_dataVars PROVE NoticesAreOut'
    OBVIOUS
  <1> USE NoNoticeIsNone DEF DataTypes, NoticesAreOut, Stages, Moves
  <1>1. ASSUME NEW v \in Notices, Publish(v) PROVE NoticesAreOut'
    BY <1>1 DEF Publish
  <1>2. ASSUME NEW v \in Notices, Retire(v) PROVE NoticesAreOut'
    BY <1>2 DEF Retire
  <1>3. CASE ReadNotice
    BY <1>3 DEF ReadNotice
  <1>4. ASSUME NEW p \in Posts, CheckNotice(p) PROVE NoticesAreOut'
    BY <1>4 DEF CheckNotice
  <1>5. ASSUME NEW p \in Posts,
               StoreChoice(p) \/ CommitChoice(p) \/ AnswerChoice(p) \/ ChoiceFails(p)
        PROVE  NoticesAreOut'
    BY <1>5 DEF StoreChoice, CommitChoice, AnswerChoice, ChoiceFails
  <1>6. CASE UNCHANGED dataVars
    BY <1>6 DEF dataVars
  <1> QED
    BY <1>1, <1>2, <1>3, <1>4, <1>5, <1>6 DEF DataNext

\* Between them the parts give the types.
LEMMA DataFollows == DataInv /\ NoticesAreOut => DataTypeOK
  <1> SUFFICES ASSUME DataInv, NoticesAreOut PROVE DataTypeOK
    OBVIOUS
  <1>1. /\ Cardinality(Posts) \in Nat /\ Clock \in Nat /\ Clock <= Cardinality(Posts)
    BY PostsAreFinite, ClockIsNatural, FS_Subset, FS_CardinalityType DEF Clock
  <1>2. time \in [Posts -> 0 .. Cardinality(Posts)]
    BY <1>1 DEF DataInv, DataTypes, TimesCount
  <1> QED
    BY <1>2 DEF DataInv, DataTypes, Stages, TimesCount, NoticesAreOut, DataTypeOK

\* The initial state of the account data is in the invariant.
LEMMA DataStarts == DataInit => DataInv /\ NoticesAreOut
  <1> SUFFICES ASSUME DataInit PROVE NoticesAreOut
    BY DataStart
  <1> QED
    BY NoNoticeIsNone DEF DataInit, NoticesAreOut

\* The last recorded choice is the one in force.
LEMMA ChoicesFollow == DataInv => LatestChoiceWins
  BY DEF DataInv, DataTypes, TimesCount, EarlierIsOlder, LatestChoiceWins, CurrentChoices, Rows

\* A choice that was answered is never in force again once a later one was
\* written (recordConsent, currentChoices).
THEOREM LatestChoiceWinsHolds == ComponentsSpec => []LatestChoiceWins
  <1>1. ComponentsInit => DataInv
    BY DataStart DEF ComponentsInit
  <1>2. DataInv /\ [ComponentsNext]_allVars => DataInv'
    BY DataStep, PartsMove
  <1>3. DataInv => LatestChoiceWins
    BY ChoicesFollow
  <1> QED
    BY <1>1, <1>2, <1>3, PTL DEF ComponentsSpec


-----------------------------------------------------------------------------
(* Migrations: the record is a prefix of the files unless a rollback overlaps *)

\* A run that is not under way is before its first look; one that takes a file
\* back has looked already; a file about to be applied exists.
RunLocals ==
    \A r \in Runners :
        /\ mode[r] = "idle" => stage[r] = "look" /\ file[r] = 1
        /\ mode[r] = "down" => stage[r] # "look" /\ file[r] \in Migrations
        /\ mode[r] = "up" /\ stage[r] # "look" => file[r] \in Migrations

\* As long as no rollback overlaps, the record is a prefix of the files, a run
\* that applies them is at most one file past it, and a rollback is alone and
\* at its end.
InOrder ==
    ~overlapped =>
        /\ recorded = [i \in 1 .. Len(recorded) |-> i]
        /\ \A r \in Runners : mode[r] = "up" => file[r] <= Len(recorded) + 1
        /\ \A r \in Runners : mode[r] = "down" =>
              Alone(r) /\ recorded # <<>> /\ file[r] = Last(recorded)

MigrateInv ==
    MigrateTypeOK /\ RunLocals /\ schema = ToSet(recorded) /\ InOrder

\* What appending a file that is not recorded does to the record.
LEMMA AppendRecord ==
  ASSUME NEW s \in Seq(Migrations), IsInjective(s), NEW f \in Migrations, f \notin ToSet(s)
  PROVE  /\ Append(s, f) \in Seq(Migrations) /\ IsInjective(Append(s, f))
         /\ ToSet(Append(s, f)) = ToSet(s) \cup {f}
         /\ Len(Append(s, f)) = Len(s) + 1
         /\ \A i \in 1 .. Len(s) : Append(s, f)[i] = s[i]
         /\ Append(s, f)[Len(s) + 1] = f
  <1> DEFINE t == Append(s, f)
  <1>1. /\ t \in Seq(Migrations) /\ Len(t) = Len(s) + 1
        /\ \A i \in 1 .. Len(s) : t[i] = s[i]
        /\ t[Len(s) + 1] = f
    BY AppendProperties
  <1>2. Len(s) \in Nat /\ DOMAIN s = 1 .. Len(s) /\ DOMAIN t = 1 .. Len(s) + 1
    BY <1>1, LenProperties
  <1> HIDE DEF t
  <1>3. \A i \in 1 .. Len(s) : s[i] \in ToSet(s)
    BY <1>2 DEF ToSet
  <1>4. IsInjective(t)
    <2> SUFFICES ASSUME NEW i \in 1 .. Len(s) + 1, NEW j \in 1 .. Len(s) + 1, t[i] = t[j]
                 PROVE  i = j
      BY <1>2 DEF IsInjective
    <2>1. CASE i \in 1 .. Len(s) /\ j \in 1 .. Len(s)
      BY <1>1, <1>2, <2>1 DEF IsInjective
    <2>2. CASE i = Len(s) + 1 \/ j = Len(s) + 1
      BY <1>1, <1>2, <1>3, <2>2
    <2> QED
      BY <1>2, <2>1, <2>2
  <1>5. ToSet(t) = ToSet(s) \cup {f}
    BY <1>1, <1>2 DEF ToSet
  <1> QED
    BY <1>1, <1>4, <1>5 DEF t

\* The rest of a sequence, from an element of it or from its end on.
LEMMA TailOf ==
  ASSUME NEW S, NEW s \in Seq(S), NEW m \in 1 .. Len(s) + 1
  PROVE  /\ SubSeq(s, m, Len(s)) \in Seq(S)
         /\ Len(SubSeq(s, m, Len(s))) = Len(s) - m + 1
         /\ \A i \in 1 .. Len(s) - m + 1 : SubSeq(s, m, Len(s))[i] = s[m + i - 1]
  <1>1. PICK n \in Nat : n = Len(s)
    BY LenProperties
  <1>2. m \in Int /\ n \in Int /\ \A i \in m .. n : s[i] \in S
    BY <1>1, LenProperties
  <1>3. /\ SubSeq(s, m, n) \in Seq(S)
        /\ Len(SubSeq(s, m, n)) = IF m <= n THEN n - m + 1 ELSE 0
        /\ \A i \in 1 .. n - m + 1 : SubSeq(s, m, n)[i] = s[m + i - 1]
    BY <1>2, SubSeqProperties
  <1>4. (IF m <= n THEN n - m + 1 ELSE 0) = n - m + 1
    BY <1>1, <1>2
  <1> QED
    BY <1>1, <1>3, <1>4

\* What removing a file does to the record, and to one in order whose last
\* file it is.
LEMMA RemoveRecord ==
  ASSUME NEW s \in Seq(Migrations), IsInjective(s), NEW f
  PROVE  /\ RemoveFirst(s, f) \in Seq(Migrations) /\ IsInjective(RemoveFirst(s, f))
         /\ ToSet(RemoveFirst(s, f)) = ToSet(s) \ {f}
         /\ s # <<>> /\ f = Last(s) =>
              /\ Len(RemoveFirst(s, f)) = Len(s) - 1
              /\ \A i \in 1 .. Len(s) - 1 : RemoveFirst(s, f)[i] = s[i]
  <1>1. Len(s) \in Nat /\ DOMAIN s = 1 .. Len(s) /\ \A i \in 1 .. Len(s) : s[i] \in Migrations
    BY LenProperties
  <1>2. CASE f \notin ToSet(s)
    <2>1. ~\E i \in 1 .. Len(s) : s[i] = f
      BY <1>1, <1>2 DEF ToSet
    <2>2. RemoveFirst(s, f) = s
      BY <2>1 DEF RemoveFirst
    <2>3. s # <<>> => f # Last(s)
      BY <1>1, <2>1, EmptySeq DEF Last
    <2> QED
      BY <1>2, <2>2, <2>3
  <1>3. CASE f \in ToSet(s)
    <2>1. PICK p \in 1 .. Len(s) : s[p] = f
      BY <1>1, <1>3 DEF ToSet
    <2>2. \A i \in 1 .. Len(s) : s[i] = f <=> i = p
      BY <1>1, <2>1 DEF IsInjective
    <2>3. SelectInSeq(s, LAMBDA v : v = f) = p
      <3>1. {i \in 1 .. Len(s) : s[i] = f} = {p}
        BY <2>2
      <3>2. Min({p}) = p
        BY <1>1 DEF Min
      <3> QED
        BY <3>1, <3>2 DEF SelectInSeq
    <2> DEFINE a == SubSeq(s, 1, p - 1)
               b == SubSeq(s, p + 1, Len(s))
               t == RemoveFirst(s, f)
    <2>4. t = a \o b
      BY <2>1, <2>3 DEF RemoveFirst, RemoveAt
    <2>5. /\ a \in Seq(Migrations) /\ Len(a) = p - 1
          /\ \A i \in 1 .. p - 1 : a[i] = s[i]
      BY <1>1, SubSeqProperties
    <2>6. /\ b \in Seq(Migrations) /\ Len(b) = Len(s) - p
          /\ \A i \in 1 .. Len(s) - p : b[i] = s[p + i]
      <3> HIDE DEF a, b, t
      <3>1. PICK m \in Int : m = p + 1
        BY <1>1
      <3>2. b = SubSeq(s, m, Len(s)) /\ m \in 1 .. Len(s) + 1
        BY <1>1, <3>1 DEF b
      <3>3. /\ b \in Seq(Migrations) /\ Len(b) = Len(s) - m + 1
            /\ \A i \in 1 .. Len(s) - m + 1 : b[i] = s[m + i - 1]
        BY <3>2, TailOf
      <3> QED
        BY <1>1, <3>1, <3>3
    <2>7. /\ t \in Seq(Migrations) /\ Len(t) = Len(s) - 1
          /\ \A i \in 1 .. Len(s) - 1 : t[i] = IF i < p THEN s[i] ELSE s[i + 1]
      <3> HIDE DEF a, b, t
      <3>1. /\ t \in Seq(Migrations) /\ Len(t) = (p - 1) + (Len(s) - p)
            /\ \A i \in 1 .. Len(a) + Len(b) :
                  t[i] = IF i <= Len(a) THEN a[i] ELSE b[i - Len(a)]
        <4>1. a \in Seq(Migrations) /\ b \in Seq(Migrations)
          BY <2>5, <2>6
        <4>2. /\ a \o b \in Seq(Migrations)
              /\ Len(a \o b) = Len(a) + Len(b)
              /\ \A i \in 1 .. Len(a) + Len(b) :
                    (a \o b)[i] = IF i <= Len(a) THEN a[i] ELSE b[i - Len(a)]
          BY <4>1, ConcatProperties
        <4> QED
          BY <2>4, <2>5, <2>6, <4>2
      <3>2. Len(a) + Len(b) = Len(s) - 1
        BY <1>1, <2>5, <2>6
      <3>3. ASSUME NEW i \in 1 .. Len(s) - 1
            PROVE  t[i] = IF i < p THEN s[i] ELSE s[i + 1]
        <4>1. t[i] = IF i <= p - 1 THEN a[i] ELSE b[i - (p - 1)]
          BY <1>1, <2>5, <3>1, <3>2, <3>3
        <4>2. CASE i < p
          BY <1>1, <2>5, <4>1, <4>2
        <4>3. CASE i >= p
          <5>1. i - (p - 1) \in 1 .. Len(s) - p /\ p + (i - (p - 1)) = i + 1
            BY <1>1, <4>3
          <5> QED
            BY <1>1, <2>6, <4>1, <4>3, <5>1
        <4> QED
          BY <1>1, <4>2, <4>3
      <3> QED
        BY <1>1, <3>1, <3>2, <3>3
    <2> HIDE DEF a, b, t
    <2>8. DOMAIN t = 1 .. Len(s) - 1
      BY <2>7, LenProperties
    <2>9. IsInjective(t)
      BY <1>1, <2>7, <2>8 DEF IsInjective
    <2>10. ToSet(t) = ToSet(s) \ {f}
      <3>1. ASSUME NEW v \in ToSet(t) PROVE v \in ToSet(s) \ {f}
        <4>1. PICK i \in 1 .. Len(s) - 1 : t[i] = v
          BY <2>8 DEF ToSet
        <4>2. CASE i < p
          <5>1. i \in 1 .. Len(s) /\ i # p /\ s[i] = v
            BY <1>1, <2>7, <4>1, <4>2
          <5> QED
            BY <1>1, <2>2, <5>1 DEF ToSet
        <4>3. CASE i >= p
          <5>1. i + 1 \in 1 .. Len(s) /\ i + 1 # p /\ s[i + 1] = v
            BY <1>1, <2>7, <4>1, <4>3
          <5> QED
            BY <1>1, <2>2, <5>1 DEF ToSet
        <4> QED
          BY <1>1, <4>2, <4>3
      <3>2. ASSUME NEW v \in ToSet(s) \ {f} PROVE v \in ToSet(t)
        <4>1. PICK i \in 1 .. Len(s) : s[i] = v
          BY <1>1 DEF ToSet
        <4>2. i # p
          BY <2>1, <4>1
        <4>3. CASE i < p
          <5>1. i \in 1 .. Len(s) - 1 /\ t[i] = v
            BY <1>1, <2>7, <4>1, <4>3
          <5> QED
            BY <2>8, <5>1 DEF ToSet
        <4>4. CASE i > p
          <5>1. i - 1 \in 1 .. Len(s) - 1 /\ t[i - 1] = v
            BY <1>1, <2>7, <4>1, <4>4
          <5> QED
            BY <2>8, <5>1 DEF ToSet
        <4> QED
          BY <1>1, <4>2, <4>3, <4>4
      <3> QED
        BY <3>1, <3>2
    <2>11. s # <<>> /\ f = Last(s) => \A i \in 1 .. Len(s) - 1 : t[i] = s[i]
      BY <1>1, <2>2, <2>7, EmptySeq DEF Last
    <2> QED
      BY <2>7, <2>9, <2>10, <2>11 DEF t
  <1> QED
    BY <1>2, <1>3

\* Nothing is recorded at first.
LEMMA MigrateStart == MigrateInit => MigrateInv
  <1> SUFFICES ASSUME MigrateInit PROVE MigrateInv
    OBVIOUS
  <1> USE DEF MigrateInit
  <1>1. MigrateTypeOK
    <2>1. recorded \in Seq(Migrations) /\ IsInjective(recorded)
      BY DEF IsInjective
    <2>2. file \in [Runners -> 1 .. LastFile + 1]
      BY SomeFile
    <2> QED
      BY <2>1, <2>2 DEF MigrateTypeOK
  <1>2. RunLocals
    BY DEF RunLocals
  <1>3. schema = ToSet(recorded)
    BY DEF ToSet
  <1>4. InOrder
    <2>1. Len(recorded) = 0
      BY EmptySeq
    <2>2. recorded = [i \in 1 .. Len(recorded) |-> i]
      BY <2>1
    <2> QED
      BY <2>2 DEF InOrder
  <1> QED
    BY <1>1, <1>2, <1>3, <1>4 DEF MigrateInv

\* A run that ends leaves what the record says alone.
LEMMA EndKeeps ==
    ASSUME MigrateInv, NEW r \in Runners, Ends(r),
           UNCHANGED <<recorded, schema, overlapped>>
    PROVE  MigrateInv'
  <1> USE DEF MigrateInv, Ends, Reaches
  <1>1. /\ mode' \in [Runners -> {"idle", "up", "down"}]
        /\ file' \in [Runners -> 1 .. LastFile + 1]
        /\ stage' \in [Runners -> {"look", "begin", "ddl"}]
    BY SomeFile DEF MigrateTypeOK
  <1>2. /\ mode'[r] = "idle" /\ stage'[r] = "look" /\ file'[r] = 1
        /\ \A s \in Runners \ {r} :
              mode'[s] = mode[s] /\ file'[s] = file[s] /\ stage'[s] = stage[s]
    BY DEF MigrateTypeOK
  <1>3. MigrateTypeOK'
    BY <1>1, <1>2 DEF MigrateTypeOK
  <1>4. RunLocals'
    BY <1>2 DEF RunLocals
  <1>5. InOrder'
    BY <1>2 DEF InOrder, Alone
  <1> QED
    BY <1>3, <1>4, <1>5

\* A file that is applied is the next one of the record.
LEMMA CommitKeeps ==
    ASSUME MigrateInv, NEW r \in Runners, Commit(r)
    PROVE  MigrateInv'
  <1> USE DEF MigrateInv, Commit, Reaches
  <1>1. file[r] \in Migrations /\ file[r] \notin ToSet(recorded)
    BY DEF RunLocals, Recorded
  <1>2. /\ recorded' \in Seq(Migrations) /\ IsInjective(recorded')
        /\ ToSet(recorded') = ToSet(recorded) \cup {file[r]}
        /\ Len(recorded') = Len(recorded) + 1
        /\ \A i \in 1 .. Len(recorded) : recorded'[i] = recorded[i]
        /\ recorded'[Len(recorded) + 1] = file[r]
    BY <1>1, AppendRecord DEF MigrateTypeOK
  <1>3. /\ mode' = mode /\ file' \in [Runners -> 1 .. LastFile + 1]
        /\ stage' \in [Runners -> {"look", "begin", "ddl"}]
    BY <1>1, SomeFile DEF MigrateTypeOK, Migrations
  <1>4. /\ file'[r] = file[r] + 1 /\ stage'[r] = "look"
        /\ \A s \in Runners \ {r} : file'[s] = file[s] /\ stage'[s] = stage[s]
    BY DEF MigrateTypeOK
  <1>5. Len(recorded) \in Nat /\ DOMAIN recorded' = 1 .. Len(recorded) + 1
    BY <1>2, LenProperties DEF MigrateTypeOK
  <1>6. MigrateTypeOK'
    BY <1>1, <1>2, <1>3, <1>4 DEF MigrateTypeOK
  <1>7. RunLocals'
    BY <1>3, <1>4 DEF RunLocals
  <1>8. InOrder'
    <2> SUFFICES ASSUME ~overlapped
                 PROVE  /\ recorded' = [i \in 1 .. Len(recorded') |-> i]
                        /\ \A s \in Runners : mode'[s] = "up" => file'[s] <= Len(recorded') + 1
                        /\ \A s \in Runners : mode'[s] # "down"
      BY <1>3 DEF InOrder
    <2>1. file[r] = Len(recorded) + 1
      <3>1. file[r] <= Len(recorded) + 1 /\ recorded = [i \in 1 .. Len(recorded) |-> i]
        BY DEF InOrder
      <3>2. \A i \in 1 .. Len(recorded) : i \in ToSet(recorded)
        BY <3>1, <1>5 DEF ToSet
      <3> QED
        BY <1>1, <1>5, <3>1, <3>2 DEF Migrations
    <2>2. recorded' = [i \in 1 .. Len(recorded') |-> i]
      <3>1. \A i \in 1 .. Len(recorded) : recorded[i] = i
        BY <1>5 DEF InOrder
      <3>2. \A i \in 1 .. Len(recorded) + 1 : recorded'[i] = i
        BY <1>2, <1>5, <2>1, <3>1
      <3>3. recorded' = [i \in DOMAIN recorded' |-> recorded'[i]]
        BY <1>2
      <3> QED
        BY <1>2, <1>5, <3>2, <3>3
    <2>3. \A s \in Runners : mode'[s] = "up" => file'[s] <= Len(recorded') + 1
      BY <1>2, <1>3, <1>4, <1>5, <2>1 DEF InOrder, MigrateTypeOK
    <2>4. \A s \in Runners : mode'[s] # "down"
      BY <1>3 DEF InOrder, Alone
    <2> QED
      BY <2>2, <2>3, <2>4
  <1> QED
    BY <1>2, <1>6, <1>7, <1>8

\* A file that is taken back is the last one of the record.
LEMMA CommitDownKeeps ==
    ASSUME MigrateInv, NEW r \in Runners, CommitDown(r)
    PROVE  MigrateInv'
  <1> USE DEF MigrateInv, CommitDown, Ends, Reaches
  <1>1. /\ recorded' \in Seq(Migrations) /\ IsInjective(recorded')
        /\ ToSet(recorded') = ToSet(recorded) \ {file[r]}
        /\ recorded # <<>> /\ file[r] = Last(recorded) =>
              /\ Len(recorded') = Len(recorded) - 1
              /\ \A i \in 1 .. Len(recorded) - 1 : recorded'[i] = recorded[i]
    BY RemoveRecord DEF MigrateTypeOK
  <1>2. /\ mode' \in [Runners -> {"idle", "up", "down"}]
        /\ file' \in [Runners -> 1 .. LastFile + 1]
        /\ stage' \in [Runners -> {"look", "begin", "ddl"}]
    BY SomeFile DEF MigrateTypeOK
  <1>3. /\ mode'[r] = "idle" /\ stage'[r] = "look" /\ file'[r] = 1
        /\ \A s \in Runners \ {r} :
              mode'[s] = mode[s] /\ file'[s] = file[s] /\ stage'[s] = stage[s]
    BY DEF MigrateTypeOK
  <1>4. MigrateTypeOK'
    BY <1>1, <1>2, <1>3 DEF MigrateTypeOK
  <1>5. RunLocals'
    BY <1>3 DEF RunLocals
  <1>6. InOrder'
    <2> SUFFICES ASSUME ~overlapped
                 PROVE  /\ recorded' = [i \in 1 .. Len(recorded') |-> i]
                        /\ \A s \in Runners : mode'[s] = "idle"
      BY DEF InOrder
    <2>1. Alone(r) /\ recorded # <<>> /\ file[r] = Last(recorded)
      BY DEF InOrder
    <2>2. \A s \in Runners : mode'[s] = "idle"
      BY <1>3, <2>1 DEF Alone
    <2>3. /\ Len(recorded) \in Nat /\ DOMAIN recorded = 1 .. Len(recorded)
          /\ DOMAIN recorded' = 1 .. Len(recorded) - 1
      BY <1>1, <2>1, LenProperties DEF MigrateTypeOK
    <2>4. recorded' = [i \in 1 .. Len(recorded') |-> i]
      <3>1. \A i \in 1 .. Len(recorded) : recorded[i] = i
        BY <2>3 DEF InOrder
      <3>2. \A i \in 1 .. Len(recorded) - 1 : recorded'[i] = i
        BY <1>1, <2>1, <2>3, <3>1
      <3>3. recorded' = [i \in DOMAIN recorded' |-> recorded'[i]]
        BY <1>1
      <3> QED
        BY <1>1, <2>1, <2>3, <3>2, <3>3
    <2> QED
      BY <2>2, <2>4
  <1> QED
    BY <1>1, <1>4, <1>5, <1>6

\* Every step keeps the invariant.
LEMMA MigrateStep == MigrateInv /\ [MigrateNext]_migrateVars => MigrateInv'
  <1> SUFFICES ASSUME MigrateInv, [MigrateNext]_migrateVars PROVE MigrateInv'
    OBVIOUS
  <1> USE DEF MigrateInv, Reaches
  <1>0. Len(recorded) \in Nat /\ DOMAIN recorded = 1 .. Len(recorded)
    BY LenProperties DEF MigrateTypeOK
  <1>1. ASSUME NEW r \in Runners, BeginUp(r) PROVE MigrateInv'
    <2> USE <1>1 DEF BeginUp
    <2>1. MigrateTypeOK' /\ schema' = ToSet(recorded')
      BY DEF MigrateTypeOK
    <2>2. RunLocals'
      BY DEF MigrateTypeOK, RunLocals
    <2>3. InOrder'
      <3> SUFFICES ASSUME ~overlapped' PROVE InOrder'
        BY DEF InOrder
      <3>1. ~overlapped /\ \A s \in Runners : mode[s] # "down"
        BY DEF MigrateTypeOK
      <3>2. \A s \in Runners : mode'[s] # "down"
        BY <3>1 DEF MigrateTypeOK
      <3>3. file[r] <= Len(recorded) + 1
        BY <1>0 DEF RunLocals
      <3>4. /\ recorded = [i \in 1 .. Len(recorded) |-> i]
            /\ \A s \in Runners : mode[s] = "up" => file[s] <= Len(recorded) + 1
        BY <3>1 DEF InOrder
      <3>5. \A s \in Runners : mode'[s] = "up" => s = r \/ mode[s] = "up"
        BY DEF MigrateTypeOK
      <3> QED
        BY <3>2, <3>3, <3>4, <3>5 DEF InOrder
    <2> QED
      BY <2>1, <2>2, <2>3
  <1>2. ASSUME NEW r \in Runners, BeginDown(r) PROVE MigrateInv'
    <2> USE <1>2 DEF BeginDown
    <2>1. Last(recorded) \in Migrations
      <3>1. Len(recorded) \in 1 .. Len(recorded)
        BY <1>0, EmptySeq DEF MigrateTypeOK
      <3> QED
        BY <3>1, LenProperties DEF MigrateTypeOK, Last
    <2>2. MigrateTypeOK' /\ schema' = ToSet(recorded')
      BY <2>1, SomeFile DEF MigrateTypeOK, Migrations
    <2>3. RunLocals'
      BY <2>1 DEF MigrateTypeOK, RunLocals
    <2>4. InOrder'
      BY DEF MigrateTypeOK, InOrder, Alone
    <2> QED
      BY <2>2, <2>3, <2>4
  <1>3. ASSUME NEW r \in Runners, Look(r) PROVE MigrateInv'
    <2> USE <1>3 DEF Look
    <2>1. MigrateTypeOK' /\ schema' = ToSet(recorded')
      <3>1. stage' \in [Runners -> {"look", "begin", "ddl"}]
        BY DEF MigrateTypeOK
      <3>2. file' \in [Runners -> 1 .. LastFile + 1]
        BY SomeFile DEF MigrateTypeOK
      <3>3. \A s, q \in Runners : stage'[s] = "ddl" /\ stage'[q] = "ddl" => s = q
        BY DEF MigrateTypeOK
      <3> QED
        BY <3>1, <3>2, <3>3 DEF MigrateTypeOK
    <2>2. RunLocals'
      <3>1. file[r] \in Migrations
        BY SomeFile DEF MigrateTypeOK, Migrations
      <3>2. /\ mode' = mode /\ \A s \in Runners \ {r} : file'[s] = file[s] /\ stage'[s] = stage[s]
            /\ stage'[r] # "look" => file'[r] = file[r]
        BY DEF MigrateTypeOK
      <3> QED
        BY <3>1, <3>2 DEF RunLocals
    <2>3. InOrder'
      <3>1. CASE Recorded(file[r])
        <4> SUFFICES ASSUME ~overlapped PROVE InOrder'
          BY DEF InOrder
        <4>1. \A i \in 1 .. Len(recorded) : recorded[i] = i
          BY <1>0 DEF InOrder
        <4>2. file[r] <= Len(recorded) /\ file[r] \in Nat
          BY <1>0, <3>1, <4>1 DEF Recorded, ToSet
        <4>3. /\ file'[r] = file[r] + 1
              /\ \A s \in Runners \ {r} : file'[s] = file[s]
          BY <3>1 DEF MigrateTypeOK
        <4>4. \A s \in Runners : mode[s] = "up" => file'[s] <= Len(recorded) + 1
          BY <1>0, <4>2, <4>3 DEF InOrder
        <4>5. \A s \in Runners : mode[s] = "down" => s # r
          OBVIOUS
        <4> QED
          BY <4>3, <4>4, <4>5 DEF InOrder, Alone
      <3>2. CASE ~Recorded(file[r])
        BY <3>2 DEF MigrateTypeOK, InOrder, Alone
      <3> QED
        BY <3>1, <3>2
    <2> QED
      BY <2>1, <2>2, <2>3
  <1>4. ASSUME NEW r \in Runners, Begin(r) PROVE MigrateInv'
    BY <1>4 DEF Begin, MigrateTypeOK, RunLocals, InOrder, Alone
  <1>5. ASSUME NEW r \in Runners, Commit(r) PROVE MigrateInv'
    BY <1>5, CommitKeeps
  <1>6. ASSUME NEW r \in Runners, CommitDown(r) PROVE MigrateInv'
    BY <1>6, CommitDownKeeps
  <1>7. ASSUME NEW r \in Runners, Fails(r) \/ Finishes(r) PROVE MigrateInv'
    BY <1>7, EndKeeps DEF Fails, Finishes
  <1>8. CASE UNCHANGED migrateVars
    BY <1>8 DEF migrateVars, MigrateTypeOK, RunLocals, InOrder, Alone
  <1> QED
    BY <1>1, <1>2, <1>3, <1>4, <1>5, <1>6, <1>7, <1>8 DEF MigrateNext

\* A schema that is there is recorded.
LEMMA SchemaFollows == MigrateInv => SchemaIsRecorded
  BY DEF MigrateInv, InOrder, SchemaIsRecorded

\* However many runners apply or take back the files, the record says what the
\* schema holds, in order and without a gap unless a rollback overlapped (apply,
\* rollback).
THEOREM SchemaIsRecordedAlways == ComponentsSpec => []SchemaIsRecorded
  <1>1. ComponentsInit => MigrateInv
    BY MigrateStart DEF ComponentsInit
  <1>2. MigrateInv /\ [ComponentsNext]_allVars => MigrateInv'
    BY MigrateStep, PartsMove
  <1>3. MigrateInv => SchemaIsRecorded
    BY SchemaFollows
  <1> QED
    BY <1>1, <1>2, <1>3, PTL DEF ComponentsSpec


-----------------------------------------------------------------------------
(* Settings: what validateEnvironment lets through works where it is used *)

\* An environment differs from the defaults where Environments says it may; the
\* amounts of its durations are natural numbers.
LEMMA AmountsAreNatural ==
    ASSUME NEW e \in Environments, NEW n \in DOMAIN Durations
    PROVE  e.duration[n] = Unset \/ e.duration[n][1] \in Nat
  <1>1. Defaults.duration[n] = Unset
    BY DEF Defaults
  <1>2. CASE e \in Secrets
    <2>1. PICK x \in {Unset, "production", "test", "other"}, j \in {Unset, 31, 32},
               l \in {Unset, 31, 32} : e = With(x, j, l)
      BY <1>2 DEF Secrets
    <2>2. e.duration = Defaults.duration
      BY <2>1 DEF With, Defaults
    <2> QED
      BY <1>1, <2>2
  <1>3. CASE e \in Units
    BY <1>1, <1>3 DEF Units, Defaults
  <1>4. CASE e \in Bounds
    <2>1. PICK k \in DOMAIN Numbers : \E v \in Around(k) : e = [Defaults EXCEPT !.number[k] = v]
      BY <1>4, Zenon DEF Bounds
    <2> QED
      BY <1>1, <2>1 DEF Defaults
  <1>5. CASE e \in Times
    <2>1. PICK k \in DOMAIN Durations, a \in {0, 1}, u \in {"s", "m", "h", "d", "w"} :
             e = [Defaults EXCEPT !.duration[k] = <<a, u>>]
      BY <1>5 DEF Times
    <2>2. e.duration = [Defaults.duration EXCEPT ![k] = <<a, u>>]
      BY <2>1 DEF Defaults
    <2>3. e.duration[n] = Unset \/ e.duration[n] = <<a, u>>
      BY <1>1, <2>2 DEF Defaults
    <2> QED
      BY <2>3
  <1>6. CASE e \in Texts
    BY <1>1, <1>6 DEF Texts, Defaults
  <1> QED
    BY <1>2, <1>3, <1>4, <1>5, <1>6 DEF Environments

\* The numbers that validateEnvironment lets through are not empty.
LEMMA BoundsArePositive ==
    ASSUME NEW n \in DOMAIN Numbers, NEW v, Bounded(n, v)
    PROVE  Or(v, Numbers[n][3]) > 0
  <1>1. Numbers[n][1] \in Nat \ {0} /\ Numbers[n][2] \in Nat
    BY DEF Numbers
  <1> QED
    BY <1>1 DEF Bounded

\* What Valid accepts works.
LEMMA ValidWorks ==
    ASSUME given \in Environments, Valid
    PROVE  SettingsWork
  <1>1. NodeEnv # "test" => Settings.jwtSecret >= 32
    BY DEF Valid, Settings
  <1>2. Settings.limiterSecret >= 32
    BY DEF Valid, Settings
  <1>3. ASSUME NEW n \in DOMAIN Durations PROVE Convertible(Settings.duration[n])
    <2>1. Settings.duration[n] = Or(given.duration[n], Durations[n])
      BY DEF Settings
    <2>2. Or(given.duration[n], Durations[n])[2] \in {"m", "h", "d"}
      BY DEF Valid, DurationUnits
    <2>3. Durations[n][1] \in Nat
      BY DEF Durations
    <2>4. Or(given.duration[n], Durations[n])[1] \in Nat
      BY <2>3, AmountsAreNatural DEF Or
    <2>5. DOMAIN MinutesPer = {"m", "h", "d"} /\ \A u \in {"m", "h", "d"} : MinutesPer[u] \in Nat
      BY DEF MinutesPer
    <2> QED
      BY <2>1, <2>2, <2>4, <2>5 DEF Convertible
  <1>4. ASSUME NEW n \in DOMAIN Numbers PROVE Settings.number[n] > 0
    <2>1. Settings.number[n] = Or(given.number[n], Numbers[n][3])
      BY DEF Settings
    <2> QED
      BY <2>1, BoundsArePositive DEF Valid
  <1> QED
    BY <1>1, <1>2, <1>3, <1>4 DEF SettingsWork

EnvironmentInv ==
    /\ given \in Environments
    /\ started \in {"no", "refused", "running"}
    /\ started = "running" => Valid

\* The service only runs with settings that passed the validation.
LEMMA EnvironmentStep == EnvironmentInv /\ [EnvironmentNext]_environmentVars => EnvironmentInv'
  <1> SUFFICES ASSUME EnvironmentInv, [EnvironmentNext]_environmentVars PROVE EnvironmentInv'
    OBVIOUS
  <1>1. given' = given
    BY DEF EnvironmentNext, environmentVars
  <1>2. Valid' = Valid
    BY <1>1 DEF Valid, NodeEnv, LimiterSecret
  <1> QED
    BY <1>1, <1>2 DEF EnvironmentInv, EnvironmentNext, environmentVars

\* A service that started has settings it can work with.
LEMMA EnvironmentFollows == EnvironmentInv => SettingsWork
  BY ValidWorks DEF EnvironmentInv, SettingsWork

=============================================================================
