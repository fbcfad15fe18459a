--------------------------- MODULE CorrelatorProofs ---------------------------
(***************************************************************************)
(* What Correlator promises for every set of rules, windows, thresholds,   *)
(* timestamps and events.  The windows and the history of alerts are tied  *)
(* together by WindowInv, the strengthening that makes the three safety    *)
(* properties inductive.                                                   *)
(***************************************************************************)
EXTENDS Correlator, FiniteSetTheorems, TLAPS

(* A key the log hit is tracked, and its window holds only its own events.  *)
WindowHoldsHits ==
    /\ \A i \in DOMAIN log : Touched(log[i]) \subseteq DOMAIN state
    /\ \A sk \in DOMAIN state : state[sk].times \subseteq HitsOf(sk)

(* While a key's events come in order, its window has lost none of them that *)
(* a later event of the key could still count.                               *)
WindowComplete ==
    \A sk \in DOMAIN state :
        InOrderUpTo(sk, Len(log)) =>
            \A i \in HitsOf(sk) :
                (\A j \in HitsOf(sk) : log[i].ts >= log[j].ts - Window[sk[1]])
                    => i \in state[sk].times

(* firedAt is the timestamp of an alert of the key, and of its latest one.  *)
FiredAtIsLatest ==
    /\ \A a \in alerts : /\ state[a.sk].firedAt # Never
                         /\ log[a.at].ts <= state[a.sk].firedAt
    /\ \A sk \in DOMAIN state : state[sk].firedAt # Never =>
           \E a \in alerts : a.sk = sk /\ log[a.at].ts = state[sk].firedAt

WindowInv ==
    /\ TypeOK
    /\ \A sk \in DOMAIN state : sk[1] \in Rules
    /\ WindowHoldsHits
    /\ WindowComplete
    /\ FiredAtIsLatest

-----------------------------------------------------------------------------
(* The least count of a rule is a number. *)
LEMMA ThresholdNat == \A r \in Rules : CountThreshold(r) \in Int
<1> SUFFICES ASSUME NEW r \in Rules PROVE CountThreshold(r) \in Int
  OBVIOUS
<1>1. Condition[r] \in Conditions
  BY CorrelatorAssumption
<1>2. CASE Condition[r].kind = "count"
  <2>1. Condition[r].n \in Nat
    BY <1>1, <1>2 DEF Conditions
  <2>2. QED
    BY <1>2, <2>1 DEF CountThreshold, ConditionMin
<1>3. CASE Condition[r].kind # "count"
  BY <1>3 DEF CountThreshold
<1>4. QED
  BY <1>2, <1>3

(* A state key that an event touches is a rule's. *)
LEMMA TouchedRule == \A e : \A sk \in Touched(e) : sk[1] \in Rules
BY DEF Touched, StateKey

(* What one call of Observe does to the variables, with its LETs resolved.   *)
LEMMA ObserveStep ==
    ASSUME TypeOK, NEW e \in Event, Observe(e)
    PROVE  /\ log' = Append(log, e)
           /\ DOMAIN log' = DOMAIN log \union {Len(log) + 1}
           /\ Len(log) + 1 \notin DOMAIN log
           /\ Len(log') = Len(log) + 1
           /\ log'[Len(log) + 1] = e
           /\ \A i \in DOMAIN log : log'[i] = log[i] /\ i <= Len(log)
           /\ DOMAIN state' = DOMAIN state \union Touched(e)
           /\ \A sk \in Touched(e) : state'[sk] = NextWindow(sk, Stamps(log'), e.ts)
           /\ \A sk \in DOMAIN state \ Touched(e) : state'[sk] = state[sk]
           /\ alerts' = alerts \union
                {[sk |-> sk, at |-> Len(log) + 1] : sk \in
                   {k \in Touched(e) : Fires(k[1], Slid(k, Stamps(log'), e.ts),
                                             WinOf(k).firedAt, e.ts)}}
<1> DEFINE n == Len(log) + 1
           after == [sk \in Touched(e) |-> NextWindow(sk, Stamps(log'), e.ts)]
<1>1. log' = Append(log, e)
  BY DEF Observe
<1>2. /\ Len(log) \in Nat /\ DOMAIN log = 1 .. Len(log)
      /\ Len(log') = n /\ DOMAIN log' = 1 .. n
      /\ log'[n] = e
      /\ \A i \in 1 .. Len(log) : log'[i] = log[i]
  BY <1>1 DEF TypeOK
<1>3. e.ts \in Int /\ Stamps(log')[n] = e.ts
  <2>1. e.ts \in Int
    <3>1. Times \subseteq Int
      BY CorrelatorAssumption
    <3>2. e.ts \in Times
      BY DEF Event
    <3>3. QED
      BY <3>1, <3>2
  <2>2. n \in DOMAIN log'
    BY <1>2
  <2>3. QED
    BY <1>2, <2>1, <2>2 DEF Stamps
<1>4. ASSUME NEW sk \in Touched(e) PROVE n \in after[sk].times
  <2>1. Window[sk[1]] \in Nat
    BY TouchedRule, CorrelatorAssumption
  <2>2. Stamps(log')[n] >= e.ts - Window[sk[1]]
    BY <1>3, <2>1
  <2>3. n \in PruneWindow(WinOf(sk).times \union {n}, Stamps(log'), e.ts, Window[sk[1]])
    BY <2>2 DEF PruneWindow
  <2>4. QED
    BY <2>3 DEF NextWindow, Slid
<1>5. {sk \in DOMAIN state \union Touched(e) : sk \in Touched(e) => after[sk].times # {}}
        = DOMAIN state \union Touched(e)
  BY <1>4
<1>6. state' = [sk \in DOMAIN state \union Touched(e) |->
                    IF sk \in Touched(e) THEN after[sk] ELSE state[sk]]
  BY <1>1, <1>5 DEF Observe
<1>7. DOMAIN state' = DOMAIN state \union Touched(e)
  BY <1>6
<1>8. \A sk \in Touched(e) : state'[sk] = NextWindow(sk, Stamps(log'), e.ts)
  BY <1>6
<1>9. \A sk \in DOMAIN state \ Touched(e) : state'[sk] = state[sk]
  BY <1>6
<1>10. alerts' = alerts \union
                {[sk |-> sk, at |-> Len(log) + 1] : sk \in
                   {k \in Touched(e) : Fires(k[1], Slid(k, Stamps(log'), e.ts),
                                             WinOf(k).firedAt, e.ts)}}
  BY <1>1 DEF Observe
<1>11. QED
  BY <1>1, <1>2, <1>7, <1>8, <1>9, <1>10

-----------------------------------------------------------------------------
(* The events of a key after a step: those before it, and the new one if it  *)
(* touches the key.                                                          *)
LEMMA HitsAfter ==
    ASSUME TypeOK, NEW e \in Event, Observe(e), NEW sk
    PROVE  HitsOf(sk)' = HitsOf(sk) \union
                            (IF sk \in Touched(e) THEN {Len(log) + 1} ELSE {})
BY ObserveStep DEF HitsOf

(* The window of a touched key after a step. *)
LEMMA WindowAfter ==
    ASSUME WindowInv, NEW e \in Event, Observe(e), NEW sk \in Touched(e)
    PROVE  /\ WinOf(sk) = IF sk \in DOMAIN state THEN state[sk] ELSE EmptyWindow
           /\ WinOf(sk).times \subseteq HitsOf(sk)
           /\ WinOf(sk).firedAt \in Times \union {Never}
           /\ Slid(sk, Stamps(log'), e.ts) =
                {i \in WinOf(sk).times \union {Len(log) + 1} :
                    log'[i].ts >= e.ts - Window[sk[1]]}
           /\ state'[sk].times = Slid(sk, Stamps(log'), e.ts)
           /\ state'[sk].firedAt =
                IF Fires(sk[1], Slid(sk, Stamps(log'), e.ts), WinOf(sk).firedAt, e.ts)
                THEN e.ts ELSE WinOf(sk).firedAt
<1> USE DEF WindowInv
<1>1. /\ WinOf(sk).times \subseteq HitsOf(sk)
      /\ WinOf(sk).firedAt \in Times \union {Never}
  BY DEF WinOf, EmptyWindow, WindowHoldsHits, TypeOK, Win
<1>2. WinOf(sk).times \union {Len(log) + 1} \subseteq DOMAIN log'
  BY <1>1, ObserveStep DEF HitsOf
<1>3. Slid(sk, Stamps(log'), e.ts) =
        {i \in WinOf(sk).times \union {Len(log) + 1} :
            log'[i].ts >= e.ts - Window[sk[1]]}
  BY <1>2 DEF Slid, PruneWindow, Stamps
<1>4. state'[sk] = NextWindow(sk, Stamps(log'), e.ts)
  BY ObserveStep
<1>5. QED
  BY <1>1, <1>3, <1>4 DEF WinOf, NextWindow

(* The inductive invariant holds before the first event ... *)
LEMMA WindowInvInit == Init => WindowInv
BY DEF Init, WindowInv, TypeOK, WindowHoldsHits, WindowComplete, FiredAtIsLatest

(* ... and every call of Observe preserves it. *)
LEMMA WindowInvNext == WindowInv /\ [Next]_vars => WindowInv'
<1> SUFFICES ASSUME WindowInv, [Next]_vars PROVE WindowInv'
  OBVIOUS
<1>1. CASE UNCHANGED vars
  BY <1>1 DEF vars, WindowInv, TypeOK, WindowHoldsHits, WindowComplete,
     FiredAtIsLatest, HitsOf, InOrderUpTo, Win
<1>2. ASSUME NEW e \in Event, Observe(e) PROVE WindowInv'
  <2> DEFINE n == Len(log) + 1
  <2> USE <1>2 DEF WindowInv
  <2>0. /\ \A i \in DOMAIN log : log[i] \in Event /\ log[i].ts \in Int
        /\ e.ts \in Int
        /\ \A i \in DOMAIN log' : log'[i] \in Event /\ log'[i].ts \in Int
        /\ \A t \in Times : t \in Int
        /\ \A sk \in Touched(e) : Window[sk[1]] \in Nat
        /\ \A sk \in DOMAIN state : Window[sk[1]] \in Nat
    <3>1. \A x \in Event : x.ts \in Times
      BY DEF Event
    <3>2. \A i \in DOMAIN log : log[i] \in Event
      BY DEF TypeOK
    <3>3. \A i \in DOMAIN log' : log'[i] \in Event
      BY <3>2, ObserveStep
    <3>4. Times \subseteq Int
      BY CorrelatorAssumption
    <3>5. \A r \in Rules : Window[r] \in Nat
      BY CorrelatorAssumption
    <3>6. QED
      BY <3>1, <3>2, <3>3, <3>4, <3>5, TouchedRule
  <2>1. TypeOK'
    <3>1. log' \in Seq(Event)
      <4>1. log \in Seq(Event)
        BY DEF TypeOK
      <4>2. log' = Append(log, e)
        BY ObserveStep
      <4>3. QED
        BY <4>1, <4>2
    <3>2. \A sk \in DOMAIN state' : (state[sk] \in Win)'
      <4>1. ASSUME NEW sk \in Touched(e) PROVE (state[sk] \in Win)'
        <5>1. state'[sk].times \subseteq DOMAIN log'
          <6>1. state'[sk].times \subseteq WinOf(sk).times \union {n}
            BY <4>1, WindowAfter
          <6>2. WinOf(sk).times \subseteq DOMAIN log
            BY <4>1, WindowAfter DEF HitsOf
          <6>3. DOMAIN log' = DOMAIN log \union {n}
            BY ObserveStep
          <6>4. QED
            BY <6>1, <6>2, <6>3
        <5>2. state'[sk].firedAt \in Times \union {Never}
          BY <4>1, WindowAfter DEF Event
        <5>3. state'[sk] = NextWindow(sk, Stamps(log'), e.ts)
          BY <4>1, ObserveStep
        <5>4. QED
          BY <5>1, <5>2, <5>3 DEF Win, NextWindow
      <4>2. ASSUME NEW sk \in DOMAIN state \ Touched(e) PROVE (state[sk] \in Win)'
        BY <4>2, ObserveStep DEF TypeOK, Win
      <4>3. QED
        BY <4>1, <4>2, ObserveStep
    <3>3. alerts' \subseteq [sk : DOMAIN state', at : DOMAIN log']
      <4>1. alerts \subseteq [sk : DOMAIN state, at : DOMAIN log]
        BY DEF TypeOK
      <4>2. /\ DOMAIN state' = DOMAIN state \union Touched(e)
            /\ DOMAIN log' = DOMAIN log \union {n}
        BY ObserveStep
      <4>3. alerts' = alerts \union
                {[sk |-> sk, at |-> n] : sk \in
                   {k \in Touched(e) : Fires(k[1], Slid(k, Stamps(log'), e.ts),
                                             WinOf(k).firedAt, e.ts)}}
        BY ObserveStep
      <4>4. QED
        BY <4>1, <4>2, <4>3
    <3>4. QED
      BY <3>1, <3>2, <3>3 DEF TypeOK
  <2>2. \A sk \in DOMAIN state' : sk[1] \in Rules
    BY ObserveStep, TouchedRule
  <2>3. WindowHoldsHits'
    <3>1. \A i \in DOMAIN log' : Touched(log'[i]) \subseteq DOMAIN state'
      BY ObserveStep DEF WindowHoldsHits
    <3>2. ASSUME NEW sk \in DOMAIN state' PROVE state'[sk].times \subseteq HitsOf(sk)'
      <4>1. CASE sk \in Touched(e)
        <5>1. HitsOf(sk)' = HitsOf(sk) \union {n}
          BY <4>1, HitsAfter
        <5>2. state'[sk].times \subseteq WinOf(sk).times \union {n}
          BY <4>1, WindowAfter
        <5>3. WinOf(sk).times \subseteq HitsOf(sk)
          BY <4>1, WindowAfter
        <5>4. QED
          BY <5>1, <5>2, <5>3
      <4>2. CASE sk \notin Touched(e)
        <5>1. sk \in DOMAIN state /\ state'[sk] = state[sk]
          BY <4>2, ObserveStep
        <5>2. state[sk].times \subseteq HitsOf(sk)
          BY <5>1 DEF WindowHoldsHits
        <5>3. HitsOf(sk) \subseteq HitsOf(sk)'
          BY HitsAfter
        <5>4. QED
          BY <5>1, <5>2, <5>3
      <4>3. QED
        BY <4>1, <4>2
    <3>3. QED
      BY <3>1, <3>2 DEF WindowHoldsHits
  <2>4. WindowComplete'
    <3> SUFFICES ASSUME NEW sk \in DOMAIN state', InOrderUpTo(sk, Len(log))',
                        NEW i \in HitsOf(sk)',
                        \A j \in HitsOf(sk)' : log'[i].ts >= log'[j].ts - Window[sk[1]]
                 PROVE  i \in state'[sk].times
      BY DEF WindowComplete
    <3>1. /\ HitsOf(sk) \subseteq DOMAIN log
          /\ HitsOf(sk) \subseteq HitsOf(sk)'
      BY HitsAfter DEF HitsOf
    <3>2. InOrderUpTo(sk, Len(log))
      <4> SUFFICES ASSUME NEW j \in HitsOf(sk), NEW k \in HitsOf(sk), j <= k
                   PROVE  log[j].ts <= log[k].ts
        BY DEF InOrderUpTo
      <4>1. /\ j \in HitsOf(sk)' /\ k \in HitsOf(sk)'
            /\ log'[j] = log[j] /\ log'[k] = log[k]
        BY <3>1, ObserveStep
      <4>2. k <= Len(log')
        <5>1. k <= Len(log) /\ k \in Int /\ Len(log) \in Int
          BY <3>1, ObserveStep DEF TypeOK
        <5>2. Len(log') = Len(log) + 1
          BY ObserveStep
        <5>3. QED
          BY <5>1, <5>2
      <4>3. QED
        BY <4>1, <4>2 DEF InOrderUpTo
    <3>3. CASE i \in HitsOf(sk)
      <4>1. \A j \in HitsOf(sk) : log[i].ts >= log[j].ts - Window[sk[1]]
        BY <3>1, <3>3, ObserveStep
      <4>2. sk \in DOMAIN state
        BY <3>3 DEF HitsOf, WindowHoldsHits
      <4>3. i \in state[sk].times
        BY <3>2, <3>3, <4>1, <4>2 DEF WindowComplete
      <4>4. CASE sk \in Touched(e)
        <5>1. n \in HitsOf(sk)'
          BY <4>4, HitsAfter
        <5>2. log'[i].ts >= e.ts - Window[sk[1]]
          BY <5>1, ObserveStep
        <5>3. QED
          BY <4>2, <4>3, <4>4, <5>2, WindowAfter
      <4>5. CASE sk \notin Touched(e)
        BY <4>2, <4>3, <4>5, ObserveStep
      <4>6. QED
        BY <4>4, <4>5
    <3>4. CASE i \notin HitsOf(sk)
      <4>1. sk \in Touched(e) /\ i = n
        BY <3>4, HitsAfter
      <4>2. log'[n].ts >= e.ts - Window[sk[1]]
        BY <2>0, <4>1, ObserveStep
      <4>3. QED
        BY <4>1, <4>2, WindowAfter
    <3>5. QED
      BY <3>3, <3>4
  <2>5. FiredAtIsLatest'
    <3>1. ASSUME NEW a \in alerts'
          PROVE  state'[a.sk].firedAt # Never /\ log'[a.at].ts <= state'[a.sk].firedAt
      <4>1. CASE a \in alerts
        <5>1. /\ a.sk \in DOMAIN state /\ a.at \in DOMAIN log
              /\ state[a.sk].firedAt # Never
              /\ log[a.at].ts <= state[a.sk].firedAt
              /\ state[a.sk].firedAt \in Int
          BY <4>1, <2>0 DEF FiredAtIsLatest, TypeOK, Win
        <5>2. CASE a.sk \in Touched(e)
          <6>1. WinOf(a.sk).firedAt = state[a.sk].firedAt
            BY <5>1, <5>2, WindowAfter
          <6>2. Window[a.sk[1]] \in Nat
            BY <2>0, <5>1
          <6>3. CASE Fires(a.sk[1], Slid(a.sk, Stamps(log'), e.ts), WinOf(a.sk).firedAt, e.ts)
            <7>1. e.ts - state[a.sk].firedAt >= Window[a.sk[1]]
              BY <5>1, <6>1, <6>3 DEF Fires
            <7>2. state'[a.sk].firedAt = e.ts /\ log'[a.at].ts = log[a.at].ts
              BY <5>1, <5>2, <6>3, WindowAfter, ObserveStep
            <7>3. e.ts # Never
              BY CorrelatorAssumption DEF Event, Never
            <7>4. QED
              BY <2>0, <5>1, <6>2, <7>1, <7>2, <7>3
          <6>4. CASE ~Fires(a.sk[1], Slid(a.sk, Stamps(log'), e.ts), WinOf(a.sk).firedAt, e.ts)
            BY <5>1, <5>2, <6>1, <6>4, WindowAfter, ObserveStep
          <6>5. QED
            BY <6>3, <6>4
        <5>3. CASE a.sk \notin Touched(e)
          BY <5>1, <5>3, ObserveStep
        <5>4. QED
          BY <5>2, <5>3
      <4>2. CASE a \notin alerts
        <5>1. PICK sk \in Touched(e) :
                 /\ a = [sk |-> sk, at |-> n]
                 /\ Fires(sk[1], Slid(sk, Stamps(log'), e.ts), WinOf(sk).firedAt, e.ts)
          <6>1. alerts' = alerts \union
                  {[sk |-> sk, at |-> n] : sk \in
                     {k \in Touched(e) : Fires(k[1], Slid(k, Stamps(log'), e.ts),
                                               WinOf(k).firedAt, e.ts)}}
            BY ObserveStep
          <6>2. QED
            BY <3>1, <4>2, <6>1, Zenon
        <5>2. state'[sk].firedAt = e.ts /\ log'[n] = e
          BY <5>1, WindowAfter, ObserveStep
        <5>3. e.ts # Never
          BY CorrelatorAssumption DEF Event, Never
        <5>4. QED
          BY <2>0, <5>1, <5>2, <5>3
      <4>3. QED
        BY <4>1, <4>2
    <3>2. ASSUME NEW sk \in DOMAIN state', state'[sk].firedAt # Never
          PROVE  \E a \in alerts' : a.sk = sk /\ log'[a.at].ts = state'[sk].firedAt
      <4>1. CASE sk \in Touched(e) /\
                  Fires(sk[1], Slid(sk, Stamps(log'), e.ts), WinOf(sk).firedAt, e.ts)
        <5>1. [sk |-> sk, at |-> n] \in alerts'
          BY <4>1, ObserveStep
        <5>2. log'[n].ts = state'[sk].firedAt
          BY <4>1, WindowAfter, ObserveStep
        <5>3. QED
          BY <5>1, <5>2
      <4>2. CASE ~(sk \in Touched(e) /\
                  Fires(sk[1], Slid(sk, Stamps(log'), e.ts), WinOf(sk).firedAt, e.ts))
        <5>1. sk \in DOMAIN state /\ state'[sk].firedAt = state[sk].firedAt
          <6>1. CASE sk \in Touched(e)
            BY <3>2, <4>2, <6>1, WindowAfter DEF EmptyWindow
          <6>2. CASE sk \notin Touched(e)
            BY <6>2, ObserveStep
          <6>3. QED
            BY <6>1, <6>2
        <5>2. PICK a \in alerts : a.sk = sk /\ log[a.at].ts = state[sk].firedAt
          BY <3>2, <5>1 DEF FiredAtIsLatest
        <5>3. a \in alerts' /\ log'[a.at] = log[a.at]
          BY ObserveStep DEF TypeOK
        <5>4. QED
          BY <5>1, <5>2, <5>3
      <4>3. QED
        BY <4>1, <4>2
    <3>3. QED
      BY <3>1, <3>2 DEF FiredAtIsLatest
  <2>6. QED
    BY <2>1, <2>2, <2>3, <2>4, <2>5
<1>3. CASE Next
  <2>1. PICK ts \in Times, hits \in Hits : Observe([ts |-> ts, hits |-> hits])
    BY <1>3 DEF Next
  <2>2. [ts |-> ts, hits |-> hits] \in Event
    BY DEF Event
  <2>3. QED
    BY <1>2, <2>1, <2>2
<1>4. QED
  BY <1>1, <1>3

(* The windows, the log and the alerts agree in every reachable state. *)
THEOREM WindowInvariant == Spec => []WindowInv
BY WindowInvInit, WindowInvNext, PTL DEF Spec

(* The variables of the correlator keep their types. *)
THEOREM TypeCorrect == Spec => []TypeOK
<1>1. WindowInv => TypeOK
  BY DEF WindowInv
<1>2. QED
  BY <1>1, WindowInvariant, PTL

-----------------------------------------------------------------------------
(* Re-arming: the new alert of a key is a window after firedAt, and firedAt   *)
(* is no earlier than any alert of the key (FiredAtIsLatest).                *)
LEMMA AlertsAWindowApartNext ==
    WindowInv /\ AlertsAWindowApart /\ [Next]_vars => AlertsAWindowApart'
<1> SUFFICES ASSUME WindowInv, AlertsAWindowApart, [Next]_vars
             PROVE  AlertsAWindowApart'
  OBVIOUS
<1>1. CASE UNCHANGED vars
  BY <1>1 DEF vars, AlertsAWindowApart
<1>2. ASSUME NEW e \in Event, Observe(e),
             NEW a \in alerts', NEW b \in alerts', a.sk = b.sk, a.at < b.at
      PROVE  log'[b.at].ts - log'[a.at].ts >= Window[a.sk[1]]
  <2> DEFINE n == Len(log) + 1
  <2> USE <1>2 DEF WindowInv
  <2>1. alerts' = alerts \union
          {[sk |-> sk, at |-> n] : sk \in
             {k \in Touched(e) : Fires(k[1], Slid(k, Stamps(log'), e.ts),
                                       WinOf(k).firedAt, e.ts)}}
    BY ObserveStep
  <2>2. \A i \in DOMAIN log : log'[i] = log[i] /\ i <= Len(log) /\ i \in Int
    <3>1. DOMAIN log \subseteq Int
      BY DEF TypeOK
    <3>2. QED
      BY <3>1, ObserveStep
  <2>3. Len(log) \in Nat
    BY DEF TypeOK
  <2>4. \A c \in alerts : c.at \in DOMAIN log /\ c.sk \in DOMAIN state
    BY DEF TypeOK
  <2>5. \A c \in alerts' : c \in alerts \/ c.at = n
    BY <2>1
  <2>6. a \in alerts
    BY <2>2, <2>3, <2>4, <2>5
  <2>7. CASE b \in alerts
    BY <2>2, <2>4, <2>6, <2>7 DEF AlertsAWindowApart
  <2>8. CASE b \notin alerts
    <3>1. PICK sk \in Touched(e) :
            /\ b = [sk |-> sk, at |-> n]
            /\ Fires(sk[1], Slid(sk, Stamps(log'), e.ts), WinOf(sk).firedAt, e.ts)
      BY <2>1, <2>8
    <3>2. sk \in DOMAIN state /\ WinOf(sk).firedAt = state[sk].firedAt
      BY <2>4, <2>6, <3>1 DEF WinOf
    <3>3. state[sk].firedAt # Never /\ log[a.at].ts <= state[sk].firedAt
      BY <2>6, <3>1 DEF FiredAtIsLatest
    <3>4. e.ts - state[sk].firedAt >= Window[sk[1]]
      BY <3>1, <3>2, <3>3 DEF Fires
    <3>5. log'[b.at] = e /\ log'[a.at] = log[a.at]
      BY <2>2, <2>4, <2>6, <3>1, ObserveStep
    <3>6. Times \subseteq Int /\ Window[sk[1]] \in Int
      BY <3>1, TouchedRule, CorrelatorAssumption
    <3>7. /\ e.ts \in Int /\ log[a.at].ts \in Int
          /\ state[sk].firedAt \in Int
      <4>1. log[a.at] \in Event
        BY <2>4, <2>6 DEF TypeOK
      <4>2. state[sk].firedAt \in Times
        BY <3>2, <3>3 DEF TypeOK, Win
      <4>3. QED
        BY <3>6, <4>1, <4>2 DEF Event
    <3>8. QED
      BY <3>1, <3>3, <3>4, <3>5, <3>6, <3>7
  <2>9. QED
    BY <2>7, <2>8
<1>3. CASE Next
  <2>1. PICK ts \in Times, hits \in Hits : Observe([ts |-> ts, hits |-> hits])
    BY <1>3 DEF Next
  <2>2. [ts |-> ts, hits |-> hits] \in Event
    BY DEF Event
  <2>3. QED
    BY <1>2, <2>1, <2>2 DEF AlertsAWindowApart
<1>4. QED
  BY <1>1, <1>3

(* Two alerts of one rule and key are at least a window apart, for every rule *)
(* set and every order of timestamps.                                        *)
THEOREM AlertSpacing == Spec => []AlertsAWindowApart
<1>1. Init => AlertsAWindowApart
  BY DEF Init, AlertsAWindowApart
<1>2. QED
  BY <1>1, AlertsAWindowApartNext, WindowInvariant, PTL DEF Spec

-----------------------------------------------------------------------------
(* The hits of a key that could count for the event at position n. *)
Countable(sk, n) ==
    {i \in HitsOf(sk) : i <= n /\ log[i].ts >= log[n].ts - Window[sk[1]]}

(* A step neither adds to nor takes from what counted for an older event.    *)
LEMMA CountableAfter ==
    ASSUME WindowInv, NEW e \in Event, Observe(e), NEW sk, NEW n \in DOMAIN log
    PROVE  Countable(sk, n)' = Countable(sk, n)
<1>1. TypeOK
  BY DEF WindowInv
<1>2. HitsOf(sk)' = HitsOf(sk) \union (IF sk \in Touched(e) THEN {Len(log) + 1} ELSE {})
  BY <1>1, HitsAfter
<1>3. /\ HitsOf(sk) \subseteq DOMAIN log
      /\ \A i \in DOMAIN log : log'[i] = log[i] /\ i <= Len(log) /\ i \in Int
      /\ Len(log) \in Nat
  <2>1. DOMAIN log \subseteq Int /\ Len(log) \in Nat
    BY <1>1 DEF TypeOK
  <2>2. QED
    BY <1>1, <2>1, ObserveStep DEF HitsOf
<1>4. ~(Len(log) + 1 <= n)
  BY <1>3
<1>5. QED
  BY <1>2, <1>3, <1>4 DEF Countable

(* What can count for an event is finite, so it has a cardinality. *)
LEMMA CountableFinite ==
    ASSUME TypeOK, NEW sk, NEW n
    PROVE  IsFiniteSet(Countable(sk, n))
<1>1. IsFiniteSet(1 .. Len(log))
  BY FS_Interval DEF TypeOK
<1>2. Countable(sk, n) \subseteq 1 .. Len(log)
  BY DEF Countable, HitsOf, TypeOK
<1>3. QED
  BY <1>1, <1>2, FS_Subset

(* The window an event leaves behind counts hits that event could count.     *)
LEMMA SlidCountable ==
    ASSUME WindowInv, NEW e \in Event, Observe(e), NEW sk \in Touched(e),
           NEW n \in Nat, n = Len(log) + 1
    PROVE  Slid(sk, Stamps(log'), e.ts) \subseteq Countable(sk, n)'
<1>1. TypeOK
  BY DEF WindowInv
<1>2. /\ HitsOf(sk)' = HitsOf(sk) \union {n}
      /\ WinOf(sk).times \subseteq HitsOf(sk)
      /\ Slid(sk, Stamps(log'), e.ts) =
           {i \in WinOf(sk).times \union {n} :
              log'[i].ts >= e.ts - Window[sk[1]]}
  BY <1>1, HitsAfter, WindowAfter
<1>3. HitsOf(sk) \subseteq DOMAIN log
  BY DEF HitsOf
<1>4. n <= n /\ \A i \in DOMAIN log : i <= n
  BY <1>1 DEF TypeOK
<1>5. log'[n] = e
  BY <1>1, ObserveStep
<1>6. QED
  BY <1>2, <1>3, <1>4, <1>5 DEF Countable

(* A step's new alerts stand on the window it counted, the old ones stay. *)
LEMMA AlertsJustifiedNext ==
    WindowInv /\ WindowInv' /\ AlertsJustified /\ [Next]_vars => AlertsJustified'
<1> SUFFICES ASSUME WindowInv, WindowInv', AlertsJustified, [Next]_vars
             PROVE  AlertsJustified'
  OBVIOUS
<1>1. CASE UNCHANGED vars
  BY <1>1 DEF vars, AlertsJustified, HitsOf
<1>2. ASSUME NEW e \in Event, Observe(e), NEW a \in alerts'
      PROVE  Cardinality(Countable(a.sk, a.at)') >= CountThreshold(a.sk[1])
  <2> USE <1>2 DEF WindowInv
  <2> PICK n \in Nat : n = Len(log) + 1
    BY DEF TypeOK
  <2>1. CASE a \in alerts
    <3>1. a.at \in DOMAIN log
      BY <2>1 DEF TypeOK
    <3>2. Cardinality(Countable(a.sk, a.at)) >= CountThreshold(a.sk[1])
      BY <2>1 DEF AlertsJustified, Countable
    <3>3. Countable(a.sk, a.at)' = Countable(a.sk, a.at)
      BY <3>1, CountableAfter
    <3>4. QED
      BY <3>2, <3>3
  <2>2. CASE a \notin alerts
    <3>1. PICK sk \in Touched(e) :
            /\ a = [sk |-> sk, at |-> n]
            /\ Fires(sk[1], Slid(sk, Stamps(log'), e.ts), WinOf(sk).firedAt, e.ts)
      <4>1. alerts' = alerts \union
          {[sk |-> sk, at |-> Len(log) + 1] : sk \in
             {k \in Touched(e) : Fires(k[1], Slid(k, Stamps(log'), e.ts),
                                       WinOf(k).firedAt, e.ts)}}
        BY ObserveStep
      <4>2. QED
        BY <2>2, <4>1
    <3> DEFINE kept == Slid(sk, Stamps(log'), e.ts)
    <3>2. kept \subseteq Countable(sk, n)'
      BY <3>1, SlidCountable
    <3>3. IsFiniteSet(Countable(sk, n)')
      <4>1. TypeOK'
        OBVIOUS
      <4>2. IsFiniteSet(1 .. Len(log'))
        BY <4>1, FS_Interval DEF TypeOK
      <4>3. Countable(sk, n)' \subseteq 1 .. Len(log')
        BY <4>1 DEF Countable, HitsOf, TypeOK
      <4>4. QED
        BY <4>2, <4>3, FS_Subset
    <3>4. /\ Cardinality(kept) <= Cardinality(Countable(sk, n)')
          /\ Cardinality(kept) \in Nat /\ Cardinality(Countable(sk, n)') \in Nat
      BY <3>2, <3>3, FS_Subset, FS_CardinalityType
    <3>5. Cardinality(kept) >= CountThreshold(sk[1])
      BY <3>1 DEF Fires
    <3>6. CountThreshold(sk[1]) \in Int
      BY <3>1, TouchedRule, ThresholdNat
    <3>7. Cardinality(Countable(sk, n)') >= CountThreshold(sk[1])
      BY <3>4, <3>5, <3>6
    <3>8. a.sk = sk /\ a.at = n
      BY <3>1
    <3>9. QED
      BY <3>7, <3>8
  <2>3. QED
    BY <2>1, <2>2
<1>3. CASE Next
  <2>1. PICK ts \in Times, hits \in Hits : Observe([ts |-> ts, hits |-> hits])
    BY <1>3 DEF Next
  <2>2. [ts |-> ts, hits |-> hits] \in Event
    BY DEF Event
  <2>3. \A a \in alerts' : Cardinality(Countable(a.sk, a.at)') >= CountThreshold(a.sk[1])
    BY <1>2, <2>1, <2>2
  <2>4. QED
    BY <2>3 DEF AlertsJustified, Countable
<1>4. QED
  BY <1>1, <1>3

(* Every alert stands on as many events of its rule and key as its condition *)
(* asks for, none older than a window before the event that raised it.       *)
THEOREM AlertJustification == Spec => []AlertsJustified
<1>1. Init => AlertsJustified
  BY DEF Init, AlertsJustified
<1>2. QED
  BY <1>1, AlertsJustifiedNext, WindowInvariant, PTL DEF Spec

-----------------------------------------------------------------------------
(* NoMissedDetection for one key and one of its events. *)
Detected(sk, n) ==
    InOrderUpTo(sk, n) /\ Cardinality(Countable(sk, n)) >= CountThreshold(sk[1])
        => \E a \in alerts : /\ a.sk = sk /\ a.at <= n
                             /\ a.at = n \/ log[n].ts - log[a.at].ts < Window[sk[1]]

(* While a key's events come in order, the window keeps all that can count.  *)
LEMMA SlidComplete ==
    ASSUME WindowInv, NEW e \in Event, Observe(e), NEW sk \in Touched(e),
           NEW n \in Nat, n = Len(log) + 1, InOrderUpTo(sk, n)'
    PROVE  Countable(sk, n)' \subseteq Slid(sk, Stamps(log'), e.ts)
<1> SUFFICES ASSUME NEW i \in Countable(sk, n)'
             PROVE  i \in Slid(sk, Stamps(log'), e.ts)
  OBVIOUS
<1> USE DEF WindowInv
<1>1. /\ HitsOf(sk)' = HitsOf(sk) \union {n}
      /\ Slid(sk, Stamps(log'), e.ts) =
           {j \in WinOf(sk).times \union {n} : log'[j].ts >= e.ts - Window[sk[1]]}
  BY HitsAfter, WindowAfter
<1>2. /\ \A j \in DOMAIN log : log'[j] = log[j] /\ j <= Len(log)
      /\ log'[n] = e
  BY ObserveStep
<1>3. /\ HitsOf(sk) \subseteq DOMAIN log /\ DOMAIN log \subseteq Nat
      /\ Len(log) \in Nat
  BY DEF HitsOf, TypeOK
<1>4. log'[i].ts >= e.ts - Window[sk[1]]
  BY <1>2 DEF Countable
<1>5. CASE i = n
  BY <1>1, <1>4, <1>5
<1>6. CASE i # n
  <2>1. i \in HitsOf(sk)
    BY <1>1, <1>6 DEF Countable
  <2>2. \A j \in HitsOf(sk) : j <= n /\ n <= n
    BY <1>2, <1>3
  <2>3. \A j \in HitsOf(sk) : log[j].ts <= e.ts
    BY <1>1, <1>2, <1>3, <2>2 DEF InOrderUpTo
  <2>4. InOrderUpTo(sk, Len(log))
    <3> SUFFICES ASSUME NEW j \in HitsOf(sk), NEW k \in HitsOf(sk), j <= k
                 PROVE  log[j].ts <= log[k].ts
      BY DEF InOrderUpTo
    <3>1. log'[j].ts <= log'[k].ts
      BY <1>1, <2>2 DEF InOrderUpTo
    <3>2. QED
      BY <1>2, <1>3, <3>1
  <2>5. ASSUME NEW j \in HitsOf(sk) PROVE log[i].ts >= log[j].ts - Window[sk[1]]
    <3>1. Times \subseteq Int /\ Window[sk[1]] \in Int
      BY TouchedRule, CorrelatorAssumption
    <3>2. log[i].ts \in Int /\ log[j].ts \in Int /\ e.ts \in Int
      <4>1. log[i] \in Event /\ log[j] \in Event
        BY <1>3, <2>1, <2>5 DEF TypeOK
      <4>2. QED
        BY <3>1, <4>1 DEF Event
    <3>3. log[i].ts >= e.ts - Window[sk[1]] /\ log[j].ts <= e.ts
      BY <1>2, <1>3, <1>4, <2>1, <2>3, <2>5
    <3>4. QED
      BY <3>1, <3>2, <3>3
  <2>6. sk \in DOMAIN state
    BY <2>1 DEF HitsOf, WindowHoldsHits
  <2>7. i \in state[sk].times
    BY <2>1, <2>4, <2>5, <2>6 DEF WindowComplete
  <2>8. i \in WinOf(sk).times
    BY <2>6, <2>7 DEF WinOf
  <2>9. QED
    BY <1>1, <1>4, <2>8
<1>7. QED
  BY <1>5, <1>6

(* A step that reaches the count raises an alert unless a recent one stands. *)
LEMMA NoMissedDetectionNext ==
    WindowInv /\ WindowInv' /\ NoMissedDetection /\ [Next]_vars => NoMissedDetection'
<1> SUFFICES ASSUME WindowInv, WindowInv', NoMissedDetection, [Next]_vars
             PROVE  NoMissedDetection'
  OBVIOUS
<1>1. CASE UNCHANGED vars
  BY <1>1 DEF vars, NoMissedDetection, HitsOf, InOrderUpTo
<1>2. ASSUME NEW e \in Event, Observe(e),
             NEW sk \in DOMAIN state', NEW m \in HitsOf(sk)'
      PROVE  Detected(sk, m)'
  <2> USE <1>2 DEF WindowInv
  <2> PICK n \in Nat : n = Len(log) + 1
    BY DEF TypeOK
  <2>1. /\ DOMAIN log \subseteq Nat /\ Len(log) \in Nat
        /\ HitsOf(sk) \subseteq DOMAIN log
        /\ \A c \in alerts : c.at \in DOMAIN log /\ c.sk \in DOMAIN state
    BY DEF TypeOK, HitsOf
  <2>2. /\ \A j \in DOMAIN log : log'[j] = log[j] /\ j <= Len(log)
        /\ log'[n] = e
        /\ alerts \subseteq alerts'
    BY ObserveStep
  <2>3. HitsOf(sk)' = HitsOf(sk) \union (IF sk \in Touched(e) THEN {n} ELSE {})
    BY HitsAfter
  <2>4. CASE m \in HitsOf(sk)
    <3>1. sk \in DOMAIN state /\ m \in DOMAIN log
      BY <2>4 DEF HitsOf, WindowHoldsHits
    <3>2. Detected(sk, m)
      BY <2>4, <3>1 DEF NoMissedDetection, Detected, Countable
    <3>3. Countable(sk, m)' = Countable(sk, m)
      BY <3>1, CountableAfter
    <3>4. InOrderUpTo(sk, m)' => InOrderUpTo(sk, m)
      BY <2>1, <2>2, <2>3 DEF InOrderUpTo
    <3>5. log'[m] = log[m] /\ \A c \in alerts : log'[c.at] = log[c.at]
      BY <2>1, <2>2, <3>1
    <3>6. QED
      BY <2>2, <3>2, <3>3, <3>4, <3>5 DEF Detected
  <2>5. CASE m \notin HitsOf(sk)
    <3>1. sk \in Touched(e) /\ m = n
      BY <2>3, <2>5
    <3> SUFFICES ASSUME InOrderUpTo(sk, n)',
                        Cardinality(Countable(sk, n)') >= CountThreshold(sk[1])
                 PROVE  \E a \in alerts' :
                           /\ a.sk = sk /\ a.at <= n
                           /\ a.at = n \/ log'[n].ts - log'[a.at].ts < Window[sk[1]]
      BY <3>1 DEF Detected
    <3> DEFINE kept == Slid(sk, Stamps(log'), e.ts)
    <3>2. kept = Countable(sk, n)'
      BY <3>1, SlidCountable, SlidComplete
    <3>3. Cardinality(kept) >= CountThreshold(sk[1])
      BY <3>2
    <3>4. CASE Fires(sk[1], kept, WinOf(sk).firedAt, e.ts)
      <4> DEFINE fired == {k \in Touched(e) : Fires(k[1], Slid(k, Stamps(log'), e.ts),
                                                    WinOf(k).firedAt, e.ts)}
      <4>a. alerts' = alerts \union {[sk |-> k, at |-> Len(log) + 1] : k \in fired}
        <5> HIDE DEF kept
        <5>1. TypeOK
          OBVIOUS
        <5>2. QED
          BY <5>1, ObserveStep
      <4>b. sk \in fired
        BY <3>1, <3>4
      <4>1. [sk |-> sk, at |-> Len(log) + 1] \in alerts'
        <5> HIDE DEF fired
        <5>1. QED
          BY <4>a, <4>b, Zenon
      <4>2. n <= n
        OBVIOUS
      <4>3. QED
        BY <4>1, <4>2
    <3>5. CASE ~Fires(sk[1], kept, WinOf(sk).firedAt, e.ts)
      <4>1. WinOf(sk).firedAt # Never /\ ~(e.ts - WinOf(sk).firedAt >= Window[sk[1]])
        BY <3>3, <3>5 DEF Fires
      <4>2. sk \in DOMAIN state /\ WinOf(sk).firedAt = state[sk].firedAt
        BY <4>1 DEF WinOf, EmptyWindow
      <4>3. PICK a \in alerts : a.sk = sk /\ log[a.at].ts = state[sk].firedAt
        BY <4>1, <4>2 DEF FiredAtIsLatest
      <4>4. a \in alerts' /\ log'[a.at] = log[a.at] /\ a.at <= n
        BY <2>1, <2>2, <4>3
      <4>5. Times \subseteq Int /\ Window[sk[1]] \in Int
        BY <3>1, TouchedRule, CorrelatorAssumption
      <4>6. e.ts \in Int /\ state[sk].firedAt \in Int
        BY <4>1, <4>2, <4>5 DEF TypeOK, Win, Event
      <4>7. log'[n].ts - log'[a.at].ts < Window[sk[1]]
        BY <2>2, <4>1, <4>2, <4>3, <4>4, <4>5, <4>6
      <4>8. QED
        BY <4>3, <4>4, <4>7
    <3>6. QED
      BY <3>4, <3>5
  <2>6. QED
    BY <2>4, <2>5
<1>3. CASE Next
  <2>1. PICK ts \in Times, hits \in Hits : Observe([ts |-> ts, hits |-> hits])
    BY <1>3 DEF Next
  <2>2. [ts |-> ts, hits |-> hits] \in Event
    BY DEF Event
  <2>3. \A sk \in DOMAIN state' : \A m \in HitsOf(sk)' : Detected(sk, m)'
    BY <1>2, <2>1, <2>2
  <2>4. QED
    BY <2>3 DEF NoMissedDetection, Detected, Countable
<1>4. QED
  BY <1>1, <1>3

(* As long as a key's events arrive in timestamp order, no window that holds *)
(* enough of them goes without an alert: pruning and re-arming lose nothing. *)
THEOREM DetectionCompleteness == Spec => []NoMissedDetection
<1>1. Init => NoMissedDetection
  BY DEF Init, NoMissedDetection
<1>2. QED
  BY <1>1, NoMissedDetectionNext, WindowInvariant, PTL DEF Spec
=============================================================================
