------------------------- MODULE AgentRegistryProofs -------------------------
(***************************************************************************)
(* What AgentRegistry promises for every number of agents, versions,       *)
(* handlers and writes, and every time limit: its type invariant, that     *)
(* only a write that was overtaken undoes an enrolment, and that an agent  *)
(* heard from is listed as active unless an insert outlived its time       *)
(* limit.  Then of AgentInventory, the backend's copy of the registry: its *)
(* sync tasks keep one row per agent unless two of them overlap.           *)
(***************************************************************************)
EXTENDS Fleet, TLAPS

(* A touch, and a write that was overtaken, is of an agent the table knows:  *)
(* rows are never removed.                                                   *)
TouchedKnown ==
    \A h \in Handlers :
        handler[h] # Idle /\ (handler[h].kind = "touch" \/ handler[h].behind)
            => handler[h].agent \in DOMAIN registry

(* No stamp is ahead of the clock, and the stamp of the table is behind the  *)
(* newest that landed by no more than an insert may take, unless the insert  *)
(* of the row came late.                                                     *)
StampsInv ==
    /\ \A h \in Handlers : handler[h] # Idle => handler[h].entry.seen <= clock
    /\ \A a \in DOMAIN registry :
        /\ registry[a].seen <= clock
        /\ contact[a] \in Int /\ contact[a] <= clock
        /\ a \notin late => contact[a] - registry[a].seen <= WriteWithin

(* What a touch holds that no enrolment has overtaken is what the last       *)
(* enrolment said, unless the table was wrong when it read it.               *)
InfoInv ==
    /\ EnrolmentStands
    /\ \A h \in Handlers :
        handler[h] # Idle /\ handler[h].kind = "touch" /\ ~handler[h].behind
            /\ handler[h].agent \notin raced
            => handler[h].entry.info = enrolledAs[handler[h].agent]

RegistryInv == TypeOK /\ TouchedKnown /\ StampsInv /\ InfoInv

-----------------------------------------------------------------------------
(* The idle handler is no write.                                             *)
LEMMA IdleIsNoWrite == Idle \notin Write
BY DEF Idle, Write

(* The invariant holds at the start: nothing is enrolled.                    *)
LEMMA RegistryInvInit == Init => RegistryInv
<1> SUFFICES ASSUME Init PROVE RegistryInv
  OBVIOUS
<1>1. DOMAIN registry = {} /\ DOMAIN contact = {} /\ DOMAIN enrolledAs = {}
  BY DEF Init
<1>2. \A h \in Handlers : handler[h] = Idle
  BY DEF Init
<1>3. TypeOK
  BY <1>1, <1>2, AgentRegistryAssumption DEF Init, TypeOK
<1>4. TouchedKnown /\ StampsInv /\ InfoInv
  BY <1>1, <1>2 DEF TouchedKnown, StampsInv, InfoInv, EnrolmentStands
<1>5. QED
  BY <1>3, <1>4 DEF RegistryInv

-----------------------------------------------------------------------------
(* The steps that leave the table and the history alone.                     *)
LEMMA TickKeeps == ASSUME RegistryInv, Tick PROVE RegistryInv'
<1>1. TypeOK'
  BY AgentRegistryAssumption DEF RegistryInv, TypeOK, Tick, history
<1>2. \A h \in Handlers : handler[h] # Idle => handler[h].entry.seen \in Int
  BY DEF RegistryInv, TypeOK, Write, Entry
<1>3. StampsInv'
  <2>1. /\ clock \in Int /\ clock' = clock + 1
        /\ registry' = registry /\ handler' = handler /\ contact' = contact /\ late' = late
    BY DEF RegistryInv, TypeOK, Tick, history
  <2>2. \A h \in Handlers : handler[h] # Idle => handler[h].entry.seen <= clock'
    BY <1>2, <2>1 DEF RegistryInv, StampsInv
  <2>3. \A a \in DOMAIN registry : registry[a].seen \in Int
    BY DEF RegistryInv, TypeOK, Entry
  <2>4. \A a \in DOMAIN registry :
            /\ registry[a].seen <= clock' /\ contact[a] \in Int /\ contact[a] <= clock'
            /\ a \notin late => contact[a] - registry[a].seen <= WriteWithin
    BY <2>1, <2>3 DEF RegistryInv, StampsInv
  <2>5. QED
    BY <2>1, <2>2, <2>4 DEF StampsInv, Idle
<1>4. TouchedKnown' /\ InfoInv'
  BY DEF RegistryInv, TouchedKnown, InfoInv, EnrolmentStands, Tick, history
<1>5. QED
  BY <1>1, <1>3, <1>4 DEF RegistryInv

(* A handler takes up a write that is in order by itself.                    *)
LEMMA HandlerKeeps ==
    ASSUME RegistryInv, NEW h \in Handlers, NEW new,
           new = Idle \/ new \in Write,
           new # Idle => new.entry.seen <= clock,
           new # Idle /\ (new.kind = "touch" \/ new.behind) => new.agent \in DOMAIN registry,
           new # Idle /\ new.kind = "touch" /\ ~new.behind /\ new.agent \notin raced
                => new.entry.info = enrolledAs[new.agent],
           handler' = [handler EXCEPT ![h] = new],
           writes' \in 0 .. MaxWrites,
           UNCHANGED <<clock, registry, history>>
    PROVE  RegistryInv'
<1>1. handler \in [Handlers -> {Idle} \union Write]
  BY DEF RegistryInv, TypeOK
<1>2. \A g \in Handlers : handler'[g] = IF g = h THEN new ELSE handler[g]
  BY <1>1
<1>3. TypeOK'
  BY <1>1, <1>2 DEF RegistryInv, TypeOK, history
<1>4. TouchedKnown'
  BY <1>2 DEF RegistryInv, TouchedKnown, history
<1>5. StampsInv'
  BY <1>2 DEF RegistryInv, StampsInv, history
<1>6. InfoInv'
  BY <1>2 DEF RegistryInv, InfoInv, EnrolmentStands, history
<1>7. QED
  BY <1>3, <1>4, <1>5, <1>6 DEF RegistryInv

(* An enrolment is taken up with the stamp of now.                           *)
LEMMA EnrolStartKeeps ==
    ASSUME RegistryInv, NEW h \in Handlers, NEW a \in Agents, NEW i \in Infos,
           EnrolStart(h, a, i)
    PROVE  RegistryInv'
<1> DEFINE new == [phase |-> "writing", kind |-> "enrol", agent |-> a, nr |-> writes,
                   behind |-> FALSE, entry |-> [info |-> i, seen |-> clock]]
<1>1. new \in Write /\ new.kind = "enrol" /\ ~new.behind /\ new.entry.seen <= clock
  BY DEF RegistryInv, TypeOK, Write, Entry
<1>2. writes' \in 0 .. MaxWrites
  BY AgentRegistryAssumption DEF RegistryInv, TypeOK, EnrolStart
<1>3. handler' = [handler EXCEPT ![h] = new] /\ UNCHANGED <<clock, registry, history>>
  BY DEF EnrolStart
<1> HIDE DEF new
<1>4. QED
  BY <1>1, <1>2, <1>3, HandlerKeeps

(* A touch takes up the row of a known agent, which is what the last         *)
(* enrolment said unless the agent is raced.                                 *)
LEMMA TouchReadKeeps ==
    ASSUME RegistryInv, NEW h \in Handlers, NEW a \in Agents, TouchRead(h, a)
    PROVE  RegistryInv'
<1> DEFINE new == [phase |-> "read", kind |-> "touch", agent |-> a, nr |-> 0,
                   behind |-> FALSE, entry |-> registry[a]]
<1>1. a \in DOMAIN registry /\ new.agent = a /\ new.entry = registry[a]
  BY DEF TouchRead
<1>2. new \in Write
  BY <1>1, AgentRegistryAssumption DEF RegistryInv, TypeOK, Write
<1>3. new.entry.seen <= clock
  <2>1. contact[a] \in Int /\ contact[a] <= clock /\ registry[a].seen <= clock
    BY <1>1 DEF RegistryInv, StampsInv
  <2>2. QED
    BY <1>1, <2>1
<1>4. a \notin raced => new.entry.info = enrolledAs[a]
  BY <1>1 DEF RegistryInv, InfoInv, EnrolmentStands
<1>5. writes' \in 0 .. MaxWrites
  BY AgentRegistryAssumption DEF RegistryInv, TypeOK, TouchRead
<1>6. handler' = [handler EXCEPT ![h] = new] /\ UNCHANGED <<clock, registry, history>>
  BY DEF TouchRead
<1> HIDE DEF new
<1>7. QED
  BY <1>1, <1>2, <1>3, <1>4, <1>5, <1>6, HandlerKeeps

(* Stamping changes the stamp only.                                          *)
LEMMA TouchStampKeeps ==
    ASSUME RegistryInv, NEW h \in Handlers, TouchStamp(h)
    PROVE  RegistryInv'
<1> DEFINE new == [handler[h] EXCEPT !.phase = "writing", !.entry.seen = clock]
<1>1. handler[h] \in Write /\ handler[h] # Idle
  BY DEF RegistryInv, TypeOK, TouchStamp, Idle
<1>2. /\ new \in Write /\ new.entry.seen = clock
      /\ new.kind = handler[h].kind /\ new.agent = handler[h].agent
      /\ new.behind = handler[h].behind /\ new.entry.info = handler[h].entry.info
  BY <1>1 DEF RegistryInv, TypeOK, Write, Entry
<1>3. clock <= clock /\ writes \in 0 .. MaxWrites
  BY DEF RegistryInv, TypeOK
<1>4. /\ handler' = [handler EXCEPT ![h] = new] /\ writes' = writes
      /\ UNCHANGED <<clock, registry, history>>
  BY DEF TouchStamp
<1>5. /\ new.kind = "touch" \/ new.behind => new.agent \in DOMAIN registry
      /\ new.kind = "touch" /\ ~new.behind /\ new.agent \notin raced
            => new.entry.info = enrolledAs[new.agent]
  BY <1>1, <1>2 DEF RegistryInv, TouchedKnown, InfoInv
<1> HIDE DEF new
<1>6. QED
  BY <1>2, <1>3, <1>4, <1>5, HandlerKeeps

(* An insert given up is the same insert adrift.                             *)
LEMMA WriteGivenUpKeeps ==
    ASSUME RegistryInv, NEW h \in Handlers, WriteGivenUp(h)
    PROVE  RegistryInv'
<1> DEFINE new == [handler[h] EXCEPT !.phase = "adrift"]
<1>1. handler[h] \in Write /\ handler[h] # Idle
  BY DEF RegistryInv, TypeOK, WriteGivenUp, Idle
<1>2. /\ new \in Write /\ new.entry = handler[h].entry
      /\ new.kind = handler[h].kind /\ new.agent = handler[h].agent
      /\ new.behind = handler[h].behind
  BY <1>1 DEF Write
<1>3. writes' \in 0 .. MaxWrites
  BY DEF RegistryInv, TypeOK, WriteGivenUp
<1>4. handler' = [handler EXCEPT ![h] = new] /\ UNCHANGED <<clock, registry, history>>
  BY DEF WriteGivenUp
<1>5. /\ new.kind = "touch" \/ new.behind => new.agent \in DOMAIN registry
      /\ new.kind = "touch" /\ ~new.behind /\ new.agent \notin raced
            => new.entry.info = enrolledAs[new.agent]
      /\ new.entry.seen <= clock
  BY <1>1, <1>2 DEF RegistryInv, TouchedKnown, InfoInv, StampsInv
<1> HIDE DEF new
<1>6. QED
  BY <1>2, <1>3, <1>4, <1>5, HandlerKeeps

(* A write that fails leaves an idle handler.                                *)
LEMMA WriteFailsKeeps ==
    ASSUME RegistryInv, NEW h \in Handlers, WriteFails(h)
    PROVE  RegistryInv'
<1>1. writes' \in 0 .. MaxWrites
  BY DEF RegistryInv, TypeOK, WriteFails
<1>2. handler' = [handler EXCEPT ![h] = Idle] /\ UNCHANGED <<clock, registry, history>>
  BY DEF WriteFails
<1>3. QED
  BY <1>1, <1>2, HandlerKeeps

-----------------------------------------------------------------------------
(* An insert lands, under the eyes of its goroutine or adrift.               *)
Landing(h) ==
    /\ handler[h].phase \in {"writing", "adrift"}
    /\ Lands(h)
    /\ late' \subseteq late \union {handler[h].agent}
    /\ late \subseteq late' \union {handler[h].agent}
    /\ handler[h].agent \in late' \/ clock - handler[h].entry.seen <= WriteWithin

(* Both ways to land are landings; the second alone can come late.           *)
LEMMA BothLand ==
    ASSUME RegistryInv, NEW h \in Handlers, WriteLands(h) \/ AdriftLands(h)
    PROVE  Landing(h)
<1>1. CASE WriteLands(h)
  BY <1>1 DEF WriteLands, Landing
<1>2. CASE AdriftLands(h)
  <2>1. handler[h] # Idle /\ handler[h] \in Write
    BY <1>2 DEF RegistryInv, TypeOK, AdriftLands, Idle
  <2>2. clock \in Int /\ handler[h].entry.seen \in Int /\ WriteWithin \in Int
    BY <2>1, AgentRegistryAssumption DEF RegistryInv, TypeOK, Write, Entry
  <2>3. CASE clock - handler[h].entry.seen > WriteWithin
    BY <1>2, <2>3 DEF AdriftLands, Landing
  <2>4. CASE clock - handler[h].entry.seen <= WriteWithin
    <3>1. late' = late \ {handler[h].agent}
      BY <1>2, <2>2, <2>4 DEF AdriftLands
    <3>2. QED
      BY <1>2, <2>4, <3>1 DEF AdriftLands, Landing
  <2>5. QED
    BY <2>2, <2>3, <2>4
<1>3. QED
  BY <1>1, <1>2

(* What a landing write does, with the definitions around it resolved.       *)
LEMMA LandsStep ==
    ASSUME RegistryInv, NEW h \in Handlers, Landing(h)
    PROVE  LET do == handler[h]
               a  == do.agent
           IN  /\ do # Idle /\ do \in Write /\ a \in Agents
               /\ a \in late' \/ clock - do.entry.seen <= WriteWithin
               /\ \A b \in Agents \ {a} : b \in late' <=> b \in late
               /\ DOMAIN registry' = DOMAIN registry \union {a}
               /\ registry'[a] = do.entry
               /\ \A b \in DOMAIN registry \ {a} : registry'[b] = registry[b]
               /\ DOMAIN contact' = DOMAIN registry \union {a}
               /\ \/ contact'[a] = do.entry.seen
                  \/ a \in DOMAIN registry /\ contact'[a] = contact[a]
               /\ \A b \in DOMAIN registry \ {a} : contact'[b] = contact[b]
               /\ clock' = clock /\ writes' = writes
<1>1. handler[h] # Idle /\ handler[h] \in Write
  BY DEF RegistryInv, TypeOK, Landing, Idle
<1>2. handler[h].agent \in Agents
  BY <1>1 DEF Write
<1>3. DOMAIN contact = DOMAIN registry
  BY DEF RegistryInv, TypeOK
<1>4. registry' = Put(registry, handler[h].agent, handler[h].entry)
  BY DEF Landing, Lands
<1>5. \E v : /\ contact' = Put(contact, handler[h].agent, v)
             /\ \/ v = handler[h].entry.seen
                \/ handler[h].agent \in DOMAIN contact /\ v = contact[handler[h].agent]
  BY DEF Landing, Lands, Remember
<1>6. /\ clock' = clock /\ writes' = writes
      /\ handler[h].agent \in late' \/ clock - handler[h].entry.seen <= WriteWithin
      /\ \A b \in Agents \ {handler[h].agent} : b \in late' <=> b \in late
  BY DEF Landing, Lands
<1>7. /\ DOMAIN registry' = DOMAIN registry \union {handler[h].agent}
      /\ registry'[handler[h].agent] = handler[h].entry
      /\ \A b \in DOMAIN registry \ {handler[h].agent} : registry'[b] = registry[b]
  BY <1>4 DEF Put
<1>8. PICK v : /\ contact' = Put(contact, handler[h].agent, v)
               /\ \/ v = handler[h].entry.seen
                  \/ handler[h].agent \in DOMAIN contact /\ v = contact[handler[h].agent]
  BY <1>5
<1>9. /\ DOMAIN contact' = DOMAIN contact \union {handler[h].agent}
      /\ contact'[handler[h].agent] = v
      /\ \A b \in DOMAIN contact \ {handler[h].agent} : contact'[b] = contact[b]
  BY <1>8 DEF Put
<1>10. QED
  BY <1>1, <1>2, <1>3, <1>6, <1>7, <1>8, <1>9

(* The handlers after a landing: the one that wrote is idle, and of the      *)
(* others at most the mark changed.                                          *)
LEMMA LandsHandlers ==
    ASSUME RegistryInv, NEW h \in Handlers, Landing(h), NEW g \in Handlers
    PROVE  \/ handler'[g] = Idle
           \/ handler'[g] = handler[g] /\ ~Overtakes(handler[h], handler[g])
           \/ /\ handler[g] # Idle /\ handler'[g] \in Write
              /\ handler[g].agent = handler[h].agent /\ handler'[g].behind = TRUE
              /\ handler'[g].kind = handler[g].kind /\ handler'[g].agent = handler[g].agent
              /\ handler'[g].entry = handler[g].entry
<1>1. handler' = AfterLanding(h)
  BY DEF Landing, Lands
<1>2. CASE g = h
  BY <1>1, <1>2 DEF AfterLanding
<1>3. CASE g # h /\ Overtakes(handler[h], handler[g])
  <2>1. handler'[g] = [handler[g] EXCEPT !.behind = TRUE]
    BY <1>1, <1>3 DEF AfterLanding
  <2>2. handler[g] # Idle /\ handler[g].agent = handler[h].agent
    BY <1>3 DEF Overtakes
  <2>3. handler[g] \in Write
    BY <2>2 DEF RegistryInv, TypeOK
  <2>4. QED
    BY <2>1, <2>2, <2>3 DEF Write
<1>4. CASE g # h /\ ~Overtakes(handler[h], handler[g])
  BY <1>1, <1>4 DEF AfterLanding
<1>5. QED
  BY <1>2, <1>3, <1>4

(* A landing write keeps the types.                                          *)
LEMMA LandsTypes ==
    ASSUME RegistryInv, NEW h \in Handlers, Landing(h)
    PROVE  TypeOK' /\ TouchedKnown'
<1> DEFINE a == handler[h].agent
<1>1. /\ handler[h] # Idle /\ handler[h] \in Write /\ a \in Agents
      /\ DOMAIN registry' = DOMAIN registry \union {a} /\ registry'[a] = handler[h].entry
      /\ \A b \in DOMAIN registry \ {a} : registry'[b] = registry[b]
      /\ DOMAIN contact' = DOMAIN registry \union {a}
      /\ clock' = clock /\ writes' = writes
  BY LandsStep
<1>2. handler[h].entry \in Entry
  BY <1>1 DEF Write
<1>3. \A g \in Handlers : handler'[g] = Idle \/ handler'[g] \in Write
  <2> SUFFICES ASSUME NEW g \in Handlers PROVE handler'[g] = Idle \/ handler'[g] \in Write
    OBVIOUS
  <2>1. handler[g] = Idle \/ handler[g] \in Write
    BY DEF RegistryInv, TypeOK
  <2>2. QED
    BY <2>1, LandsHandlers
<1>4. handler' \in [Handlers -> Write \union {Idle}]
  <2>1. handler' = [g \in Handlers |-> handler'[g]]
    BY DEF Landing, Lands, AfterLanding
  <2>2. QED
    BY <1>3, <2>1
<1>5. /\ DOMAIN enrolledAs' = DOMAIN registry'
      /\ raced' \subseteq DOMAIN registry' /\ late' \subseteq DOMAIN registry'
  <2>1. /\ DOMAIN enrolledAs = DOMAIN registry
        /\ raced \subseteq DOMAIN registry /\ late \subseteq DOMAIN registry
    BY DEF RegistryInv, TypeOK
  <2>5. late' \subseteq DOMAIN registry'
    BY <1>1, <2>1 DEF Landing
  <2>2. CASE Newest(handler[h])
    <3>1. enrolledAs' = Put(enrolledAs, a, handler[h].entry.info) /\ raced' = raced \ {a}
      BY <2>2 DEF Landing, Lands, Remember
    <3>2. DOMAIN enrolledAs' = DOMAIN enrolledAs \union {a}
      BY <3>1 DEF Put
    <3>3. QED
      BY <1>1, <2>1, <2>5, <3>1, <3>2
  <2>3. CASE ~Newest(handler[h])
    <3>1. enrolledAs' = enrolledAs /\ raced' \subseteq raced \union {a}
      BY <2>3 DEF Landing, Lands, Remember
    <3>2. handler[h].kind = "touch" \/ handler[h].behind
      BY <1>1, <2>3 DEF Write, Newest
    <3>3. a \in DOMAIN registry
      BY <1>1, <3>2 DEF RegistryInv, TouchedKnown
    <3>4. QED
      BY <1>1, <2>1, <2>5, <3>1, <3>3
  <2>4. QED
    BY <2>2, <2>3
<1>6. TypeOK'
  <2>1. clock \in 0 .. MaxClock /\ writes \in 0 .. MaxWrites /\ DOMAIN registry \subseteq Agents
        /\ \A b \in DOMAIN registry : registry[b] \in Entry
    BY DEF RegistryInv, TypeOK
  <2>2. DOMAIN registry' \subseteq Agents /\ \A b \in DOMAIN registry' : registry'[b] \in Entry
    BY <1>1, <1>2, <2>1
  <2>3. Entry' = Entry /\ Write' = Write /\ Idle' = Idle
    BY DEF Entry, Write, Idle
  <2>4. DOMAIN contact' = DOMAIN registry'
    BY <1>1
  <2>5. QED
    BY <1>1, <1>4, <1>5, <2>1, <2>2, <2>3, <2>4 DEF TypeOK
<1>7. TouchedKnown'
  <2> SUFFICES ASSUME NEW g \in Handlers, handler'[g] # Idle,
                      handler'[g].kind = "touch" \/ handler'[g].behind
               PROVE  handler'[g].agent \in DOMAIN registry'
    BY DEF TouchedKnown, Idle
  <2>1. CASE handler'[g] = handler[g]
    BY <1>1, <2>1 DEF RegistryInv, TouchedKnown
  <2>2. CASE handler'[g].agent = a
    BY <1>1, <2>2
  <2>3. QED
    BY <2>1, <2>2, LandsHandlers
<1>8. QED
  BY <1>6, <1>7

(* A landing write keeps the stamps: it is itself recent enough.             *)
LEMMA LandsStamps ==
    ASSUME RegistryInv, NEW h \in Handlers, Landing(h)
    PROVE  StampsInv'
<1> DEFINE a == handler[h].agent
<1>1. /\ handler[h] # Idle /\ handler[h] \in Write /\ clock' = clock
      /\ a \in late' \/ clock - handler[h].entry.seen <= WriteWithin
      /\ \A b \in Agents \ {a} : b \in late' <=> b \in late
      /\ DOMAIN registry' = DOMAIN registry \union {a} /\ registry'[a] = handler[h].entry
      /\ \A b \in DOMAIN registry \ {a} : registry'[b] = registry[b]
      /\ \/ contact'[a] = handler[h].entry.seen
         \/ a \in DOMAIN registry /\ contact'[a] = contact[a]
      /\ \A b \in DOMAIN registry \ {a} : contact'[b] = contact[b]
  BY LandsStep
<1>2. \A g \in Handlers : handler'[g] # Idle' => handler'[g].entry.seen <= clock'
  <2> SUFFICES ASSUME NEW g \in Handlers, handler'[g] # Idle
               PROVE  handler'[g].entry.seen <= clock
    BY <1>1 DEF Idle
  <2>1. handler[g] # Idle /\ handler'[g].entry = handler[g].entry
    BY LandsHandlers
  <2>2. QED
    BY <2>1 DEF RegistryInv, StampsInv
<1>3. handler[h].entry.seen \in Int /\ handler[h].entry.seen <= clock /\ clock \in Int
  <2>1. handler[h].entry.seen \in 0 .. MaxClock
    BY <1>1 DEF Write, Entry
  <2>2. QED
    BY <1>1, <2>1, AgentRegistryAssumption DEF RegistryInv, TypeOK, StampsInv
<1>4. ASSUME NEW b \in DOMAIN registry'
      PROVE  /\ registry'[b].seen <= clock
             /\ contact'[b] \in Int /\ contact'[b] <= clock
             /\ b \notin late' => contact'[b] - registry'[b].seen <= WriteWithin
  <2>1. CASE b # a
    <3>1. b \in DOMAIN registry /\ registry'[b] = registry[b] /\ contact'[b] = contact[b]
      BY <1>1, <2>1
    <3>2. b \in Agents /\ (b \in late' <=> b \in late)
      BY <1>1, <2>1, <3>1 DEF RegistryInv, TypeOK
    <3>3. QED
      BY <3>1, <3>2 DEF RegistryInv, StampsInv
  <2>2. CASE b = a
    <3>1. registry'[b].seen = handler[h].entry.seen
      BY <1>1, <2>2
    <3>2. contact'[b] \in Int /\ contact'[b] <= clock
      <4>1. CASE contact'[a] = handler[h].entry.seen
        BY <1>3, <2>2, <4>1
      <4>2. CASE a \in DOMAIN registry /\ contact'[a] = contact[a]
        BY <2>2, <4>2 DEF RegistryInv, StampsInv
      <4>3. QED
        BY <1>1, <4>1, <4>2
    <3>3. WriteWithin \in Int
      BY AgentRegistryAssumption
    <3> DEFINE s == handler[h].entry.seen
               c == contact'[b]
    <3>4. ASSUME b \notin late' PROVE c - s <= WriteWithin
      <4>1. s \in Int /\ c \in Int /\ clock \in Int /\ c <= clock /\ clock - s <= WriteWithin
        BY <1>1, <1>3, <2>2, <3>2, <3>4
      <4> HIDE DEF s, c
      <4>2. QED
        BY <3>3, <4>1
    <3>5. QED
      BY <1>3, <3>1, <3>2, <3>4
  <2>3. QED
    BY <2>1, <2>2
<1>5. QED
  BY <1>1, <1>2, <1>4 DEF StampsInv

(* A landing enrolment that is the newest is what counts from now on, and    *)
(* marks the writes it overtook; a landing write that was overtaken makes    *)
(* the agent raced, and a touch that was not repeats what the enrolment said.*)
LEMMA LandsInfo ==
    ASSUME RegistryInv, NEW h \in Handlers, Landing(h)
    PROVE  InfoInv'
<1> DEFINE a == handler[h].agent
<1>1. /\ handler[h] # Idle /\ handler[h] \in Write
      /\ DOMAIN registry' = DOMAIN registry \union {a} /\ registry'[a] = handler[h].entry
      /\ \A b \in DOMAIN registry \ {a} : registry'[b] = registry[b]
  BY LandsStep
<1>2. DOMAIN enrolledAs = DOMAIN registry /\ EnrolmentStands /\ TouchedKnown
  BY DEF RegistryInv, TypeOK, InfoInv
<1>3. CASE Newest(handler[h])
  <2>1. enrolledAs' = Put(enrolledAs, a, handler[h].entry.info) /\ raced' = raced \ {a}
    BY <1>3 DEF Landing, Lands, Remember
  <2>2. enrolledAs'[a] = handler[h].entry.info
        /\ \A b \in DOMAIN registry \ {a} : enrolledAs'[b] = enrolledAs[b]
    BY <1>2, <2>1 DEF Put
  <2>3. EnrolmentStands'
    <3> SUFFICES ASSUME NEW b \in DOMAIN registry' \ raced'
                 PROVE  registry'[b].info = enrolledAs'[b]
      BY DEF EnrolmentStands
    <3>1. CASE b = a
      BY <1>1, <2>2, <3>1
    <3>2. CASE b # a
      BY <1>1, <1>2, <2>1, <2>2, <3>2 DEF EnrolmentStands
    <3>3. QED
      BY <3>1, <3>2
  <2>4. ASSUME NEW g \in Handlers, handler'[g] # Idle, handler'[g].kind = "touch",
               ~handler'[g].behind, handler'[g].agent \notin raced'
        PROVE  handler'[g].entry.info = enrolledAs'[handler'[g].agent]
    <3>1. handler'[g] = handler[g] /\ handler[g].agent # a
      <4>1. handler'[g] = handler[g] /\ ~Overtakes(handler[h], handler[g])
        BY <2>4, LandsHandlers
      <4>2. QED
        BY <1>3, <2>4, <4>1 DEF Overtakes, Idle
    <3>2. handler[g].agent \in DOMAIN registry /\ handler[g].agent \notin raced
      BY <1>2, <2>1, <2>4, <3>1 DEF TouchedKnown
    <3>3. handler[g].entry.info = enrolledAs[handler[g].agent]
      BY <2>4, <3>1, <3>2 DEF RegistryInv, InfoInv
    <3>4. QED
      BY <2>2, <3>1, <3>2, <3>3
  <2>5. QED
    BY <2>3, <2>4 DEF InfoInv, Idle
<1>4. CASE ~Newest(handler[h])
  <2>1. enrolledAs' = enrolledAs
        /\ raced' = IF handler[h].behind THEN raced \union {a} ELSE raced
    BY <1>4 DEF Landing, Lands, Remember
  <2>2. EnrolmentStands'
    <3> SUFFICES ASSUME NEW b \in DOMAIN registry' \ raced'
                 PROVE  registry'[b].info = enrolledAs'[b]
      BY DEF EnrolmentStands
    <3>1. CASE b = a
      <4>1. ~handler[h].behind /\ a \notin raced
        BY <2>1, <3>1
      <4>4. handler[h].kind = "touch"
        BY <1>1, <1>4, <4>1 DEF Newest, Write
      <4>2. handler[h].entry.info = enrolledAs[a]
        BY <1>1, <4>1, <4>4 DEF RegistryInv, InfoInv
      <4>3. QED
        BY <1>1, <2>1, <3>1, <4>2
    <3>2. CASE b # a
      BY <1>1, <1>2, <2>1, <3>2 DEF EnrolmentStands
    <3>3. QED
      BY <3>1, <3>2
  <2>3. ASSUME NEW g \in Handlers, handler'[g] # Idle, handler'[g].kind = "touch",
               ~handler'[g].behind, handler'[g].agent \notin raced'
        PROVE  handler'[g].entry.info = enrolledAs'[handler'[g].agent]
    <3>1. handler'[g] = handler[g] /\ handler[g].agent \notin raced
      BY <2>1, <2>3, LandsHandlers
    <3>2. QED
      BY <2>1, <2>3, <3>1 DEF RegistryInv, InfoInv
  <2>4. QED
    BY <2>2, <2>3 DEF InfoInv, Idle
<1>5. QED
  BY <1>3, <1>4

-----------------------------------------------------------------------------
(* Every step keeps the invariant.                                           *)
LEMMA RegistryInvNext == RegistryInv /\ [Next]_vars => RegistryInv'
<1> SUFFICES ASSUME RegistryInv, [Next]_vars PROVE RegistryInv'
  OBVIOUS
<1>1. CASE Tick
  BY <1>1, TickKeeps
<1>2. ASSUME NEW h \in Handlers, NEW a \in Agents, TouchRead(h, a) PROVE RegistryInv'
  BY <1>2, TouchReadKeeps
<1>3. ASSUME NEW h \in Handlers, NEW a \in Agents, NEW i \in Infos, EnrolStart(h, a, i)
      PROVE  RegistryInv'
  BY <1>3, EnrolStartKeeps
<1>4. ASSUME NEW h \in Handlers, TouchStamp(h) PROVE RegistryInv'
  BY <1>4, TouchStampKeeps
<1>5. ASSUME NEW h \in Handlers, WriteLands(h) \/ AdriftLands(h) PROVE RegistryInv'
  <2>1. Landing(h)
    BY <1>5, BothLand
  <2>2. QED
    BY <2>1, LandsTypes, LandsStamps, LandsInfo DEF RegistryInv
<1>9. ASSUME NEW h \in Handlers, WriteGivenUp(h) PROVE RegistryInv'
  BY <1>9, WriteGivenUpKeeps
<1>6. ASSUME NEW h \in Handlers, WriteFails(h) PROVE RegistryInv'
  BY <1>6, WriteFailsKeeps
<1>7. CASE UNCHANGED vars
  BY <1>7 DEF vars, RegistryInv, TypeOK, TouchedKnown, StampsInv, InfoInv, EnrolmentStands
<1>8. QED
  BY <1>1, <1>2, <1>3, <1>4, <1>5, <1>6, <1>7, <1>9 DEF Next

(* The invariant of the registry, for all agents, handlers and time limits.  *)
THEOREM RegistryInvariant == Spec => []RegistryInv
<1>1. QED
  BY RegistryInvInit, RegistryInvNext, PTL DEF Spec

(* The registry, the handlers and the history keep their types               *)
(* (agents.go, clickhouse.go).                                               *)
THEOREM TypeCorrect == Spec => []TypeOK
<1>1. RegistryInv => TypeOK
  BY DEF RegistryInv
<1>2. QED
  BY <1>1, RegistryInvariant, PTL

(* Only a write that an enrolment overtook undoes the enrolment (Touch,      *)
(* UpsertAgent, clickhouse.go).                                              *)
THEOREM EnrolmentSafety == Spec => []EnrolmentStands
<1>1. RegistryInv => EnrolmentStands
  BY DEF RegistryInv, InfoInv
<1>2. QED
  BY <1>1, RegistryInvariant, PTL

(* An agent heard from within DisconnectAfter - WriteWithin is listed as     *)
(* active, whatever writes race, unless the insert that landed last outlived *)
(* its time limit (AgentInfo.status, agents.go; CHClient, clickhouse.go).    *)
THEOREM ActiveSafety == Spec => []ActiveWhileHeard
<1>1. RegistryInv => ActiveWhileHeard
  <2> SUFFICES ASSUME RegistryInv, NEW a \in DOMAIN registry, a \notin late,
                      clock - contact[a] <= DisconnectAfter - WriteWithin
               PROVE  Listing[a].status = "active"
    BY DEF ActiveWhileHeard
  <2>1. registry[a].seen \in 0 .. MaxClock /\ clock \in Int
    BY AgentRegistryAssumption DEF RegistryInv, TypeOK, Entry
  <2>2. contact[a] \in Int /\ contact[a] - registry[a].seen <= WriteWithin
    BY DEF RegistryInv, StampsInv
  <2>3. registry[a].seen # Never /\ ~(clock - registry[a].seen > DisconnectAfter)
    BY <2>1, <2>2, AgentRegistryAssumption DEF Never
  <2>4. Status(registry[a]) = "active"
    BY <2>3 DEF Status
  <2>5. QED
    BY <2>4 DEF Listing
<1>2. QED
  BY <1>1, RegistryInvariant, PTL
-----------------------------------------------------------------------------
(* The backend's copy of the registry                                        *)

(* While no two tasks have held rows at the same time there is one row per   *)
(* agent at most, one task with rows, and its view of the table lacks none.  *)
OneTaskKnowsAll ==
    ~overlapped =>
        /\ \A r, q \in rows : r.agent = q.agent => r.n = q.n
        /\ \A v, w \in Workers :
            worker[v].phase = "loaded" /\ worker[w].phase = "loaded" => v = w
        /\ \A w \in Workers : worker[w].phase = "loaded" =>
            \A r \in rows : r.agent \in DOMAIN worker[w].existing

(* Rows are records of four columns, and a task is known by its worker.      *)
InventoryInv ==
    /\ worker = [w \in Workers |-> worker[w]]
    /\ \A r \in rows : r = [agent |-> r.agent, n |-> r.n, info |-> r.info, status |-> r.status]
    /\ OneTaskKnowsAll

(* At the start the table is empty and every worker idle.                    *)
LEMMA InventoryInvInit == InventoryInit => InventoryInv
<1> SUFFICES ASSUME InventoryInit PROVE InventoryInv
  OBVIOUS
<1>1. rows = {} /\ worker = [w \in Workers |-> IdleWorker]
  BY DEF InventoryInit
<1>2. \A w \in Workers : worker[w].phase = "idle"
  BY <1>1 DEF IdleWorker
<1>3. QED
  BY <1>1, <1>2 DEF InventoryInv, OneTaskKnowsAll

(* A task that ends, or lists, holds no rows.                                *)
LEMMA WorkerTurns ==
    ASSUME InventoryInv, NEW w \in Workers, NEW task, task.phase # "loaded",
           worker' = [worker EXCEPT ![w] = task], rows' = rows, overlapped' = overlapped
    PROVE  InventoryInv'
<1>1. worker' = [v \in Workers |-> worker'[v]]
  BY DEF InventoryInv
<1>2. \A v \in Workers : worker'[v] = IF v = w THEN task ELSE worker[v]
  BY DEF InventoryInv
<1>3. \A v \in Workers : worker'[v].phase = "loaded" => worker'[v] = worker[v]
  BY <1>2
<1>4. OneTaskKnowsAll'
  BY <1>3 DEF InventoryInv, OneTaskKnowsAll
<1>5. QED
  BY <1>1, <1>4 DEF InventoryInv

(* Rows may go at any time.                                                  *)
LEMMA RowsGo ==
    ASSUME InventoryInv, rows' \subseteq rows, worker' = worker, overlapped' = overlapped
    PROVE  InventoryInv'
BY DEF InventoryInv, OneTaskKnowsAll

(* A task reads the table: it knows the agents of all rows, and it overlaps  *)
(* whoever has read before.                                                  *)
LEMMA SyncLoadKeeps ==
    ASSUME InventoryInv, NEW w \in Workers, SyncLoad(w)
    PROVE  InventoryInv'
<1>1. PICK existing \in [{r.agent : r \in rows} -> rows] :
         worker' = [worker EXCEPT ![w] =
             [phase |-> "loaded", list |-> worker[w].list, existing |-> existing]]
  BY DEF SyncLoad, Load
<1>2. /\ overlapped' = (overlapped \/ \E v \in Workers : worker[v].phase = "loaded")
      /\ rows' = rows
  BY DEF SyncLoad, Load
<1> DEFINE task == [phase |-> "loaded", list |-> worker[w].list, existing |-> existing]
<1>3. task.existing = existing
  OBVIOUS
<1>4. worker' = [worker EXCEPT ![w] = task]
  BY <1>1
<1> HIDE DEF task
<1>5. worker' = [v \in Workers |-> worker'[v]]
  BY <1>4 DEF InventoryInv
<1>6. \A v \in Workers : worker'[v] = IF v = w THEN task ELSE worker[v]
  BY <1>4 DEF InventoryInv
<1>7. ASSUME ~overlapped'
      PROVE  /\ \A r \in rows, q \in rows : r.agent = q.agent => r.n = q.n
             /\ \A v \in Workers : worker'[v].phase = "loaded" => v = w
             /\ \A r \in rows : r.agent \in DOMAIN worker'[w].existing
  <2>1. ~overlapped /\ \A v \in Workers : worker[v].phase # "loaded"
    BY <1>2, <1>7
  <2>2. \A r \in rows, q \in rows : r.agent = q.agent => r.n = q.n
    BY <2>1 DEF InventoryInv, OneTaskKnowsAll
  <2>3. \A v \in Workers : worker'[v].phase = "loaded" => v = w
    BY <1>6, <2>1
  <2>4. \A r \in rows : r.agent \in DOMAIN worker'[w].existing
    BY <1>1, <1>3, <1>6
  <2>5. QED
    BY <2>2, <2>3, <2>4
<1>8. OneTaskKnowsAll'
  BY <1>2, <1>7 DEF OneTaskKnowsAll
<1>9. QED
  BY <1>2, <1>5, <1>8 DEF InventoryInv

(* A task commits: it changes no row's key, and an agent gets a row only if  *)
(* the task knew of none.                                                    *)
LEMMA SyncCommitKeeps ==
    ASSUME InventoryInv, NEW w \in Workers, SyncCommit(w)
    PROVE  InventoryInv'
<1> DEFINE got      == worker[w].list
           existing == worker[w].existing
           known    == DOMAIN got \intersect DOMAIN existing
           touched  == {Id(existing[a]) : a \in known}
           stayed   == {r \in rows : Id(r) \notin touched}
           changed  == {Updated(r, existing[r.agent], got[r.agent]) :
                          r \in {q \in rows : Id(q) \in touched}}
           added    == {NewRow(a, got[a]) : a \in DOMAIN got \ known}
<1>1. /\ worker[w].phase = "loaded"
      /\ rows' = stayed \union changed \union added
      /\ worker' = [worker EXCEPT ![w] = IdleWorker] /\ overlapped' = overlapped
  BY DEF SyncCommit
<1>2. ASSUME NEW r \in rows, NEW loaded, NEW shape, NEW u,
             u = Updated(r, loaded, shape)
      PROVE  /\ u.agent = r.agent /\ u.n = r.n
             /\ u = [agent |-> u.agent, n |-> u.n, info |-> u.info, status |-> u.status]
  <2> DEFINE i == IF shape.info # loaded.info THEN shape.info ELSE r.info
             half == [r EXCEPT !.info = i]
  <2>1. r = [agent |-> r.agent, n |-> r.n, info |-> r.info, status |-> r.status]
    BY DEF InventoryInv
  <2>2. half = [agent |-> r.agent, n |-> r.n, info |-> i, status |-> r.status]
    BY <2>1
  <2>3. \E s : u = [half EXCEPT !.status = s]
    BY <1>2 DEF Updated
  <2> HIDE DEF half, i
  <2>4. PICK s : u = [half EXCEPT !.status = s]
    BY <2>3
  <2>5. u = [agent |-> r.agent, n |-> r.n, info |-> i, status |-> s]
    BY <2>2, <2>4
  <2>6. QED
    BY <2>5
<1>3. ASSUME NEW a, NEW shape, NEW u, u = NewRow(a, shape)
      PROVE  /\ u.agent = a /\ u.n = FreshKey(a)
             /\ u = [agent |-> u.agent, n |-> u.n, info |-> u.info, status |-> u.status]
  BY <1>3 DEF NewRow
<1>4. ASSUME NEW u \in rows'
      PROVE  /\ u = [agent |-> u.agent, n |-> u.n, info |-> u.info, status |-> u.status]
             /\ \/ \E r \in rows : u.agent = r.agent /\ u.n = r.n
                \/ /\ u.agent \in DOMAIN got \ known
                   /\ u.n = FreshKey(u.agent)
  <2>1. CASE u \in stayed
    BY <2>1 DEF InventoryInv
  <2>2. CASE u \in changed
    <3>1. PICK r \in rows : u = Updated(r, existing[r.agent], got[r.agent])
      BY <2>2
    <3>2. QED
      BY <1>2, <3>1
  <2>3. CASE u \in added
    <3>1. PICK a \in DOMAIN got \ known : u = NewRow(a, got[a])
      BY <2>3
    <3>2. QED
      BY <1>3, <3>1
  <2>4. QED
    BY <1>1, <2>1, <2>2, <2>3
<1> HIDE DEF stayed, changed, added, touched
<1>5. worker' = [v \in Workers |-> worker'[v]]
  BY <1>1 DEF InventoryInv
<1>6. \A v \in Workers : worker'[v] = IF v = w THEN IdleWorker ELSE worker[v]
  BY <1>1 DEF InventoryInv
<1>7. ASSUME ~overlapped
      PROVE  /\ \A r \in rows', q \in rows' : r.agent = q.agent => r.n = q.n
             /\ \A v \in Workers : worker'[v].phase # "loaded"
  <2>1. /\ \A r \in rows, q \in rows : r.agent = q.agent => r.n = q.n
        /\ \A r \in rows : r.agent \in DOMAIN existing
        /\ \A v \in Workers : worker[v].phase = "loaded" => v = w
    BY <1>1, <1>7 DEF InventoryInv, OneTaskKnowsAll
  <2>2. \A v \in Workers : worker'[v].phase # "loaded"
    BY <1>6, <2>1 DEF IdleWorker
  <2>3. \A r \in rows : r.agent \notin DOMAIN got \ known
    BY <2>1
  <2> HIDE DEF known, got, existing
  <2>4. \A r \in rows', q \in rows' : r.agent = q.agent => r.n = q.n
    BY <1>4, <2>1, <2>3
  <2>5. QED
    BY <2>2, <2>4
<1>8. OneTaskKnowsAll'
  BY <1>1, <1>7 DEF OneTaskKnowsAll
<1>9. QED
  BY <1>4, <1>5, <1>8 DEF InventoryInv

(* Every step keeps it.                                                      *)
LEMMA InventoryInvStep ==
    InventoryInv /\ [InventoryNext]_inventoryVars => InventoryInv'
<1> SUFFICES ASSUME InventoryInv, [InventoryNext]_inventoryVars PROVE InventoryInv'
  OBVIOUS
<1>1. IdleWorker.phase # "loaded"
  BY DEF IdleWorker
<1>2. CASE UNCHANGED inventoryVars
  BY <1>2, RowsGo DEF inventoryVars
<1>3. CASE \E a \in AgentIds, shape \in Shape : EngineChanges(a, shape)
  BY <1>3, RowsGo DEF EngineChanges
<1>4. ASSUME NEW w \in Workers, SyncStep(w) \/ SyncFails(w)
      PROVE  InventoryInv'
  <2>1. CASE SyncList(w)
    <3> DEFINE task == [phase |-> "listed", list |-> listed]
    <3>1. task.phase # "loaded"
      OBVIOUS
    <3>2. worker' = [worker EXCEPT ![w] = task] /\ rows' = rows /\ overlapped' = overlapped
      BY <2>1 DEF SyncList
    <3> HIDE DEF task
    <3>3. QED
      BY <3>1, <3>2, WorkerTurns
  <2>2. CASE SyncLoad(w)
    BY <2>2, SyncLoadKeeps
  <2>3. CASE SyncCommit(w)
    BY <2>3, SyncCommitKeeps
  <2>4. CASE SyncConflict(w)
    BY <1>1, <2>4, WorkerTurns DEF SyncConflict
  <2>5. CASE SyncFails(w)
    BY <1>1, <2>5, WorkerTurns DEF SyncFails
  <2>6. QED
    BY <1>4, <2>1, <2>2, <2>3, <2>4, <2>5 DEF SyncStep
<1>5. CASE \E r \in rows : RemoveStart(r)
  BY <1>5, RowsGo DEF RemoveStart
<1>6. CASE \E id \in removing : RemoveCommit(id) \/ RemoveRefused(id)
  <2>1. PICK id \in removing : RemoveCommit(id) \/ RemoveRefused(id)
    BY <1>6
  <2>2. rows' \subseteq rows /\ worker' = worker /\ overlapped' = overlapped
    BY <2>1 DEF RemoveCommit, RemoveRefused
  <2>3. QED
    BY <2>2, RowsGo
<1>7. QED
  BY <1>2, <1>3, <1>4, <1>5, <1>6 DEF InventoryNext

(* The sync tasks keep one row per agent as long as no two of them hold rows *)
(* at the same time, for any number of agents, workers and removals          *)
(* (_do_sync_agents, workers/tasks.py; delete_agent, router.py).             *)
THEOREM InventorySafety == InventorySpec => []OneRowUnlessOverlapped
<1>1. InventoryInv => OneRowUnlessOverlapped
  BY DEF InventoryInv, OneTaskKnowsAll, OneRowUnlessOverlapped,
     Duplicated
<1>2. QED
  BY <1>1, InventoryInvInit, InventoryInvStep, PTL DEF InventorySpec

-----------------------------------------------------------------------------
(* A behaviour of the fleet is one of the registry and one of the copy.      *)
LEMMA PartsOfFleet == FleetSpec => Spec /\ InventorySpec
<1>1. FleetInit => Init /\ InventoryInit
  BY DEF FleetInit
<1>2. [FleetNext]_fleetVars => [Next]_vars /\ [InventoryNext]_inventoryVars
  BY Zenon DEF FleetNext, fleetVars
<1>3. QED
  BY <1>1, <1>2, PTL DEF FleetSpec, Spec, InventorySpec

(* So the engine's table and the backend's copy keep in the composition what *)
(* each of them promises (agents.go, workers/tasks.py).                      *)
THEOREM FleetSafety ==
    FleetSpec => [](EnrolmentStands /\ ActiveWhileHeard /\ OneRowUnlessOverlapped)
BY PartsOfFleet, EnrolmentSafety, ActiveSafety, InventorySafety, PTL
=============================================================================
