---------------------------- MODULE FrontendProofs ----------------------------
(***************************************************************************)
(* What the pages of the browser app promise for any number of questions,  *)
(* users, requests and changes.  Each part of Frontend is proved by itself *)
(* and the app inherits it, a behaviour of the app being one of each part. *)
(***************************************************************************)
EXTENDS Frontend, TLAPS, FiniteSetTheorems

-----------------------------------------------------------------------------
(* Entries of the query cache                                              *)

(* An entry is what its five fields say.                                     *)
LEMMA EntryFields ==
    ASSUME NEW Data, NEW e \in Entries(Data)
    PROVE  /\ e.has \in BOOLEAN /\ e.stale \in BOOLEAN /\ e.fetch \in FetchStates
           /\ e.data \in Data /\ e.read \in Data
           /\ e = [has |-> e.has, data |-> e.data, fetch |-> e.fetch,
                   read |-> e.read, stale |-> e.stale]
BY DEF Entries

(* A fetch begins: nothing is known anew.                                    *)
LEMMA SendFacts ==
    ASSUME NEW Data, NEW e \in Entries(Data)
    PROVE  /\ Send(e) \in Entries(Data)
           /\ Send(e).has = e.has /\ Send(e).stale = e.stale /\ Send(e).data = e.data
           /\ Send(e).fetch = "sent" /\ Send(e).read = e.data
<1>1. Send(e) = [has |-> e.has, data |-> e.data, fetch |-> "sent",
                 read |-> e.data, stale |-> e.stale]
  <2> DEFINE turned == [e EXCEPT !.fetch = "sent"]
  <2>1. turned = [has |-> e.has, data |-> e.data, fetch |-> "sent",
                  read |-> e.read, stale |-> e.stale]
    BY DEF Entries
  <2>2. Send(e) = [turned EXCEPT !.read = e.data]
    BY DEF Send
  <2>3. QED
    BY <2>1, <2>2
<1>2. QED
  BY <1>1 DEF Entries, FetchStates

(* The backend reads: only what the fetch will bring is known anew.          *)
LEMMA ReadFacts ==
    ASSUME NEW Data, NEW e \in Entries(Data), NEW rs \in Data
    PROVE  /\ BackendReads(e, rs) \in Entries(Data)
           /\ BackendReads(e, rs).has = e.has /\ BackendReads(e, rs).stale = e.stale
           /\ BackendReads(e, rs).data = e.data /\ BackendReads(e, rs).fetch = "read"
           /\ BackendReads(e, rs).read = rs
<1>1. BackendReads(e, rs) = [has |-> e.has, data |-> e.data, fetch |-> "read",
                             read |-> rs, stale |-> e.stale]
  <2> DEFINE turned == [e EXCEPT !.fetch = "read"]
  <2>1. turned = [has |-> e.has, data |-> e.data, fetch |-> "read",
                  read |-> e.read, stale |-> e.stale]
    BY DEF Entries
  <2>2. BackendReads(e, rs) = [turned EXCEPT !.read = rs]
    BY DEF BackendReads
  <2>3. QED
    BY <2>1, <2>2
<1>2. QED
  BY <1>1 DEF Entries, FetchStates

(* The answer arrives: what was read is shown.                               *)
LEMMA ReceivedFacts ==
    ASSUME NEW Data, NEW e \in Entries(Data)
    PROVE  /\ Received(e) \in Entries(Data)
           /\ Received(e).has = TRUE /\ Received(e).stale = FALSE
           /\ Received(e).data = e.read /\ Received(e).read = e.read
           /\ Received(e).fetch = "idle"
<1>1. Received(e) = [has |-> TRUE, data |-> e.read, fetch |-> "idle",
                     read |-> e.read, stale |-> FALSE]
  <2>1. DOMAIN Received(e) = {"has", "data", "fetch", "read", "stale"}
    BY DEF Received, Entries
  <2>2. Received(e) = [i \in {"has", "data", "fetch", "read", "stale"} |-> Received(e)[i]]
    BY <2>1 DEF Received
  <2>3. /\ Received(e).has = TRUE /\ Received(e).data = e.read /\ Received(e).fetch = "idle"
        /\ Received(e).read = e.read /\ Received(e).stale = FALSE
    BY DEF Received, Entries
  <2>4. QED
    BY <2>1, <2>2, <2>3
<1>2. e.read \in Data /\ "idle" \in FetchStates
  BY DEF Entries, FetchStates
<1>3. QED
  BY <1>1, <1>2 DEF Entries

(* A fetch is given up: nothing is known anew.                               *)
LEMMA GivenUpFacts ==
    ASSUME NEW Data, NEW e \in Entries(Data)
    PROVE  /\ GivenUp(e) \in Entries(Data)
           /\ GivenUp(e).has = e.has /\ GivenUp(e).stale = e.stale
           /\ GivenUp(e).data = e.data /\ GivenUp(e).fetch = "idle"
<1>1. GivenUp(e) = [has |-> e.has, data |-> e.data, fetch |-> "idle",
                    read |-> e.data, stale |-> e.stale]
  <2> DEFINE turned == [e EXCEPT !.fetch = "idle"]
  <2>1. turned = [has |-> e.has, data |-> e.data, fetch |-> "idle",
                  read |-> e.read, stale |-> e.stale]
    BY DEF Entries
  <2>2. GivenUp(e) = [turned EXCEPT !.read = e.data]
    BY DEF GivenUp
  <2>3. QED
    BY <2>1, <2>2
<1>2. QED
  BY <1>1 DEF Entries, FetchStates

(* Age makes what there is stale.                                            *)
LEMMA AgedFacts ==
    ASSUME NEW Data, NEW e \in Entries(Data), NEW old \in BOOLEAN
    PROVE  /\ Aged(e, old) \in Entries(Data)
           /\ Aged(e, old).has = e.has /\ Aged(e, old).data = e.data
           /\ Aged(e, old).fetch = e.fetch /\ Aged(e, old).read = e.read
           /\ e.has /\ e.stale => Aged(e, old).stale
<1>1. CASE old
  <2>1. Aged(e, old) = [has |-> e.has, data |-> e.data, fetch |-> e.fetch,
                        read |-> e.read, stale |-> e.has]
    BY <1>1 DEF Aged, Entries
  <2>2. QED
    BY <2>1 DEF Entries
<1>2. CASE ~old
  BY <1>2 DEF Aged, Entries
<1>3. QED
  BY <1>1, <1>2

(* What is turned to is fetched unless it is there and fresh, or on its way. *)
LEMMA ObservedFacts ==
    ASSUME NEW Data, NEW e \in Entries(Data)
    PROVE  /\ Observed(e) \in Entries(Data)
           /\ Observed(e).has = e.has /\ Observed(e).stale = e.stale
           /\ Observed(e).data = e.data
           /\ \/ Observed(e).fetch = e.fetch /\ Observed(e).read = e.read
              \/ e.fetch = "idle" /\ Observed(e).fetch = "sent" /\ Observed(e).read = e.data
BY SendFacts DEF Observed

(* An invalidation leaves what there is as stale data, or as data that are   *)
(* being fetched, or joins a fetch.                                          *)
LEMMA InvalidatedFacts ==
    ASSUME NEW Data, NEW e \in Entries(Data), NEW active \in BOOLEAN
    PROVE  /\ Invalidated(e, active) \in Entries(Data)
           /\ Invalidated(e, active).has = e.has /\ Invalidated(e, active).data = e.data
           /\ e.has => Invalidated(e, active).stale
           /\ \/ /\ Joins(e, active) /\ Invalidated(e, active).fetch = e.fetch
                 /\ Invalidated(e, active).read = e.read
              \/ /\ ~Joins(e, active) /\ ~active /\ e.fetch = "idle"
                 /\ Invalidated(e, active).fetch = e.fetch
                 /\ Invalidated(e, active).read = e.read
              \/ /\ ~Joins(e, active) /\ Invalidated(e, active).fetch = "sent"
<1> DEFINE marked == [e EXCEPT !.stale = e.has \/ e.fetch # "idle"]
<1>1. marked = [has |-> e.has, data |-> e.data, fetch |-> e.fetch,
                read |-> e.read, stale |-> e.has \/ e.fetch # "idle"]
  BY DEF Entries
<1>2. marked \in Entries(Data)
  BY <1>1 DEF Entries
<1>3. /\ marked.has = e.has /\ marked.data = e.data /\ marked.fetch = e.fetch
      /\ marked.read = e.read /\ (e.has => marked.stale)
  BY <1>1
<1> HIDE DEF marked
<1>4. CASE active /\ ~Joins(e, active)
  <2>1. Invalidated(e, active) = Send(marked)
    BY <1>4 DEF Invalidated, marked
  <2>2. QED
    <3>1. /\ Send(marked) \in Entries(Data) /\ Send(marked).has = marked.has
          /\ Send(marked).stale = marked.stale /\ Send(marked).data = marked.data
          /\ Send(marked).fetch = "sent"
      BY <1>2, SendFacts
    <3>2. QED
      BY <1>3, <1>4, <2>1, <3>1
<1>5. CASE ~(active /\ ~Joins(e, active))
  <2>1. Invalidated(e, active) = marked
    BY <1>5 DEF Invalidated, marked
  <2>2. ~Joins(e, active) => ~active /\ e.fetch = "idle"
    BY <1>5 DEF Joins
  <2>3. QED
    BY <1>2, <1>3, <2>1, <2>2
<1>6. QED
  BY <1>4, <1>5

-----------------------------------------------------------------------------
(* AskPanels: the answer that is shown                                     *)

(* A panel that lets only one question be asked at a time has none of this   *)
(* mount on its way but the last; any other looks which one is answered.     *)
LastOnly ==
    panel.guarded => \A q \in asking : q[2] = mount => q = <<asked, mount>> /\ awaiting

(* Questions and mounts are numbered as they come.                           *)
AskNumbered ==
    /\ asked <= questions /\ mount <= questions /\ (asked # 0 => mount < questions)
    /\ \A q \in asking : q[2] <= mount

AskInv ==
    /\ AskTypeOK /\ AskNumbered /\ LastOnly
    /\ panel.clears => result \in {0, asked}
    /\ ShownAnswersLast

(* Every panel is guarded, or looks which question was answered.             *)
LEMMA PanelsLook ==
    \A p \in Panels : p.guarded \/ p.latest
<1>1. /\ TestTab.guarded /\ RuleGenTab.guarded /\ NormalizeTab.guarded /\ YaraLTab.guarded
      /\ IocLookup.guarded /\ LeakSearch.guarded /\ WidgetPrompt.latest
  BY DEF TestTab, RuleGenTab, NormalizeTab, YaraLTab, IocLookup, LeakSearch, WidgetPrompt
<1>2. QED
  BY <1>1 DEF Panels

(* Before anything is asked, nothing is shown.                               *)
LEMMA AskInvInit == AskInit => AskInv
<1> SUFFICES ASSUME AskInit PROVE AskInv
  OBVIOUS
<1>1. /\ panel \in Panels /\ asking = {} /\ mount = 0 /\ awaiting = FALSE
      /\ result = 0 /\ asked = 0 /\ questions = 0 /\ refused = FALSE
  BY DEF AskInit
<1>2. AskTypeOK
  <2>1. awaiting \in BOOLEAN /\ refused \in BOOLEAN
    BY <1>1
  <2>2. asking \subseteq (1 .. MaxAsked) \X (0 .. MaxAsked)
    BY <1>1
  <2>3. QED
    BY <1>1, <2>1, <2>2, AskAssumption DEF AskTypeOK
<1>3. QED
  BY <1>1, <1>2 DEF AskInv, AskNumbered, LastOnly, ShownAnswersLast

(* What a panel takes note of is the answer to its latest question.          *)
LEMMA NoticedIsLast ==
    ASSUME AskInv, NEW q \in asking, Noticed(q)
    PROVE  q = <<asked, mount>>
<1>1. q \in (1 .. MaxAsked) \X (0 .. MaxAsked) /\ panel \in Panels
  BY DEF AskInv, AskTypeOK
<1>2. q[2] = mount /\ (panel.latest => q[1] = asked)
  BY DEF Noticed
<1>3. CASE panel.guarded
  BY <1>2, <1>3 DEF AskInv, LastOnly
<1>4. CASE panel.latest
  BY <1>1, <1>2, <1>4
<1>5. QED
  BY <1>1, <1>3, <1>4, PanelsLook

(* Every step keeps the invariant.                                           *)
LEMMA AskInvNext == AskInv /\ [AskNext]_askVars => AskInv'
<1> SUFFICES ASSUME AskInv, [AskNext]_askVars PROVE AskInv'
  OBVIOUS
<1> USE AskAssumption
<1>0. /\ panel \in Panels /\ AskTypeOK /\ AskNumbered
      /\ questions \in 0 .. MaxAsked /\ mount \in 0 .. MaxAsked /\ asked \in 0 .. MaxAsked
      /\ result \in 0 .. MaxAsked /\ asking \subseteq (1 .. MaxAsked) \X (0 .. MaxAsked)
      /\ awaiting \in BOOLEAN /\ refused \in BOOLEAN
      /\ \A q \in asking : q[1] \in 1 .. MaxAsked /\ q[2] \in 0 .. MaxAsked
                               /\ q = <<q[1], q[2]>>
  BY DEF AskInv, AskTypeOK
<1>1. CASE Ask
  <2>1. panel' = panel /\ mount' = mount /\ asked' = questions + 1 /\ questions' = questions + 1
        /\ awaiting' = TRUE /\ refused' = FALSE /\ questions < MaxAsked
        /\ asking' = asking \union {<<questions + 1, mount>>}
        /\ result' = IF panel.clears THEN 0 ELSE result
    BY <1>1 DEF Ask
  <2>2. AskTypeOK'
    <3>1. questions + 1 \in 1 .. MaxAsked /\ <<questions + 1, mount>> \in (1 .. MaxAsked) \X (0 .. MaxAsked)
      BY <1>0, <2>1
    <3>2. asking' \subseteq (1 .. MaxAsked) \X (0 .. MaxAsked)
      BY <1>0, <2>1, <3>1
    <3>3. result' \in 0 .. MaxAsked
      BY <1>0, <2>1
    <3>4. awaiting' \in BOOLEAN /\ refused' \in BOOLEAN
      BY <2>1
    <3>5. questions' \in 0 .. MaxAsked /\ asked' \in 0 .. MaxAsked
      BY <2>1, <3>1
    <3>6. QED
      BY <1>0, <2>1, <3>2, <3>3, <3>4, <3>5 DEF AskTypeOK
  <2>3. AskNumbered'
    BY <1>0, <2>1 DEF AskNumbered
  <2>4. LastOnly'
    <3>1. panel.guarded => ~awaiting
      BY <1>1 DEF Ask, Offered
    <3>2. panel.guarded => \A q \in asking : q[2] # mount
      BY <3>1 DEF AskInv, LastOnly
    <3>3. QED
      BY <2>1, <3>2 DEF LastOnly
  <2>5. ShownAnswersLast'
    BY <1>0, <2>1 DEF ShownAnswersLast
  <2>6. QED
    BY <1>0, <2>1, <2>2, <2>3, <2>4, <2>5 DEF AskInv
<1>2. ASSUME NEW q \in asking, Answer(q) \/ Fail(q) PROVE AskInv'
  <2>1. /\ panel' = panel /\ mount' = mount /\ asked' = asked /\ questions' = questions
        /\ asking' = asking \ {q}
        /\ ~Noticed(q) => awaiting' = awaiting /\ result' = result /\ refused' = refused
        /\ Noticed(q) => awaiting' = FALSE
        /\ Noticed(q) => \/ result' = q[1] /\ refused' = refused
                         \/ result' = result /\ refused' = TRUE
    BY <1>2 DEF Answer, Fail
  <2>2. Noticed(q) => q = <<asked, mount>> /\ q[1] = asked
    BY NoticedIsLast
  <2>3. AskTypeOK'
    <3>1. asking' \subseteq (1 .. MaxAsked) \X (0 .. MaxAsked)
      BY <1>0, <2>1
    <3>2. result' \in 0 .. MaxAsked
      BY <1>0, <2>1
    <3>3. awaiting' \in BOOLEAN /\ refused' \in BOOLEAN
      BY <1>0, <2>1
    <3>4. QED
      BY <1>0, <2>1, <3>1, <3>2, <3>3 DEF AskTypeOK
  <2>4. AskNumbered'
    BY <1>0, <2>1 DEF AskNumbered
  <2>5. LastOnly'
    BY <1>0, <2>1, <2>2 DEF AskInv, LastOnly
  <2>6. (panel.clears => result \in {0, asked})'
    BY <2>1, <2>2 DEF AskInv
  <2>7. ShownAnswersLast'
    <3>1. CASE Noticed(q)
      BY <2>1, <2>2, <3>1 DEF AskInv, ShownAnswersLast
    <3>2. CASE ~Noticed(q)
      <4>1. awaiting => <<asked, mount>> # q
        BY <3>2, <1>0 DEF Noticed
      <4>2. QED
        BY <2>1, <3>2, <4>1 DEF AskInv, ShownAnswersLast
    <3>3. QED
      BY <3>1, <3>2
  <2>8. QED
    BY <2>3, <2>4, <2>5, <2>6, <2>7 DEF AskInv
<1>3. CASE Switch
  <2>1. /\ result' = 0 /\ UNCHANGED <<panel, asking, mount, awaiting, asked, questions, refused>>
    BY <1>3 DEF Switch
  <2>2. QED
    BY <1>0, <2>1 DEF AskInv, AskTypeOK, AskNumbered, LastOnly, ShownAnswersLast
<1>4. CASE Reopen
  <2>1. /\ asked # 0 /\ mount' = mount + 1 /\ UNCHANGED <<panel, asking, questions>>
        /\ awaiting' = FALSE /\ result' = 0 /\ asked' = 0 /\ refused' = FALSE
    BY <1>4 DEF Reopen
  <2>2. AskNumbered'
    BY <1>0, <2>1 DEF AskNumbered
  <2>3. LastOnly' /\ ShownAnswersLast'
    BY <1>0, <2>1 DEF AskNumbered, LastOnly, ShownAnswersLast
  <2>4. AskTypeOK'
    <3>1. mount + 1 \in 0 .. MaxAsked
      BY <1>0, <2>1 DEF AskNumbered
    <3>2. awaiting' \in BOOLEAN /\ refused' \in BOOLEAN
      BY <2>1
    <3>3. QED
      BY <1>0, <2>1, <3>1, <3>2 DEF AskTypeOK
  <2>5. QED
    BY <2>1, <2>2, <2>3, <2>4 DEF AskInv
<1>5. CASE UNCHANGED askVars
  BY <1>5 DEF askVars, AskInv, AskTypeOK, AskNumbered, LastOnly, ShownAnswersLast, Noticed
<1>6. QED
  BY <1>1, <1>2, <1>3, <1>4, <1>5 DEF AskNext

(* Hence in every state of the panels.                                       *)
LEMMA AskInvariant == AskSpec => []AskInv
BY AskInvInit, AskInvNext, PTL DEF AskSpec

-----------------------------------------------------------------------------
(* SignIn: whose session it is                                             *)

(* A form that waits for an answer is the one submitted last, and no other   *)
(* answer is awaited.                                                        *)
LastForm ==
    \A a \in attempts : a.here =>
        /\ place = "login" /\ loading /\ a.user = submitted
        /\ \A b \in attempts : b.here => b = a

(* Sessions are numbered as they begin.                                      *)
SessionNumbered == SignedIn => session.n \in 1 .. begun

(* Of a session that began with nothing on its way, all that is on its way   *)
(* is its own.                                                               *)
OnlyOwnCalls ==
    SignedIn /\ clean =>
        /\ calls \subseteq {session.n}
        /\ me.fetch # "idle" => asker = session

(* Before the first session since the page was loaded nothing is asked or    *)
(* cached; during it, only what is its own.                                  *)
FirstSince ==
    ~handed =>
        /\ ~SignedIn => calls = {} /\ me = NoEntry(Nobody)
        /\ SignedIn => /\ me.fetch # "idle" => asker = session
                       /\ me.has => me.data = session.user
                       /\ me.fetch = "read" => me.read = session.user

SignInInv == SignInTypeOK /\ LastForm /\ SessionNumbered /\ OnlyOwnCalls /\ FirstSince

(* An empty entry has nothing, and nothing is on its way.                    *)
LEMMA NoEntryFacts ==
    ASSUME NEW Data, NEW empty \in Data
    PROVE  /\ NoEntry(empty) \in Entries(Data)
           /\ ~NoEntry(empty).has /\ NoEntry(empty).fetch = "idle" /\ ~NoEntry(empty).stale
           /\ NoEntry(empty).data = empty /\ NoEntry(empty).read = empty
BY DEF NoEntry, Entries, FetchStates

(* Forms that are left keep their kind and user.                             *)
LEMMA AbandonedFacts ==
    ASSUME NEW as \in SUBSET Attempts
    PROVE  Abandoned(as) \subseteq Attempts /\ \A a \in Abandoned(as) : ~a.here
<1>1. \A a \in as : [a EXCEPT !.here = FALSE] = [kind |-> a.kind, user |-> a.user, here |-> FALSE]
  <2> SUFFICES ASSUME NEW a \in as
               PROVE  [a EXCEPT !.here = FALSE] = [kind |-> a.kind, user |-> a.user, here |-> FALSE]
    OBVIOUS
  <2> DEFINE left == [a EXCEPT !.here = FALSE]
  <2>1. DOMAIN left = {"kind", "user", "here"}
    BY DEF Attempts
  <2>2. left = [i \in {"kind", "user", "here"} |-> left[i]]
    BY <2>1
  <2>3. left.kind = a.kind /\ left.user = a.user /\ left.here = FALSE
    BY DEF Attempts
  <2> HIDE DEF left
  <2>4. left = [kind |-> a.kind, user |-> a.user, here |-> FALSE]
    BY <2>1, <2>2, <2>3
  <2>5. QED
    BY <2>4 DEF left
<1>2. QED
  BY <1>1 DEF Abandoned, Attempts

(* What the types say, a variable at a time.                                 *)
LEMMA SignInFacts ==
    ASSUME SignInInv
    PROVE  /\ attempts \in SUBSET Attempts /\ begun \in Nat /\ begun <= MaxSessions
           /\ me \in Entries(Users \union {Nobody})
           /\ session \in Sessions /\ session.user \in Users \union {Nobody} /\ session.n \in Nat
           /\ asker \in Sessions /\ asker.user \in Users \union {Nobody} /\ asker.n \in Nat
           /\ session # NoSession => session.n # 0
           /\ NoSession \in Sessions /\ NoSession.n = 0 /\ NoSession.user = Nobody
BY SignInAssumption
   DEF SignInInv, SignInTypeOK, SessionNumbered, Sessions, NoSession, SignedIn

(* Nobody is signed in when the browser opens the app.                       *)
LEMMA SignInInvInit == SignInInit => SignInInv
<1> SUFFICES ASSUME SignInInit PROVE SignInInv
  OBVIOUS
<1> USE SignInAssumption
<1>1. /\ place = "login" /\ email = Nobody /\ mfaToken = Nobody /\ loading = FALSE
      /\ attempts = {} /\ session = NoSession /\ begun = 0 /\ expired = {}
      /\ calls = {} /\ me = NoEntry(Nobody) /\ asker = NoSession
      /\ submitted = Nobody /\ clean = TRUE /\ handed = FALSE
  BY DEF SignInInit
<1>2. me \in Entries(Users \union {Nobody})
  BY <1>1, NoEntryFacts
<1>3. session \in Sessions /\ asker \in Sessions
  BY <1>1 DEF NoSession, Sessions
<1>4. loading \in BOOLEAN /\ clean \in BOOLEAN /\ handed \in BOOLEAN
  BY <1>1
<1>5. begun \in 0 .. MaxSessions /\ expired \subseteq 1 .. begun /\ calls \subseteq 1 .. begun
  BY <1>1
<1>6. SignInTypeOK
  BY <1>1, <1>2, <1>3, <1>4, <1>5 DEF SignInTypeOK
<1>7. QED
  BY <1>1, <1>6 DEF SignInInv, LastForm, SessionNumbered, OnlyOwnCalls, FirstSince, SignedIn

(* Steps of the forms do not concern what is on its way or cached.           *)
LEMMA SessionStill ==
    ASSUME SignInInv, UNCHANGED <<store, calls, cache>>
    PROVE  SessionNumbered' /\ OnlyOwnCalls' /\ FirstSince'
BY DEF SignInInv, SessionNumbered, OnlyOwnCalls, FirstSince, store, cache, SignedIn

(* A load of the page leaves nothing but the session, if that.               *)
LEMMA LoadedKeeps ==
    ASSUME SignInInv, NEW kept \in {session, NoSession}, Loaded(kept),
           place' \in {"login", "app"}, place' = "app" => kept # NoSession
    PROVE  SignInInv'
<1>1. /\ email' = Nobody /\ mfaToken' = Nobody /\ loading' = FALSE
      /\ attempts' = {} /\ calls' = {} /\ me' = NoEntry(Nobody) /\ asker' = NoSession
      /\ session' = kept /\ handed' = FALSE
      /\ begun' = begun /\ clean' = clean /\ expired' = expired /\ submitted' = submitted
  BY DEF Loaded, FormsAnew
<1>2. /\ me' \in Entries(Users \union {Nobody})
      /\ ~me'.has /\ me'.fetch = "idle"
  BY <1>1, NoEntryFacts
<1>3. SignInTypeOK'
  <2>1. session' \in Sessions /\ asker' \in Sessions
    BY <1>1, SignInFacts
  <2>2. loading' \in BOOLEAN /\ handed' \in BOOLEAN /\ clean' \in BOOLEAN
    BY <1>1 DEF SignInInv, SignInTypeOK
  <2>3. calls' \subseteq 1 .. begun' /\ attempts' \subseteq Attempts
    BY <1>1
  <2>4. place' = "app" => SignedIn'
    BY <1>1 DEF SignedIn
  <2>5. QED
    BY <1>1, <1>2, <2>1, <2>2, <2>3, <2>4 DEF SignInInv, SignInTypeOK
<1>4. SessionNumbered' /\ LastForm'
  BY <1>1 DEF SignInInv, SessionNumbered, LastForm, SignedIn
<1>5. OnlyOwnCalls' /\ FirstSince'
  BY <1>1, <1>2 DEF OnlyOwnCalls, FirstSince, SignedIn
<1>6. QED
  BY <1>3, <1>4, <1>5 DEF SignInInv

(* A session whose token was refused ends by loading the login page.         *)
LEMMA AutoLogoutKeeps == SignInInv /\ AutoLogout => SignInInv'
BY LoadedKeeps DEF AutoLogout

(* Loading the page anew forgets the cache and what is on its way.           *)
LEMMA ReloadKeeps == SignInInv /\ Reload => SignInInv'
<1> SUFFICES ASSUME SignInInv, Reload PROVE SignInInv'
  OBVIOUS
<1>1. Loaded(session) /\ place' = IF SignedIn THEN place ELSE "login"
  BY DEF Reload
<1>2. place' \in {"login", "app"} /\ (place' = "app" => session # NoSession)
  BY <1>1 DEF SignInInv, SignInTypeOK, SignedIn
<1>3. QED
  BY <1>1, <1>2, LoadedKeeps

(* A form is submitted when no other one is waiting.                         *)
LEMMA SubmitsKeeps ==
    ASSUME SignInInv, NEW what \in {"login", "verify"}, NEW u \in Users,
           ButtonEnabled, Submits(what, u), submitted' = u
    PROVE  SignInInv'
<1> DEFINE new == [kind |-> what, user |-> u, here |-> TRUE]
<1>1. /\ attempts' = attempts \union {new} /\ loading' = TRUE
      /\ UNCHANGED <<place, email, mfaToken, store, expired, calls, cache>>
  BY DEF Submits
<1>2. new \in Attempts /\ new.user = u
  BY DEF Attempts
<1>3. place = "login" /\ \A a \in attempts : ~a.here
  BY DEF ButtonEnabled, SignInInv, LastForm
<1> HIDE DEF new
<1>4. LastForm'
  <2>1. place' = "login"
    BY <1>1, <1>3
  <2>2. QED
    BY <1>1, <1>2, <1>3, <2>1 DEF LastForm
<1>5. SignInTypeOK'
  <2>1. attempts' \subseteq Attempts /\ loading' \in BOOLEAN
    BY <1>1, <1>2, SignInFacts
  <2>2. QED
    BY <1>1, <2>1 DEF SignInInv, SignInTypeOK, SignedIn, store, cache
<1>6. QED
  BY <1>1, <1>4, <1>5, SessionStill DEF SignInInv

(* A form that gets no session stops waiting.                                *)
LEMMA StopsWaitingKeeps ==
    ASSUME SignInInv, NEW a \in attempts, NEW u \in Users \union {Nobody}, StopsWaiting(a, u)
    PROVE  SignInInv'
<1>1. /\ attempts' = attempts \ {a}
      /\ a.here => mfaToken' = u /\ loading' = FALSE
      /\ ~a.here => mfaToken' = mfaToken /\ loading' = loading
      /\ UNCHANGED <<place, email, store, expired, calls, cache, submitted>>
  BY DEF StopsWaiting
<1>2. LastForm'
  BY <1>1 DEF SignInInv, LastForm
<1>3. SignInTypeOK'
  <2>1. loading' \in BOOLEAN
    BY <1>1 DEF SignInInv, SignInTypeOK
  <2>2. mfaToken' \in Users \union {Nobody} /\ attempts' \subseteq Attempts
    BY <1>1 DEF SignInInv, SignInTypeOK
  <2>3. QED
    BY <1>1, <2>1, <2>2 DEF SignInInv, SignInTypeOK, SignedIn, store, cache
<1>4. QED
  BY <1>1, <1>2, <1>3, SessionStill DEF SignInInv

(* A session begins.                                                         *)
LEMMA AcceptedKeeps ==
    ASSUME SignInInv, NEW a \in attempts, Accepted(a)
    PROVE  SignInInv'
<1>1. /\ begun < MaxSessions /\ begun' = begun + 1
      /\ session' = [n |-> begun + 1, user |-> a.user]
      /\ clean' = (calls = {} /\ me.fetch = "idle") /\ handed' = (handed \/ SignedIn)
      /\ place' = "app" /\ email' = Nobody /\ mfaToken' = Nobody /\ loading' = FALSE
      /\ attempts' = Abandoned(attempts \ {a})
      /\ UNCHANGED <<expired, calls, cache, submitted>>
  BY DEF Accepted, finishLogin, FormsAnew
<1>2. a.user \in Users /\ begun + 1 \in 1 .. MaxSessions
  <2>1. a.user \in Users
    BY SignInFacts DEF Attempts
  <2>2. begun \in Nat /\ begun < MaxSessions /\ MaxSessions \in Nat
    BY <1>1, SignInFacts, SignInAssumption
  <2>3. QED
    BY <2>1, <2>2
<1>3. session' \in Sessions /\ session'.n = begun + 1 /\ session'.user = a.user /\ SignedIn'
  BY <1>1, <1>2 DEF Sessions, SignedIn, NoSession
<1>4. attempts' \subseteq Attempts /\ \A b \in attempts' : ~b.here
  BY <1>1, SignInFacts, AbandonedFacts
<1>5. SignInTypeOK'
  <2>1. loading' \in BOOLEAN /\ clean' \in BOOLEAN /\ handed' \in BOOLEAN
    BY <1>1 DEF SignInInv, SignInTypeOK
  <2>2. begun' \in 0 .. MaxSessions /\ expired' \subseteq 1 .. begun' /\ calls' \subseteq 1 .. begun'
    BY <1>1, <1>2, SignInFacts DEF SignInInv, SignInTypeOK
  <2>3. QED
    BY <1>1, <1>3, <1>4, <2>1, <2>2 DEF SignInInv, SignInTypeOK, cache
<1>6. LastForm' /\ SessionNumbered'
  <2>1. LastForm'
    BY <1>4 DEF LastForm
  <2>2. begun \in Nat
    BY SignInFacts
  <2>3. SessionNumbered'
    BY <1>1, <1>3, <2>2 DEF SessionNumbered
  <2>4. QED
    BY <2>1, <2>3
<1>7. OnlyOwnCalls'
  BY <1>1, <1>3 DEF OnlyOwnCalls, cache
<1>8. FirstSince'
  <2>1. ~handed' => ~handed /\ ~SignedIn
    BY <1>1
  <2>2. ~handed' => me' = NoEntry(Nobody)
    BY <1>1, <2>1 DEF SignInInv, FirstSince, cache
  <2>3. ~handed' => ~me'.has /\ me'.fetch = "idle"
    BY <2>2, NoEntryFacts
  <2>4. QED
    BY <1>3, <2>3 DEF FirstSince
<1>9. QED
  BY <1>5, <1>6, <1>7, <1>8 DEF SignInInv

(* Signing out leaves the cache, and requests of the session on their way.   *)
LEMMA LogoutKeeps == SignInInv /\ Logout => SignInInv'
<1> SUFFICES ASSUME SignInInv, Logout PROVE SignInInv'
  OBVIOUS
<1>1. /\ place = "app" /\ place' = "login" /\ email' = Nobody /\ mfaToken' = Nobody
      /\ loading' = FALSE /\ session' = NoSession /\ handed' = TRUE
      /\ UNCHANGED <<attempts, begun, clean, expired, calls, cache, submitted>>
  BY DEF Logout, FormsAnew
<1>2. \A a \in attempts : ~a.here
  BY <1>1 DEF SignInInv, LastForm
<1>3. SignInTypeOK'
  <2>1. loading' \in BOOLEAN /\ handed' \in BOOLEAN /\ session' \in Sessions
    BY <1>1, SignInFacts
  <2>2. QED
    BY <1>1, <2>1 DEF SignInInv, SignInTypeOK, cache
<1>4. QED
  BY <1>1, <1>2, <1>3
     DEF SignInInv, LastForm, SessionNumbered, OnlyOwnCalls, FirstSince, SignedIn

(* The browser's buttons, and what is typed or expires unnoticed.            *)
LEMMA FormsKeep ==
    ASSUME SignInInv,
           History \/ BackToSignIn \/ (\E u \in Users : Type(u)) \/ \E n \in 1 .. begun : Expire(n)
    PROVE  SignInInv'
<1>1. UNCHANGED <<store, calls, cache, submitted>>
  BY DEF History, BackToSignIn, Type, Expire
<1>2. CASE History
  <2>1. /\ place' = IF place = "login" /\ SignedIn THEN "app" ELSE "login"
        /\ email' = Nobody /\ mfaToken' = Nobody /\ loading' = FALSE
        /\ attempts' = Abandoned(attempts) /\ expired' = expired
    BY <1>2 DEF History, FormsAnew
  <2>2. attempts' \subseteq Attempts /\ \A b \in attempts' : ~b.here
    BY <2>1, SignInFacts, AbandonedFacts
  <2>3. loading' \in BOOLEAN
    BY <2>1
  <2>4. SignInTypeOK'
    BY <1>1, <2>1, <2>2, <2>3 DEF SignInInv, SignInTypeOK, SignedIn, store, cache
  <2>5. QED
    BY <1>1, <2>2, <2>4, SessionStill DEF SignInInv, LastForm
<1>3. CASE BackToSignIn \/ \E u \in Users : Type(u)
  <2>1. /\ UNCHANGED <<place, loading, attempts, expired>>
        /\ email' \in Users \union {Nobody} /\ mfaToken' \in Users \union {Nobody}
    BY <1>3 DEF BackToSignIn, Type, SignInInv, SignInTypeOK
  <2>2. SignInTypeOK'
    BY <1>1, <2>1 DEF SignInInv, SignInTypeOK, SignedIn, store, cache
  <2>3. QED
    BY <1>1, <2>1, <2>2, SessionStill DEF SignInInv, LastForm
<1>4. ASSUME NEW n \in 1 .. begun, Expire(n) PROVE SignInInv'
  <2>1. UNCHANGED <<place, forms, attempts>> /\ expired' = expired \union {n}
    BY <1>4 DEF Expire
  <2>2. SignInTypeOK'
    BY <1>1, <2>1 DEF SignInInv, SignInTypeOK, SignedIn, store, cache, forms
  <2>3. QED
    BY <1>1, <2>1, <2>2, SessionStill DEF SignInInv, LastForm, forms
<1>5. QED
  BY <1>2, <1>3, <1>4

(* Requests of the session that is on.                                       *)
LEMMA CallsKeep ==
    ASSUME SignInInv, Call \/ \E n \in calls : CallAnswered(n)
    PROVE  SignInInv'
<1>1. CASE AutoLogout
  BY <1>1, AutoLogoutKeeps
<1>2. CASE /\ UNCHANGED <<place, forms, attempts, store, expired, cache, submitted>>
           /\ \/ place = "app" /\ calls' = calls \union {session.n}
              \/ \E n \in calls : calls' = calls \ {n}
  <2>1. calls' \subseteq 1 .. begun'
    BY <1>2 DEF SignInInv, SignInTypeOK, SessionNumbered, store
  <2>2. SignInTypeOK'
    BY <1>2, <2>1 DEF SignInInv, SignInTypeOK, SignedIn, store, cache, forms
  <2>3. OnlyOwnCalls' /\ SessionNumbered'
    BY <1>2 DEF SignInInv, OnlyOwnCalls, SessionNumbered, SignedIn, store, cache
  <2>4. FirstSince'
    <3>1. ~SignedIn => calls' \subseteq calls
      BY <1>2 DEF SignInInv, SignInTypeOK
    <3>2. QED
      BY <1>2, <3>1 DEF SignInInv, FirstSince, SignedIn, store, cache
  <2>5. LastForm'
    BY <1>2 DEF SignInInv, LastForm, forms
  <2>6. QED
    BY <2>2, <2>3, <2>4, <2>5 DEF SignInInv
<1>3. QED
  BY <1>1, <1>2 DEF Call, CallAnswered

(* The profile is asked for, read and shown.                                 *)
LEMMA ProfileKeeps ==
    ASSUME SignInInv, MeIsRead \/ MeArrives \/ \E old \in Ages(me) : Profile(old)
    PROVE  SignInInv'
<1> DEFINE Data == Users \union {Nobody}
<1>0. me \in Entries(Data)
  BY SignInFacts
<1>1. CASE AutoLogout
  BY <1>1, AutoLogoutKeeps
<1>2. ASSUME UNCHANGED <<place, forms, attempts, store, expired, calls, submitted>>,
             me' \in Entries(Data), asker' \in Sessions,
             me # NoEntry(Nobody) \/ SignedIn,
             me'.fetch # "idle" => asker' = IF me.fetch = "idle" THEN session ELSE asker,
             me'.has => (me.has /\ me'.data = me.data) \/ (me.fetch = "read" /\ me'.data = me.read),
             me'.fetch = "read" =>
                 \/ me.fetch = "read" /\ me'.read = me.read
                 \/ me.fetch = "sent" /\ me'.read = asker.user
      PROVE  SignInInv'
  <2>1. SignInTypeOK'
    BY <1>2 DEF SignInInv, SignInTypeOK, SignedIn, store, forms
  <2>2. OnlyOwnCalls' /\ SessionNumbered'
    BY <1>2 DEF SignInInv, OnlyOwnCalls, SessionNumbered, SignedIn, store
  <2>3. FirstSince'
    BY <1>2 DEF SignInInv, FirstSince, SignedIn, store
  <2>4. LastForm'
    BY <1>2 DEF SignInInv, LastForm, forms
  <2>5. QED
    BY <2>1, <2>2, <2>3, <2>4 DEF SignInInv
<1>3. CASE MeIsRead /\ asker.n \notin expired
  <2>1. /\ me.fetch = "sent" /\ me' = BackendReads(me, asker.user)
        /\ UNCHANGED <<place, forms, attempts, store, expired, calls, asker, submitted>>
    BY <1>3 DEF MeIsRead
  <2>2. /\ me' \in Entries(Data) /\ me'.has = me.has /\ me'.data = me.data
        /\ me'.fetch = "read" /\ me'.read = asker.user
    BY <1>0, <2>1, SignInFacts, ReadFacts
  <2>3. me # NoEntry(Nobody)
    BY <2>1, NoEntryFacts
  <2>4. asker' \in Sessions
    BY <2>1, SignInFacts
  <2>5. QED
    BY <1>2, <2>1, <2>2, <2>3, <2>4
<1>4. CASE MeArrives
  <2>1. /\ me.fetch = "read" /\ me' = Received(me) /\ asker' = NoSession
        /\ UNCHANGED <<place, forms, attempts, store, expired, calls, submitted>>
    BY <1>4 DEF MeArrives
  <2>2. /\ me' \in Entries(Data) /\ me'.data = me.read /\ me'.fetch = "idle"
    BY <1>0, <2>1, ReceivedFacts
  <2>3. me # NoEntry(Nobody)
    BY <2>1, NoEntryFacts
  <2>4. asker' \in Sessions
    BY <2>1, SignInFacts
  <2>5. QED
    BY <1>2, <2>1, <2>2, <2>3, <2>4
<1>5. ASSUME NEW old \in Ages(me), Profile(old) PROVE SignInInv'
  <2>1. /\ place = "app" /\ me' = Observed(Aged(me, old))
        /\ asker' = IF me.fetch = "idle" /\ me'.fetch = "sent" THEN session ELSE asker
        /\ UNCHANGED <<place, forms, attempts, store, expired, calls, submitted>>
    BY <1>5 DEF Profile
  <2>2. old \in BOOLEAN
    BY <1>5 DEF Ages
  <2>3. /\ Aged(me, old) \in Entries(Data) /\ Aged(me, old).has = me.has
        /\ Aged(me, old).data = me.data /\ Aged(me, old).fetch = me.fetch
        /\ Aged(me, old).read = me.read
    BY <1>0, <2>2, AgedFacts
  <2>4. /\ me' \in Entries(Data) /\ me'.has = me.has /\ me'.data = me.data
        /\ \/ me'.fetch = me.fetch /\ me'.read = me.read
           \/ me.fetch = "idle" /\ me'.fetch = "sent"
    BY <2>1, <2>3, ObservedFacts
  <2>5. SignedIn
    BY <2>1 DEF SignInInv, SignInTypeOK
  <2>6. asker' \in Sessions
    BY <2>1, SignInFacts
  <2>7. QED
    BY <1>2, <2>1, <2>4, <2>5, <2>6
<1>6. QED
  BY <1>1, <1>3, <1>4, <1>5 DEF MeIsRead

(* Every step keeps the invariant.                                           *)
LEMMA SignInInvNext == SignInInv /\ [SignInNext]_signInVars => SignInInv'
<1> SUFFICES ASSUME SignInInv, [SignInNext]_signInVars PROVE SignInInv'
  OBVIOUS
<1>1. CASE handleLogin \/ handleMfaVerify
  <2>1. email \in Users \union {Nobody} /\ mfaToken \in Users \union {Nobody}
    BY DEF SignInInv, SignInTypeOK
  <2>2. CASE handleLogin
    BY <2>1, <2>2, SubmitsKeeps DEF handleLogin
  <2>3. CASE handleMfaVerify
    BY <2>1, <2>3, SubmitsKeeps DEF handleMfaVerify
  <2>4. QED
    BY <1>1, <2>2, <2>3
<1>2. ASSUME NEW a \in attempts, Accepted(a) \/ Challenged(a) \/ AttemptRefused(a)
      PROVE  SignInInv'
  <2>1. a.user \in Users /\ mfaToken \in Users \union {Nobody}
    BY SignInFacts DEF Attempts, SignInInv, SignInTypeOK
  <2>2. CASE Challenged(a)
    BY <2>1, <2>2, StopsWaitingKeeps DEF Challenged
  <2>3. CASE AttemptRefused(a)
    BY <2>1, <2>3, AutoLogoutKeeps, StopsWaitingKeeps DEF AttemptRefused
  <2>4. QED
    BY <1>2, <2>2, <2>3, AcceptedKeeps
<1>3. CASE UNCHANGED signInVars
  BY <1>3 DEF signInVars, SignInInv, SignInTypeOK, LastForm, SessionNumbered, OnlyOwnCalls,
              FirstSince, SignedIn
<1>4. QED
  BY <1>1, <1>2, <1>3, ReloadKeeps, LogoutKeeps, FormsKeep, CallsKeep, ProfileKeeps
     DEF SignInNext

(* Hence in every state of the app.                                          *)
LEMMA SignInInvariant == SignInSpec => []SignInInv
BY SignInInvInit, SignInInvNext, PTL DEF SignInSpec

(* What is cached of a user is that of the one signed in, unless another     *)
(* session was left without loading the page: whatever is answered late,     *)
(* refused or typed over.                                                    *)
LEMMA SignInCache == SignInSpec => []CacheIsOwn
<1>1. SignInInv => CacheIsOwn
  BY DEF SignInInv, FirstSince, CacheIsOwn
<1>2. QED
  BY <1>1, SignInInvariant, PTL

(* A session is of the user whose form was submitted last, in whatever order *)
(* forms are switched and answers come.                                      *)
LEMMA SignInSubmitted == SignInSpec => SignedInAsSubmitted
<1>1. SignInInv /\ [SignInNext]_signInVars
          => [session' \notin {session, NoSession} /\ (\A a \in attempts : a.here)
                => session'.user = submitted]_signInVars
  <2> SUFFICES ASSUME SignInInv, SignInNext, session' \notin {session, NoSession},
                      \A a \in attempts : a.here
               PROVE  session'.user = submitted
    OBVIOUS
  <2>1. PICK a \in attempts : Accepted(a)
    BY DEF SignInNext, Type, handleLogin, handleMfaVerify, Submits, BackToSignIn, Reload, Loaded,
           Challenged, StopsWaiting, AttemptRefused, AutoLogout, Logout, History, Call, MeIsRead,
           MeArrives, Expire, CallAnswered, Profile, store
  <2>2. session' = [n |-> begun + 1, user |-> a.user]
    BY <2>1 DEF Accepted, finishLogin
  <2>3. QED
    BY <2>2 DEF SignInInv, LastForm
<1>2. QED
  BY <1>1, SignInInvariant, PTL DEF SignInSpec, SignedInAsSubmitted

(* A session that began with nothing on its way ends by Logout or because    *)
(* its own token expired: no late answer ends it.                            *)
LEMMA SignInEnds == SignInSpec => EndsByItself
<1>1. SignInInv /\ [SignInNext]_signInVars
          => [SignedIn /\ session' = NoSession /\ clean => session.n \in expired \/ Logout]_signInVars
  <2> SUFFICES ASSUME SignInInv, SignInNext, SignedIn, session' = NoSession, clean, ~Logout
               PROVE  session.n \in expired
    OBVIOUS
  <2>1. session' # session
    BY DEF SignedIn
  <2>2. ASSUME NEW a \in attempts, Accepted(a) PROVE FALSE
    <3>1. session'.n = begun + 1 /\ begun \in Nat
      BY <2>2, SignInFacts DEF Accepted, finishLogin
    <3>2. QED
      BY <3>1, SignInFacts
  <2>3. ASSUME NEW n \in calls, CallAnswered(n) PROVE session.n \in expired
    <3>1. n \in expired
      BY <2>1, <2>3 DEF CallAnswered, store
    <3>2. n = session.n
      BY DEF SignInInv, OnlyOwnCalls
    <3>3. QED
      BY <3>1, <3>2
  <2>4. CASE MeIsRead
    <3>1. me.fetch = "sent" /\ asker.n \in expired
      BY <2>1, <2>4 DEF MeIsRead, store
    <3>2. QED
      BY <3>1 DEF SignInInv, OnlyOwnCalls
  <2>5. QED
    BY <2>1, <2>2, <2>3, <2>4
       DEF SignInNext, Type, handleLogin, handleMfaVerify, Submits, BackToSignIn, Reload, Loaded,
           Challenged, StopsWaiting, AttemptRefused, EndsSession, Logout, History, Call,
           MeArrives, Expire, Profile, store
<1>2. QED
  BY <1>1, SignInInvariant, PTL DEF SignInSpec, EndsByItself

-----------------------------------------------------------------------------
(* Desks: what an analyst changed is shown                                 *)

Unmade(S) == {m \in S : m.made = 0}
Unhandled == Unmade(changes)

(* A version is made by a change that was handled or by others.              *)
VersionsCounted ==
    IsFiniteSet(changes) /\ version + Cardinality(Unhandled) <= requested + others

(* What is fresh shows all that is due, and so will the answer that was read *)
(* last: what came due later has marked the one and sent anew the other.     *)
DueIsKnown ==
    /\ \A m \in changes : m.made <= version
    /\ query.has /\ ~query.stale => due <= query.data
    /\ query.fetch = "read" => due <= query.read

DeskInv == DeskTypeOK /\ VersionsCounted /\ DueIsKnown

Versions == 0 .. MaxChanges + MaxOthers

(* Of what a mutation changes its answer makes the page read again all that  *)
(* is not listed as left out.                                                *)
LEMMA TouchedIsFollowed ==
    ASSUME NEW op \in DeskMutations, NEW l \in DeskTouches[op]
    PROVE  l \in DeskInvalidates[op] \/ <<op, l>> \in DeskUnfollowed
<1>1. op \in {"updateAlert", "updateThisAlert", "removeAgent", "verifyConnector",
              "updateConnector", "createUser", "resetMfa", "createTenant", "confirmEnable",
              "handleDisable", "handleAddAsset", "handleDelete", "handleStatus",
              "handleCollect", "runWorkflow", "toggleWorkflow", "deleteWorkflow", "saveWorkflow"}
  BY DEF DeskMutations, DeskInvalidates
<1>2. CASE op \in {"updateAlert", "updateThisAlert"}
  BY <1>2 DEF DeskInvalidates, DeskTouches, DeskUnfollowed, OfAlerts
<1>3. CASE op \in {"confirmEnable", "handleDisable"}
  BY <1>3 DEF DeskInvalidates, DeskTouches, DeskUnfollowed
<1>4. CASE op \in {"handleAddAsset", "handleDelete"}
  BY <1>4 DEF DeskInvalidates, DeskTouches, DeskUnfollowed
<1>5. CASE op = "handleStatus"
  BY <1>5 DEF DeskInvalidates, DeskTouches, AfterStatus
<1>6. CASE op \in {"removeAgent", "verifyConnector", "updateConnector", "createUser", "resetMfa",
                   "createTenant", "handleCollect", "toggleWorkflow", "deleteWorkflow",
                   "saveWorkflow", "runWorkflow"}
  BY <1>6 DEF DeskInvalidates, DeskTouches
<1>7. QED
  BY <1>1, <1>2, <1>3, <1>4, <1>5, <1>6

(* What the types say, a variable at a time.                                 *)
LEMMA DeskFacts ==
    ASSUME DeskTypeOK
    PROVE  /\ version \in Versions /\ version \in Nat /\ due \in 0 .. version
           /\ query \in Entries(Versions) /\ query.data \in Nat /\ query.read \in Nat
           /\ \A m \in changes : /\ m.op \in DeskMutations /\ m.made \in Versions /\ m.made \in Nat
                                 /\ m.n \in 1 .. MaxChanges /\ m.own \in BOOLEAN
                                 /\ m.follow \in BOOLEAN /\ m.current \in BOOLEAN
                                 /\ m = [n |-> m.n, op |-> m.op, made |-> m.made, own |-> m.own,
                                         follow |-> m.follow, current |-> m.current]
           /\ Versions \subseteq Nat
<1>1. MaxChanges \in Nat /\ MaxOthers \in Nat
  BY DesksAssumption
<1>2. Versions \subseteq Nat
  BY <1>1 DEF Versions
<1>3. version \in Versions /\ due \in 0 .. version /\ query \in Entries(Versions)
  BY DEF DeskTypeOK, Versions
<1>4. query.data \in Nat /\ query.read \in Nat
  BY <1>2, <1>3, EntryFields
<1>5. \A m \in changes : /\ m.op \in DeskMutations /\ m.made \in Versions
                         /\ m.n \in 1 .. MaxChanges /\ m.own \in BOOLEAN
                         /\ m.follow \in BOOLEAN /\ m.current \in BOOLEAN
                         /\ m = [n |-> m.n, op |-> m.op, made |-> m.made, own |-> m.own,
                                 follow |-> m.follow, current |-> m.current]
  BY DEF DeskTypeOK, Changes, Versions
<1>6. QED
  BY <1>2, <1>3, <1>4, <1>5

(* The greater of two numbers.                                               *)
LEMMA MaxOfTwo ==
    ASSUME NEW a \in Nat, NEW b \in Nat
    PROVE  Max({a, b}) \in {a, b} /\ a <= Max({a, b}) /\ b <= Max({a, b})
<1>1. \E x \in {a, b} : \A y \in {a, b} : x >= y
  BY a >= b \/ b >= a
<1>2. QED
  BY <1>1 DEF Max

(* At the start nothing was changed and nothing is owed.                     *)
LEMMA DeskInvInit == DeskInit => DeskInv
<1> SUFFICES ASSUME DeskInit PROVE DeskInv
  OBVIOUS
<1>1. MaxChanges \in Nat /\ MaxOthers \in Nat /\ MaxLosses \in Nat
  BY DesksAssumption
<1>2. /\ list \in DeskLists /\ desk \in DeskPages /\ chosen = TRUE
      /\ version = 0 /\ due = 0 /\ changes = {} /\ requested = 0 /\ others = 0 /\ losses = 0
      /\ query = IF Watching THEN Send(NoEntry(0)) ELSE NoEntry(0)
  BY DEF DeskInit
<1>3. 0 \in Versions
  BY <1>1 DEF Versions
<1>4. query \in Entries(Versions) /\ ~query.has /\ query.fetch # "read"
  BY <1>2, <1>3, NoEntryFacts, SendFacts
<1>5. DeskTypeOK
  <2>1. chosen \in BOOLEAN
    BY <1>2
  <2>2. QED
    BY <1>1, <1>2, <1>3, <1>4, <2>1 DEF DeskTypeOK, Versions
<1>6. VersionsCounted
  BY <1>2, FS_EmptySet DEF VersionsCounted, Unhandled, Unmade
<1>7. QED
  BY <1>2, <1>4, <1>5, <1>6 DEF DeskInv, DueIsKnown

(* A mark is all that the page takes from a change.                          *)
LEMMA Unmarked ==
    ASSUME NEW m \in Changes
    PROVE  \A mark \in BOOLEAN :
               /\ [m EXCEPT !.current = mark] \in Changes
               /\ [m EXCEPT !.follow = mark] \in Changes
               /\ [m EXCEPT !.current = mark].made = m.made
               /\ [m EXCEPT !.follow = mark].made = m.made
  BY DEF Changes

(* The changes on their way are those of before, or fewer; a mark they carry *)
(* may be another one.                                                       *)
NoMore ==
    /\ changes' \subseteq Changes /\ IsFiniteSet(changes')
    /\ Cardinality(Unhandled') \in Nat /\ Cardinality(Unhandled') <= Cardinality(Unhandled)
    /\ \A m \in changes' : m.made <= version

(* To mark what was made by others does not make it more.                    *)
LEMMA MarkedAreNoMore ==
    ASSUME NEW S, IsFiniteSet(S), NEW g, DOMAIN g = S, \A m \in S : g[m].made = m.made,
           NEW T, \A m \in S : g[m] \in T, \A x \in T : \E m \in S : x = g[m]
    PROVE  /\ IsFiniteSet(T) /\ Cardinality(Unmade(T)) \in Nat
           /\ Cardinality(Unmade(T)) <= Cardinality(Unmade(S))
           /\ \A x \in T : \E m \in S : x = g[m] /\ x.made = m.made
<1> DEFINE f == [m \in Unmade(S) |-> g[m]]
<1>1. IsFiniteSet(T)
  <2> DEFINE h == [m \in S |-> g[m]]
  <2>1. h \in Surjection(S, T)
    BY DEF Surjection
  <2>2. QED
    BY <2>1, FS_Surjection
<1>2. f \in Surjection(Unmade(S), Unmade(T))
  <2>1. \A m \in Unmade(S) : g[m] \in Unmade(T)
    BY DEF Unmade
  <2>2. \A x \in Unmade(T) : \E m \in Unmade(S) : g[m] = x
    BY DEF Unmade
  <2>3. QED
    BY <2>1, <2>2 DEF Surjection
<1>3. IsFiniteSet(Unmade(S))
  BY FS_Subset DEF Unmade
<1> HIDE DEF f
<1>4. IsFiniteSet(Unmade(T)) /\ Cardinality(Unmade(T)) <= Cardinality(Unmade(S))
  BY <1>2, <1>3, FS_Surjection
<1>5. Cardinality(Unmade(T)) \in Nat
  BY <1>4, FS_CardinalityType
<1>6. QED
  BY <1>1, <1>4, <1>5

(* Nothing is more after a step that leaves the changes alone,               *)
LEMMA SameAreNoMore == DeskInv /\ UNCHANGED changes => NoMore
<1> SUFFICES ASSUME DeskInv, changes' = changes PROVE NoMore
  OBVIOUS
<1>1. Unhandled' = Unhandled
  BY DEF Unhandled, Unmade
<1>2. Cardinality(Unhandled) \in Nat
  BY FS_Subset, FS_CardinalityType DEF DeskInv, VersionsCounted, Unhandled, Unmade
<1>3. changes' \subseteq Changes /\ IsFiniteSet(changes') /\ \A m \in changes' : m.made <= version
  BY DEF DeskInv, DeskTypeOK, VersionsCounted, DueIsKnown
<1>4. QED
  BY <1>1, <1>2, <1>3 DEF NoMore

(* nor after one that marks them.                                            *)
LEMMA MarksAreNoMore ==
    ASSUME DeskInv, NEW g, DOMAIN g = changes,
           \A m \in changes : g[m] \in Changes /\ g[m].made = m.made,
           changes' = {g[m] : m \in changes}
    PROVE  NoMore
<1>1. IsFiniteSet(changes)
  BY DEF DeskInv, VersionsCounted
<1>2. /\ IsFiniteSet(changes') /\ Cardinality(Unhandled') \in Nat
      /\ Cardinality(Unhandled') <= Cardinality(Unhandled)
      /\ \A x \in changes' : \E m \in changes : x = g[m] /\ x.made = m.made
  <2>1. /\ \A m \in changes : g[m] \in changes' /\ g[m].made = m.made
        /\ \A x \in changes' : \E m \in changes : x = g[m]
    OBVIOUS
  <2>2. QED
    BY <1>1, <2>1, MarkedAreNoMore DEF Unhandled
<1>3. \A x \in changes' : x \in Changes /\ x.made <= version
  BY <1>2 DEF DeskInv, DueIsKnown
<1>4. QED
  BY <1>2, <1>3 DEF NoMore

(* A step of the entry alone, or of the page that is shown, keeps what is    *)
(* due if it brings it wherever it brings anything.                          *)
LEMMA QueryKeeps ==
    ASSUME DeskInv, UNCHANGED <<list, version, requested, others, due>>, NoMore,
           desk' \in DeskPages, chosen' \in BOOLEAN, losses' \in 0 .. MaxLosses,
           query' \in Entries(Versions),
           query'.has /\ ~query'.stale =>
               \/ query.has /\ ~query.stale /\ query'.data = query.data
               \/ due <= query'.data,
           query'.fetch = "read" =>
               \/ query.fetch = "read" /\ query'.read = query.read
               \/ due <= query'.read
    PROVE  DeskInv'
<1>1. DeskTypeOK'
  BY DEF DeskInv, DeskTypeOK, Versions, NoMore
<1>2. VersionsCounted'
  <2>1. /\ version \in Nat /\ requested \in Nat /\ others \in Nat
        /\ Cardinality(Unhandled) \in Nat
        /\ version + Cardinality(Unhandled) <= requested + others
    BY DesksAssumption, DeskFacts, FS_Subset, FS_CardinalityType
       DEF DeskInv, DeskTypeOK, VersionsCounted, Unhandled, Unmade
  <2>2. QED
    BY <2>1 DEF VersionsCounted, NoMore
<1>3. DueIsKnown'
  BY DEF DeskInv, DueIsKnown, NoMore
<1>4. QED
  BY <1>1, <1>2, <1>3 DEF DeskInv

(* Somebody turns to another page or key.                                    *)
LEMMA TurnKeeps ==
    ASSUME DeskInv, NEW p \in DeskPages, NEW is \in BOOLEAN, NEW old \in BOOLEAN,
           TurnTo(p, is, old), NoMore
    PROVE  DeskInv'
<1>1. /\ desk' = p /\ chosen' = is
      /\ query' = IF InUse(p, is) /\ ~Watching THEN Observed(Aged(query, old)) ELSE query
      /\ UNCHANGED <<list, version, requested, others, losses, due>>
  BY DEF TurnTo
<1>2. query \in Entries(Versions) /\ losses \in 0 .. MaxLosses
  BY DeskFacts DEF DeskInv, DeskTypeOK
<1>3. CASE query' = query
  BY <1>1, <1>2, <1>3, QueryKeeps
<1>4. CASE query' = Observed(Aged(query, old))
  <2> DEFINE aged == Aged(query, old)
  <2>1. /\ aged \in Entries(Versions) /\ aged.has = query.has /\ aged.data = query.data
        /\ aged.fetch = query.fetch /\ aged.read = query.read
        /\ query.has /\ query.stale => aged.stale
    BY <1>2, AgedFacts
  <2> HIDE DEF aged
  <2>2. /\ query' \in Entries(Versions) /\ query'.has = aged.has /\ query'.data = aged.data
        /\ query'.stale = aged.stale
        /\ \/ query'.fetch = aged.fetch /\ query'.read = aged.read
           \/ query'.fetch = "sent"
    BY <1>4, <2>1, ObservedFacts DEF aged
  <2>3. QED
    BY <1>1, <1>2, <2>1, <2>2, QueryKeeps
<1>5. QED
  BY <1>1, <1>3, <1>4

(* The fetches of the list.                                                  *)
LEMMA FetchKeeps ==
    ASSUME DeskInv, DeskPoll \/ Refresh \/ DeskListIsRead \/ DeskListArrives \/ DeskListFails
    PROVE  DeskInv'
<1>1. /\ query \in Entries(Versions) /\ version \in Versions /\ due <= version
      /\ version \in Nat /\ due \in Nat
  BY DeskFacts DEF DeskInv
<1>2. /\ UNCHANGED <<list, desk, chosen, version, changes, requested, others, due>>
      /\ losses' \in 0 .. MaxLosses /\ NoMore
      /\ desk' \in DeskPages /\ chosen' \in BOOLEAN
  <2>1. /\ UNCHANGED <<list, desk, chosen, version, changes, requested, others, due>>
        /\ losses' = losses \/ (losses < MaxLosses /\ losses' = losses + 1)
    BY DEF DeskPoll, Refresh, DeskListIsRead, DeskListArrives, DeskListFails, QueryStep
  <2>2. losses \in 0 .. MaxLosses /\ MaxLosses \in Nat
    BY DesksAssumption DEF DeskInv, DeskTypeOK
  <2>3. losses' \in 0 .. MaxLosses
    BY <2>1, <2>2
  <2>4. QED
    BY <2>1, <2>3, SameAreNoMore DEF DeskInv, DeskTypeOK
<1>3. CASE query' = Send(query)
  <2>1. /\ query' \in Entries(Versions) /\ query'.has = query.has /\ query'.stale = query.stale
        /\ query'.data = query.data /\ query'.fetch = "sent"
    BY <1>1, <1>3, SendFacts
  <2>2. QED
    BY <1>2, <2>1, QueryKeeps
<1>4. CASE DeskListIsRead
  <2>1. query' = BackendReads(query, version)
    BY <1>4 DEF DeskListIsRead, QueryStep
  <2>2. /\ query' \in Entries(Versions) /\ query'.has = query.has /\ query'.stale = query.stale
        /\ query'.data = query.data /\ query'.read = version
    BY <1>1, <2>1, ReadFacts
  <2>3. QED
    BY <1>1, <1>2, <2>2, QueryKeeps
<1>5. CASE DeskListArrives
  <2>1. query.fetch = "read" /\ query' = Received(query)
    BY <1>5 DEF DeskListArrives, QueryStep
  <2>2. query' \in Entries(Versions) /\ query'.data = query.read /\ query'.fetch = "idle"
    BY <1>1, <2>1, ReceivedFacts
  <2>3. due <= query.read
    BY <2>1 DEF DeskInv, DueIsKnown
  <2>4. QED
    BY <1>2, <2>2, <2>3, QueryKeeps
<1>6. CASE DeskListFails
  <2>1. query' = GivenUp(query)
    BY <1>6 DEF DeskListFails, QueryStep
  <2>2. /\ query' \in Entries(Versions) /\ query'.has = query.has /\ query'.stale = query.stale
        /\ query'.data = query.data /\ query'.fetch = "idle"
    BY <1>1, <2>1, GivenUpFacts
  <2>3. QED
    BY <1>2, <2>2, QueryKeeps
<1>7. QED
  BY <1>3, <1>4, <1>5, <1>6 DEF DeskPoll, Refresh, QueryStep

(* A change is sent, is handled, or is lost.                                 *)
LEMMA ChangesKeep ==
    ASSUME DeskInv, \/ \E op \in DeskMutations : DeskMutate(op)
                    \/ Other \/ \E m \in changes : Handled(m) \/ Lost(m)
    PROVE  DeskInv'
<1>0. /\ MaxChanges \in Nat /\ MaxOthers \in Nat /\ MaxLosses \in Nat
      /\ requested \in 0 .. MaxChanges /\ others \in 0 .. MaxOthers /\ losses \in 0 .. MaxLosses
      /\ version \in Nat /\ due \in Nat /\ due <= version
      /\ IsFiniteSet(changes) /\ version + Cardinality(Unhandled) <= requested + others
  BY DesksAssumption, DeskFacts DEF DeskInv, DeskTypeOK, VersionsCounted
<1>1. IsFiniteSet(Unhandled) /\ Cardinality(Unhandled) \in Nat
  BY <1>0, FS_Subset, FS_CardinalityType DEF Unhandled, Unmade
<1>2. UNCHANGED <<list, desk, chosen, query>> /\ due' = due
  BY DEF DeskMutate, Other, Handled, Lost
<1>3. ASSUME version' \in Nat, version <= version', requested' \in 0 .. MaxChanges,
             others' \in 0 .. MaxOthers, losses' \in 0 .. MaxLosses,
             changes' \subseteq Changes, \A m \in changes' : m.made <= version',
             IsFiniteSet(changes'), Cardinality(Unhandled') \in Nat,
             version' + Cardinality(Unhandled') <= requested' + others'
      PROVE  DeskInv'
  <2>1. version' \in 0 .. MaxChanges + MaxOthers /\ due' \in 0 .. version'
    BY <1>0, <1>2, <1>3
  <2>2. DeskTypeOK'
    BY <1>2, <1>3, <2>1 DEF DeskInv, DeskTypeOK
  <2>3. VersionsCounted'
    BY <1>3 DEF VersionsCounted
  <2>4. DueIsKnown'
    BY <1>2, <1>3 DEF DeskInv, DueIsKnown
  <2>5. QED
    BY <2>2, <2>3, <2>4 DEF DeskInv
<1>4. ASSUME NEW op \in DeskMutations, DeskMutate(op) PROVE DeskInv'
  <2> DEFINE new == [n |-> requested + 1, op |-> op, made |-> 0,
                     own |-> chosen, follow |-> chosen, current |-> TRUE]
             g == [m \in changes |-> IF m.op = op THEN [m EXCEPT !.current = FALSE] ELSE m]
             marked == {g[m] : m \in changes}
             still == Unmade(marked)
  <2>1. /\ requested < MaxChanges /\ requested' = requested + 1
        /\ changes' = marked \union {new} /\ UNCHANGED <<version, others, losses>>
    BY <1>4 DEF DeskMutate
  <2>2. new \in Changes /\ new.made = 0
    <3>1. chosen \in BOOLEAN /\ TRUE \in BOOLEAN /\ requested + 1 \in 1 .. MaxChanges
          /\ 0 \in 0 .. MaxChanges + MaxOthers
      BY <1>0, <2>1 DEF DeskInv, DeskTypeOK
    <3>2. QED
      BY <3>1 DEF Changes
  <2>a. \A m \in changes : g[m] \in Changes /\ g[m].made = m.made
    BY Unmarked DEF DeskInv, DeskTypeOK
  <2>b. /\ IsFiniteSet(marked) /\ Cardinality(still) \in Nat
        /\ Cardinality(still) <= Cardinality(Unhandled)
        /\ \A x \in marked : \E m \in changes : x = g[m] /\ x.made = m.made
    <3>1. DOMAIN g = changes
      OBVIOUS
    <3>2. (\A m \in changes : g[m] \in marked) /\ \A x \in marked : \E m \in changes : x = g[m]
      OBVIOUS
    <3> HIDE DEF g, marked
    <3>3. QED
      BY <1>0, <2>a, <3>1, <3>2, MarkedAreNoMore DEF Unhandled
  <2>c. \A x \in marked : x \in Changes /\ x.made <= version
    BY <2>a, <2>b DEF DeskInv, DueIsKnown
  <2>d. IsFiniteSet(still)
    BY <2>b, FS_Subset DEF Unmade
  <2> HIDE DEF new, g, marked
  <2>3. Unhandled' = still \union {new}
    BY <2>1, <2>2 DEF Unhandled, Unmade
  <2> HIDE DEF still
  <2>4. /\ IsFiniteSet(changes') /\ IsFiniteSet(Unhandled')
        /\ Cardinality(Unhandled') <= Cardinality(Unhandled) + 1
        /\ Cardinality(Unhandled') \in Nat
    <3>1. IsFiniteSet(changes')
      BY <2>1, <2>b, FS_AddElement
    <3>2. /\ IsFiniteSet(still \union {new})
          /\ \/ Cardinality(still \union {new}) = Cardinality(still)
             \/ Cardinality(still \union {new}) = Cardinality(still) + 1
      BY <2>d, FS_AddElement
    <3>3. QED
      BY <1>1, <2>3, <2>b, <3>1, <3>2
  <2>5. changes' \subseteq Changes /\ \A m \in changes' : m.made <= version'
    BY <1>0, <2>1, <2>2, <2>c
  <2>6. /\ requested' \in 0 .. MaxChanges
        /\ version' + Cardinality(Unhandled') <= requested' + others'
    BY <1>0, <1>1, <2>1, <2>4
  <2>7. QED
    BY <1>0, <1>3, <2>1, <2>4, <2>5, <2>6
<1>5. CASE Other
  <2>1. /\ others < MaxOthers /\ others' = others + 1 /\ version' = version + 1
        /\ UNCHANGED <<changes, requested, losses>>
    BY <1>5 DEF Other
  <2>2. Unhandled' = Unhandled
    BY <2>1 DEF Unhandled, Unmade
  <2>3. \A m \in changes' : m.made <= version'
    BY <2>1, DeskFacts DEF DeskInv, DueIsKnown
  <2>4. QED
    BY <1>0, <1>1, <1>3, <2>1, <2>2, <2>3 DEF DeskInv, DeskTypeOK
<1>6. ASSUME NEW m \in changes, Lost(m) PROVE DeskInv'
  <2>1. /\ losses < MaxLosses /\ losses' = losses + 1 /\ changes' = changes \ {m}
        /\ UNCHANGED <<version, requested, others>>
    BY <1>6 DEF Lost
  <2>2. Unhandled' \subseteq Unhandled
    BY <2>1 DEF Unhandled, Unmade
  <2>3. /\ IsFiniteSet(changes') /\ Cardinality(Unhandled') <= Cardinality(Unhandled)
        /\ Cardinality(Unhandled') \in Nat
    BY <1>0, <1>1, <2>1, <2>2, FS_Subset, FS_CardinalityType
  <2>4. changes' \subseteq Changes /\ \A x \in changes' : x.made <= version'
    BY <2>1 DEF DeskInv, DeskTypeOK, DueIsKnown
  <2>5. QED
    BY <1>0, <1>1, <1>3, <2>1, <2>3, <2>4
<1>7. ASSUME NEW m \in changes, Handled(m) PROVE DeskInv'
  <2> DEFINE done == [n |-> m.n, op |-> m.op, made |-> version + 1, own |-> m.own,
                      follow |-> m.follow, current |-> m.current]
  <2>1. /\ m.op \in DeskMutations /\ m.n \in 1 .. MaxChanges
        /\ m.own \in BOOLEAN /\ m.follow \in BOOLEAN /\ m.current \in BOOLEAN
        /\ m = [n |-> m.n, op |-> m.op, made |-> m.made, own |-> m.own,
                follow |-> m.follow, current |-> m.current]
    BY DeskFacts DEF DeskInv
  <2>2. /\ m.made = 0 /\ version' = version + 1 /\ changes' = (changes \ {m}) \union {done}
        /\ UNCHANGED <<requested, others, losses>>
    BY <1>7, <2>1 DEF Handled
  <2>3. m \in Unhandled /\ Unhandled' = Unhandled \ {m}
    <3>1. done.made # 0
      BY <1>0
    <3>2. QED
      BY <2>2, <3>1 DEF Unhandled, Unmade
  <2>4. /\ Cardinality(Unhandled') = Cardinality(Unhandled) - 1
        /\ IsFiniteSet(changes') /\ IsFiniteSet(Unhandled')
    <3>1. IsFiniteSet(changes \ {m}) /\ IsFiniteSet(changes')
      BY <1>0, <2>2, FS_RemoveElement, FS_AddElement
    <3>2. IsFiniteSet(Unhandled \ {m}) /\ Cardinality(Unhandled \ {m}) = Cardinality(Unhandled) - 1
      BY <1>1, <2>3, FS_RemoveElement
    <3>3. QED
      BY <2>3, <3>1, <3>2
  <2>5. Cardinality(Unhandled') \in Nat
    BY <2>4, FS_CardinalityType
  <2>6. version' \in 0 .. MaxChanges + MaxOthers
    BY <1>0, <1>1, <2>2, <2>4, <2>5
  <2>7. done \in Changes /\ done.made = version'
    BY <2>1, <2>2, <2>6 DEF Changes
  <2> HIDE DEF done
  <2>8. changes' \subseteq Changes /\ \A x \in changes' : x.made <= version'
    <3>1. \A x \in changes : x.made <= version /\ x.made \in Nat
      BY DeskFacts DEF DeskInv, DueIsKnown
    <3>2. QED
      BY <1>0, <2>2, <2>7, <3>1 DEF DeskInv, DeskTypeOK
  <2>9. QED
    BY <1>0, <1>1, <1>3, <2>2, <2>4, <2>5, <2>6, <2>8
<1>8. QED
  BY <1>4, <1>5, <1>6, <1>7

(* The answer of a change marks the list or has it sent anew, if it makes    *)
(* anything due.                                                             *)
LEMMA AnsweredKeeps ==
    ASSUME DeskInv, NEW m \in changes, DeskAnswered(m)
    PROVE  DeskInv'
<1>0. /\ query \in Entries(Versions) /\ due \in 0 .. version /\ version \in Nat
      /\ m.op \in DeskMutations /\ m.made \in Nat /\ m.made <= version
  BY DeskFacts DEF DeskInv, DueIsKnown
<1>1. /\ changes' = changes \ {m}
      /\ query' = IF Follows(m) THEN Invalidated(query, Watching) ELSE query
      /\ due' = IF \/ ~Touches(m) \/ <<m.op, list>> \in DeskUnfollowed
                   \/ list = "alert" /\ ~m.follow
                   \/ Joins(query, Watching)
                THEN due ELSE Max({due, m.made})
      /\ UNCHANGED <<list, desk, chosen, version, requested, others, losses>>
  BY DEF DeskAnswered
<1> DEFINE after == Invalidated(query, Watching)
<1>2. Watching \in BOOLEAN
  BY DEF Watching, InUse
<1>3. /\ after \in Entries(Versions) /\ after.has = query.has /\ after.data = query.data
      /\ query.has => after.stale
      /\ \/ Joins(query, Watching) /\ after.fetch = query.fetch /\ after.read = query.read
         \/ /\ ~Joins(query, Watching) /\ query.fetch = "idle"
            /\ after.fetch = query.fetch
         \/ ~Joins(query, Watching) /\ after.fetch = "sent"
  BY <1>0, <1>2, InvalidatedFacts
<1> HIDE DEF after
<1>4. due' \in 0 .. version /\ due <= due'
  BY <1>0, <1>1, MaxOfTwo
<1>5. due' # due => Follows(m) /\ ~Joins(query, Watching)
  BY <1>0, <1>1, TouchedIsFollowed DEF Touches, Follows
<1>6. query' \in Entries(Versions)
  BY <1>0, <1>1, <1>3 DEF after
<1>7. DeskTypeOK'
  <2>1. changes' \subseteq Changes
    BY <1>1 DEF DeskInv, DeskTypeOK
  <2>2. QED
    BY <1>1, <1>4, <1>6, <2>1 DEF DeskInv, DeskTypeOK, Versions
<1>8. VersionsCounted'
  <2>1. Unhandled' \subseteq Unhandled /\ changes' \subseteq changes
    BY <1>1 DEF Unhandled, Unmade
  <2>2. IsFiniteSet(changes) /\ IsFiniteSet(Unhandled)
    BY FS_Subset DEF DeskInv, VersionsCounted, Unhandled, Unmade
  <2>3. /\ IsFiniteSet(changes') /\ Cardinality(Unhandled') <= Cardinality(Unhandled)
        /\ Cardinality(Unhandled') \in Nat /\ Cardinality(Unhandled) \in Nat
    BY <2>1, <2>2, FS_Subset, FS_CardinalityType
  <2>4. requested \in Nat /\ others \in Nat
    BY DesksAssumption DEF DeskInv, DeskTypeOK
  <2>5. QED
    BY <1>0, <1>1, <2>3, <2>4 DEF DeskInv, VersionsCounted
<1>9. DueIsKnown'
  <2>1. \A x \in changes' : x.made <= version'
    BY <1>1 DEF DeskInv, DueIsKnown
  <2>2. CASE Follows(m)
    <3>1. query' = after
      BY <1>1, <2>2 DEF after
    <3>2. query'.fetch = "read" => due' = due /\ query.fetch = "read" /\ query'.read = query.read
      BY <1>3, <1>5, <3>1
    <3>3. query'.has => query'.stale
      BY <1>3, <3>1
    <3>4. QED
      BY <2>1, <3>2, <3>3 DEF DeskInv, DueIsKnown
  <2>3. CASE ~Follows(m)
    <3>1. query' = query /\ due' = due
      BY <1>1, <1>5, <2>3
    <3>2. QED
      BY <2>1, <3>1 DEF DeskInv, DueIsKnown
  <2>4. QED
    BY <2>2, <2>3
<1>10. QED
  BY <1>7, <1>8, <1>9 DEF DeskInv

(* Every step keeps the invariant.                                           *)
LEMMA DeskInvNext == DeskInv /\ [DeskNext]_deskVars => DeskInv'
<1> SUFFICES ASSUME DeskInv, [DeskNext]_deskVars PROVE DeskInv'
  OBVIOUS
<1>0. \A m \in changes : m \in Changes
  BY DEF DeskInv, DeskTypeOK
<1>1. ASSUME NEW p \in DeskPages, NEW is \in BOOLEAN, NEW old \in Ages(query), Visit(p, is, old)
      PROVE  DeskInv'
  <2> DEFINE g == [m \in changes |-> [m EXCEPT !.current = FALSE]]
  <2>1. TurnTo(p, is, old) /\ changes' = {g[m] : m \in changes} /\ DOMAIN g = changes
    BY <1>1 DEF Visit
  <2>2. \A m \in changes : g[m] \in Changes /\ g[m].made = m.made
    BY <1>0, Unmarked
  <2> HIDE DEF g
  <2>3. NoMore
    BY <2>1, <2>2, MarksAreNoMore
  <2>4. QED
    BY <2>1, <2>3, TurnKeeps DEF Ages
<1>2. ASSUME NEW old \in Ages(query), Choose(old) PROVE DeskInv'
  <2>1. TurnTo(desk, ~chosen, old) /\ desk \in DeskPages
    BY <1>2 DEF Choose, DeskInv, DeskTypeOK
  <2>2. (~chosen) \in BOOLEAN
    OBVIOUS
  <2>3. NoMore
    <3>1. CASE list # "alert"
      BY <1>2, <3>1, SameAreNoMore DEF Choose
    <3>2. CASE list = "alert"
      <4> DEFINE g == [m \in changes |-> IF m.current THEN [m EXCEPT !.follow = ~chosen] ELSE m]
      <4>1. changes' = {g[m] : m \in changes} /\ DOMAIN g = changes
        BY <1>2, <3>2 DEF Choose
      <4>2. \A m \in changes : g[m] \in Changes /\ g[m].made = m.made
        BY <1>0, <2>2, Unmarked
      <4> HIDE DEF g
      <4>3. QED
        BY <4>1, <4>2, MarksAreNoMore
    <3>3. QED
      BY <3>1, <3>2
  <2>4. QED
    BY <2>1, <2>2, <2>3, TurnKeeps DEF Ages
<1>3. CASE UNCHANGED deskVars
  BY <1>3 DEF deskVars, DeskInv, DeskTypeOK, VersionsCounted, Unhandled, Unmade, DueIsKnown
<1>4. QED
  BY <1>1, <1>2, <1>3, FetchKeeps, ChangesKeep, AnsweredKeeps DEF DeskNext

(* Hence in every state of the pages.                                        *)
LEMMA DeskInvariant == DeskSpec => []DeskInv
BY DeskInvInit, DeskInvNext, PTL DEF DeskSpec

(* A list that has settled shows every change of the analyst that was        *)
(* answered, but for those no page reads a list again for.                   *)
LEMMA DeskShows == DeskSpec => []OwnChangeShown
<1>1. DeskInv => OwnChangeShown
  BY DEF DeskInv, DueIsKnown, OwnChangeShown, Settled
<1>2. QED
  BY <1>1, DeskInvariant, PTL

-----------------------------------------------------------------------------
(* MfaEnrolment: the account and its codes                                 *)

(* What a request has passed when it was allowed.                            *)
AllowedWhenLoaded == \A r \in mfaRequests : r.phase = "loaded" => Allowed(r, r.row)

(* What a request is made of.                                                *)
RequestsMade ==
    \A r \in mfaRequests : DOMAIN r = {"n", "op", "from", "code", "phase", "row"}

(* Who enables has a secret scanned.                                         *)
EnabledFromApp ==
    \A r \in mfaRequests : r.op = "enable" /\ r.phase # "done" =>
        \E s \in app : r.code = OfApp(s)

(* While no handlers overlapped, a handler holds the row as it is; the       *)
(* account asks for a secret of the app, and has only unused codes of that   *)
(* secret; codes used before were of other secrets than one being set up.    *)
AccountSound ==
    /\ \A r \in mfaRequests : r.phase = "loaded" => r.row = row
    /\ row.secret \in 0 .. made
    /\ row.codes \subseteq {row.secret} \X Slots
    /\ accepted \subseteq (1 .. made) \X Slots
    /\ row.enabled => row.secret \in app
    /\ ~row.enabled => row.codes = {} /\ \A c \in accepted : c[1] # row.secret
    /\ row.codes \intersect accepted = {}
    /\ twice = {}

MfaInv ==
    /\ MfaTypeOK /\ RequestsMade /\ AllowedWhenLoaded /\ EnabledFromApp
    /\ ~interleaved => AccountSound

(* A row is what its three columns say.                                      *)
LEMMA RowColumns ==
    ASSUME NEW r \in Rows
    PROVE  /\ r.enabled \in BOOLEAN /\ r.secret \in Secrets \union {NoSecret}
           /\ r.codes \subseteq BackupCodes /\ DOMAIN r = {"enabled", "secret", "codes"}
           /\ r = [enabled |-> r.enabled, secret |-> r.secret, codes |-> r.codes]
BY DEF Rows

(* And three such columns make a row.                                        *)
LEMMA RowMade ==
    ASSUME NEW e \in BOOLEAN, NEW s \in Secrets \union {NoSecret}, NEW cs \in SUBSET BackupCodes
    PROVE  [enabled |-> e, secret |-> s, codes |-> cs] \in Rows
BY DEF Rows

(* A code of an app is of no slot of the backup codes, and of one secret.    *)
LEMMA OfAppFacts ==
    /\ \A s, t : OfApp(s) = OfApp(t) => s = t
    /\ \A s : OfApp(s)[1] = s /\ OfApp(s) \notin BackupCodes
BY MfaAssumption DEF OfApp, BackupCodes

(* What the types say of numbers and rows.                                   *)
LEMMA MfaFacts ==
    ASSUME MfaTypeOK
    PROVE  /\ row \in Rows /\ made \in Nat /\ made <= MaxSecrets
           /\ \A r \in mfaRequests : r.row \in Rows /\ r.op \in MfaOps
           /\ Secrets \subseteq Nat /\ 0 \notin Secrets
BY MfaAssumption DEF MfaTypeOK, Secrets

(* An account that is not enrolled, or with its first secret, is sound.      *)
LEMMA MfaInvInit == MfaInit => MfaInv
<1> SUFFICES ASSUME MfaInit PROVE MfaInv
  OBVIOUS
<1>0. MaxSecrets \in Nat \ {0} /\ MaxMfaRequests \in Nat
  BY MfaAssumption
<1>1. /\ made \in {0, 1}
      /\ row = [enabled |-> made = 1, secret |-> made, codes |-> (1 .. made) \X Slots]
      /\ app = 1 .. made /\ noted = row.codes
      /\ mfaEnabled = [b \in Browsers |-> row.enabled]
      /\ setup = [b \in Browsers |-> NoSecret] /\ busy = [b \in Browsers |-> FALSE]
      /\ mfaRequests = {} /\ mfaSent = 0
      /\ accepted = {} /\ twice = {} /\ interleaved = FALSE
  BY DEF MfaInit
<1>2. made \in 0 .. MaxSecrets /\ 1 .. made \subseteq Secrets /\ made \in Secrets \union {NoSecret}
  BY <1>0, <1>1 DEF Secrets, NoSecret
<1>3. row.enabled = (made = 1) /\ row.secret = made /\ row.codes = (1 .. made) \X Slots
  BY <1>1
<1>4. row.codes \subseteq BackupCodes
  BY <1>2, <1>3 DEF BackupCodes
<1>5. row.enabled \in BOOLEAN
  BY <1>3
<1>6. row \in Rows
  BY <1>1, <1>2, <1>3, <1>4, <1>5 DEF Rows
<1>7. /\ mfaEnabled \in [Browsers -> BOOLEAN] /\ busy \in [Browsers -> BOOLEAN]
      /\ interleaved \in BOOLEAN
  BY <1>1, <1>5
<1>8. setup \in [Browsers -> Secrets \union {NoSecret}]
  BY <1>1
<1>9. MfaTypeOK
  BY <1>0, <1>1, <1>2, <1>4, <1>6, <1>7, <1>8 DEF MfaTypeOK
<1>10. AccountSound
  <2>1. made = 0 => row.codes = {} /\ ~row.enabled
    <3>1. made = 0 => 1 .. made = {}
      OBVIOUS
    <3>2. made = 0 => row.codes = {} \X Slots
      BY <1>3, <3>1
    <3>3. made = 0 => made # 1
      OBVIOUS
    <3>4. made = 0 => ~row.enabled
      BY <1>3, <3>3, Zenon
    <3>5. QED
      BY <3>2, <3>4
  <2>2. made = 1 => /\ row.codes = {1} \X Slots /\ row.secret \in app /\ row.enabled
                    /\ row.secret = 1
    <3>1. made = 1 => 1 .. made = {1}
      OBVIOUS
    <3>2. made = 1 => row.codes = {1} \X Slots /\ row.secret \in app /\ row.secret = 1
      BY <1>1, <1>3, <3>1
    <3>3. made = 1 => row.enabled
      BY <1>3
    <3>4. QED
      BY <3>2, <3>3
  <2>3. row.codes \subseteq {row.secret} \X Slots
    BY <1>1, <2>1, <2>2
  <2>4. row.secret \in 0 .. made /\ accepted \subseteq (1 .. made) \X Slots
    BY <1>1, <1>3
  <2>5. row.codes \intersect accepted = {} /\ twice = {}
    BY <1>1
  <2>6. row.enabled => row.secret \in app
    BY <1>1, <2>1, <2>2
  <2>7. ~row.enabled => row.codes = {} /\ \A c \in accepted : c[1] # row.secret
    BY <1>1, <2>1, <2>2
  <2>8. \A r \in mfaRequests : r.phase = "loaded" => r.row = row
    BY <1>1
  <2>9. QED
    BY <2>3, <2>4, <2>5, <2>6, <2>7, <2>8 DEF AccountSound
<1>11. RequestsMade /\ AllowedWhenLoaded /\ EnabledFromApp
  BY <1>1 DEF RequestsMade, AllowedWhenLoaded, EnabledFromApp
<1>12. QED
  BY <1>9, <1>10, <1>11 DEF MfaInv

(* A request that is left, loaded or done is otherwise the one it was.       *)
LEMMA RequestFields ==
    ASSUME NEW r, DOMAIN r = {"n", "op", "from", "code", "phase", "row"}, NEW l, NEW v
    PROVE  /\ LET x == [r EXCEPT !.from = v] IN
                /\ x.op = r.op /\ x.row = r.row /\ x.phase = r.phase /\ x.code = r.code
                /\ DOMAIN x = DOMAIN r
           /\ LET x == [r EXCEPT !.phase = "loaded", !.row = l] IN
                /\ x.op = r.op /\ x.row = l /\ x.phase = "loaded" /\ x.code = r.code
                /\ DOMAIN x = DOMAIN r
           /\ LET x == [r EXCEPT !.phase = "done", !.row = l, !.code = v] IN
                /\ x.op = r.op /\ x.row = l /\ x.phase = "done"
                /\ DOMAIN x = DOMAIN r
OBVIOUS

(* What the page does, and a handler that loads the row, leaves the account  *)
(* as it is.                                                                 *)
LEMMA BackendStill ==
    ASSUME MfaInv, UNCHANGED backend, app \subseteq app', app' \subseteq Secrets,
           mfaEnabled' \in [Browsers -> BOOLEAN], busy' \in [Browsers -> BOOLEAN],
           setup' \in [Browsers -> Secrets \union {NoSecret}],
           noted' \subseteq BackupCodes, mfaSent' \in 0 .. MaxMfaRequests,
           \A r \in mfaRequests' :
               /\ DOMAIN r = {"n", "op", "from", "code", "phase", "row"}
               /\ r.op \in MfaOps /\ r.row \in Rows
               /\ r.phase = "loaded" =>
                      /\ Allowed(r, r.row)
                      /\ r.row = row \/ \E q \in mfaRequests : q.phase = "loaded" /\ q.row = r.row
               /\ r.op = "enable" /\ r.phase # "done" => \E s \in app' : r.code = OfApp(s)
    PROVE  MfaInv'
<1>1. /\ row' = row /\ made' = made /\ accepted' = accepted /\ twice' = twice
      /\ interleaved' = interleaved
  BY DEF backend
<1>2. MfaTypeOK'
  BY <1>1 DEF MfaInv, MfaTypeOK
<1>3. AllowedWhenLoaded'
  <2>1. \A r \in mfaRequests' : r.phase = "loaded" => Allowed(r, r.row)'
    BY DEF Allowed, MayBeSetUp, CodeAccepted
  <2>2. QED
    BY <2>1 DEF AllowedWhenLoaded
<1>4. EnabledFromApp'
  BY DEF EnabledFromApp, OfApp
<1>5. ASSUME ~interleaved PROVE AccountSound'
  <2>1. AccountSound
    BY <1>5 DEF MfaInv
  <2>2. \A r \in mfaRequests' : r.phase = "loaded" => r.row = row
    BY <2>1 DEF AccountSound
  <2>3. QED
    BY <1>1, <2>1, <2>2 DEF AccountSound
<1>6. RequestsMade'
  BY DEF RequestsMade
<1>7. QED
  BY <1>1, <1>2, <1>3, <1>4, <1>5, <1>6 DEF MfaInv

(* What the types say of a browser's page.                                   *)
LEMMA PageTypes ==
    ASSUME MfaInv
    PROVE  /\ mfaEnabled \in [Browsers -> BOOLEAN] /\ busy \in [Browsers -> BOOLEAN]
           /\ setup \in [Browsers -> Secrets \union {NoSecret}]
           /\ app \subseteq Secrets /\ noted \subseteq BackupCodes
           /\ mfaSent \in 0 .. MaxMfaRequests /\ MaxMfaRequests \in Nat
           /\ row.enabled \in BOOLEAN
           /\ \A r \in mfaRequests :
               /\ DOMAIN r = {"n", "op", "from", "code", "phase", "row"}
               /\ r.op \in MfaOps /\ r.row \in Rows
               /\ r.phase = "loaded" => Allowed(r, r.row)
               /\ r.op = "enable" /\ r.phase # "done" => \E s \in app : r.code = OfApp(s)
BY MfaAssumption, RowColumns DEF MfaInv, MfaTypeOK, RequestsMade, AllowedWhenLoaded, EnabledFromApp

(* A request is sent; one that enables has a code of the app.                *)
LEMMA RequestKeeps ==
    ASSUME MfaInv, NEW op \in MfaOps, NEW b, NEW code, MfaRequest(op, b, code),
           busy' \in [Browsers -> BOOLEAN],
           op = "enable" => \E s \in app : code = OfApp(s)
    PROVE  MfaInv'
<1> DEFINE new == [n |-> CHOOSE i \in 0 .. mfaSent : \A r \in mfaRequests : r.n # i,
                   op |-> op, from |-> b, code |-> code, phase |-> "sent", row |-> Off]
<1>1. /\ mfaSent < MaxMfaRequests /\ mfaSent' = mfaSent + 1
      /\ mfaRequests' = mfaRequests \union {new}
      /\ UNCHANGED <<mfaEnabled, setup, app, noted, backend>>
  BY DEF MfaRequest
<1>2. /\ new.op = op /\ new.phase = "sent" /\ new.row = Off /\ new.code = code
      /\ DOMAIN new = {"n", "op", "from", "code", "phase", "row"}
  OBVIOUS
<1>3. Off \in Rows
  BY DEF Off, Rows
<1> HIDE DEF new
<1>4. mfaSent' \in 0 .. MaxMfaRequests
  BY <1>1, PageTypes
<1>5. \A r \in mfaRequests' :
          /\ DOMAIN r = {"n", "op", "from", "code", "phase", "row"}
          /\ r.op \in MfaOps /\ r.row \in Rows
          /\ r.phase = "loaded" =>
                 /\ Allowed(r, r.row)
                 /\ r.row = row \/ \E q \in mfaRequests : q.phase = "loaded" /\ q.row = r.row
          /\ r.op = "enable" /\ r.phase # "done" => \E s \in app' : r.code = OfApp(s)
  BY <1>1, <1>2, <1>3, PageTypes
<1>6. QED
  BY <1>1, <1>4, <1>5, PageTypes, BackendStill

(* The page: what is asked, shown, scanned, and left.                        *)
LEMMA PageKeeps ==
    ASSUME MfaInv,
           \/ \E b \in Browsers : startSetup(b) \/ Scan(b) \/ Known(b) \/ Leave(b)
           \/ \E b \in Browsers, s \in Secrets : confirmEnable(b, s)
           \/ \E b \in Browsers, c \in Codes : handleDisable(b, c)
           \/ (\E c \in Codes : Verify(c)) \/ Reset
    PROVE  MfaInv'
<1>0. MfaOps = {"setup", "enable", "disable", "verify", "reset"}
  BY DEF MfaOps
<1>1. \A b \in Browsers : Waits(b) => busy' \in [Browsers -> BOOLEAN]
  BY PageTypes DEF Waits
<1>2. ASSUME NEW b \in Browsers, startSetup(b) PROVE MfaInv'
  BY <1>0, <1>1, <1>2, RequestKeeps DEF startSetup
<1>3. ASSUME NEW b \in Browsers, NEW s \in Secrets, confirmEnable(b, s) PROVE MfaInv'
  BY <1>0, <1>1, <1>3, RequestKeeps DEF confirmEnable
<1>4. ASSUME NEW b \in Browsers, NEW c \in Codes, handleDisable(b, c) PROVE MfaInv'
  BY <1>0, <1>1, <1>4, RequestKeeps DEF handleDisable
<1>5. ASSUME NEW c \in Codes, Verify(c) PROVE MfaInv'
  BY <1>0, <1>5, PageTypes, RequestKeeps DEF Verify
<1>6. CASE Reset
  BY <1>0, <1>6, PageTypes, RequestKeeps DEF Reset
<1>7. ASSUME NEW b \in Browsers, Scan(b) PROVE MfaInv'
  <2>1. /\ app' = app \union {setup[b]} /\ setup[b] \in Secrets
        /\ UNCHANGED <<mfaEnabled, setup, busy, noted, mfaRequests, mfaSent, backend>>
    BY <1>7, PageTypes DEF Scan
  <2>2. QED
    BY <2>1, PageTypes, BackendStill
<1>8. ASSUME NEW b \in Browsers, Known(b) PROVE MfaInv'
  <2>1. /\ mfaEnabled' = [mfaEnabled EXCEPT ![b] = row.enabled]
        /\ UNCHANGED <<setup, busy, app, noted, mfaRequests, mfaSent, backend>>
    BY <1>8 DEF Known
  <2>2. mfaEnabled' \in [Browsers -> BOOLEAN]
    BY <2>1, PageTypes
  <2>3. QED
    BY <2>1, <2>2, PageTypes, BackendStill
<1>9. ASSUME NEW b \in Browsers, Leave(b) PROVE MfaInv'
  <2>1. /\ setup' = [setup EXCEPT ![b] = NoSecret] /\ busy' = [busy EXCEPT ![b] = FALSE]
        /\ mfaRequests' =
             {IF r.from = b THEN [r EXCEPT !.from = Elsewhere] ELSE r : r \in mfaRequests}
        /\ UNCHANGED <<mfaEnabled, app, noted, mfaSent, backend>>
    BY <1>9 DEF Leave
  <2>2. setup' \in [Browsers -> Secrets \union {NoSecret}] /\ busy' \in [Browsers -> BOOLEAN]
    BY <2>1, PageTypes
  <2>3. \A r \in mfaRequests' : \E q \in mfaRequests :
            /\ r.op = q.op /\ r.row = q.row /\ r.phase = q.phase /\ r.code = q.code
            /\ DOMAIN r = DOMAIN q
    BY <2>1, PageTypes, RequestFields
  <2>4. \A r, q, l : r.op = q.op /\ r.code = q.code => (Allowed(r, l) <=> Allowed(q, l))
    BY DEF Allowed
  <2>5. \A r \in mfaRequests' :
            /\ DOMAIN r = {"n", "op", "from", "code", "phase", "row"}
            /\ r.op \in MfaOps /\ r.row \in Rows
            /\ r.phase = "loaded" =>
                   /\ Allowed(r, r.row)
                   /\ r.row = row \/ \E q \in mfaRequests : q.phase = "loaded" /\ q.row = r.row
            /\ r.op = "enable" /\ r.phase # "done" => \E s \in app' : r.code = OfApp(s)
    BY <2>1, <2>3, <2>4, PageTypes
  <2>6. QED
    BY <2>1, <2>2, <2>5, PageTypes, BackendStill
<1>10. QED
  BY <1>2, <1>3, <1>4, <1>5, <1>6, <1>7, <1>8, <1>9

(* A handler loads the row: what it has read is what it was allowed on.      *)
LEMMA LoadKeeps == ASSUME MfaInv, NEW r \in mfaRequests, Load(r) PROVE MfaInv'
<1> DEFINE new == [r EXCEPT !.phase = "loaded", !.row = row]
<1>1. /\ r.phase = "sent" /\ Allowed(r, row)
      /\ mfaRequests' = (mfaRequests \ {r}) \union {new}
      /\ UNCHANGED browserState /\ mfaSent' = mfaSent /\ UNCHANGED backend
  BY DEF Load
<1>2. DOMAIN r = {"n", "op", "from", "code", "phase", "row"}
  BY PageTypes
<1>3. /\ new.op = r.op /\ new.row = row /\ new.phase = "loaded" /\ new.code = r.code
      /\ DOMAIN new = DOMAIN r
  BY <1>2, RequestFields
<1> HIDE DEF new
<1>4. Allowed(new, new.row)
  BY <1>1, <1>3 DEF Allowed
<1>5. row \in Rows
  BY DEF MfaInv, MfaTypeOK
<1>6. /\ mfaEnabled' = mfaEnabled /\ setup' = setup /\ busy' = busy /\ app' = app
      /\ noted' = noted
  BY <1>1 DEF browserState
<1>7. \A q \in mfaRequests' :
          /\ DOMAIN q = {"n", "op", "from", "code", "phase", "row"}
          /\ q.op \in MfaOps /\ q.row \in Rows
          /\ q.phase = "loaded" =>
                 /\ Allowed(q, q.row)
                 /\ q.row = row \/ \E x \in mfaRequests : x.phase = "loaded" /\ x.row = q.row
          /\ q.op = "enable" /\ q.phase # "done" => \E s \in app' : q.code = OfApp(s)
  <2>1. SUFFICES ASSUME NEW q \in mfaRequests', q # new PROVE q \in mfaRequests
    BY <1>1, <1>2, <1>3, <1>4, <1>5, <1>6, PageTypes
  <2>2. QED
    BY <1>1, <2>1
<1>8. QED
  BY <1>1, <1>6, <1>7, PageTypes, BackendStill

(* An answer, or none, reaches the page.                                     *)
LEMMA AnswerKeeps ==
    ASSUME MfaInv, NEW r \in mfaRequests, MfaAnswered(r) \/ Failed(r)
    PROVE  MfaInv'
<1>1. /\ mfaRequests' = mfaRequests \ {r} /\ UNCHANGED <<mfaEnabled, app, mfaSent, backend>>
      /\ Free(r)
  BY DEF MfaAnswered, Failed
<1>2. busy' \in [Browsers -> BOOLEAN]
  BY <1>1, PageTypes DEF Free
<1>3. r.row.secret \in Secrets \union {NoSecret} /\ r.row.codes \subseteq BackupCodes
  BY PageTypes, RowColumns
<1>4. setup' \in [Browsers -> Secrets \union {NoSecret}]
  <2>1. CASE MfaAnswered(r)
    <3>1. setup' = [b \in Browsers |->
                    IF b # r.from THEN setup[b]
                    ELSE CASE r.op = "setup"  -> r.row.secret
                           [] r.op = "enable" -> NoSecret
                           [] OTHER           -> setup[b]]
      BY <2>1 DEF MfaAnswered
    <3>2. QED
      BY <1>3, <3>1, PageTypes
  <2>2. QED
    BY <2>1, PageTypes DEF Failed
<1>5. noted' \subseteq BackupCodes
  BY <1>3, PageTypes DEF MfaAnswered, Failed
<1>6. QED
  BY <1>1, <1>2, <1>4, <1>5, PageTypes, BackendStill

(* What a handler makes of a row, in each of its columns.                    *)
LEMMA RowChanged ==
    ASSUME MfaInv, NEW r \in mfaRequests, r.phase = "loaded", r.op = "setup" => made < MaxSecrets
    PROVE  /\ Changed(r) \in Rows
           /\ r.op = "setup" => /\ Changed(r).enabled = r.row.enabled /\ ~r.row.enabled
                                /\ Changed(r).secret = made + 1
                                /\ Changed(r).codes = r.row.codes
           /\ r.op = "enable" => /\ Changed(r).enabled /\ ~r.row.enabled
                                 /\ Changed(r).secret = r.row.secret
                                 /\ r.row.secret # NoSecret /\ r.code = OfApp(r.row.secret)
                                 /\ Changed(r).codes = {r.row.secret} \X Slots
           /\ r.op = "verify" => /\ Changed(r).enabled = r.row.enabled /\ r.row.enabled
                                 /\ Changed(r).secret = r.row.secret
                                 /\ Changed(r).codes = r.row.codes \ {r.code}
           /\ r.op \in {"disable", "reset"} => Changed(r) = Off
<1>1. r.row \in Rows /\ Allowed(r, r.row) /\ r.op \in MfaOps
  BY PageTypes
<1>2. made \in Nat /\ MaxSecrets \in Nat
  BY MfaAssumption, MfaFacts DEF MfaInv
<1>3. CASE r.op = "setup"
  <2>1. Changed(r) = [r.row EXCEPT !.secret = made + 1] /\ ~r.row.enabled
    BY <1>1, <1>3 DEF Changed, Allowed, MayBeSetUp
  <2>2. made + 1 \in Secrets
    BY <1>2, <1>3 DEF Secrets
  <2>3. /\ Changed(r).enabled = r.row.enabled /\ Changed(r).secret = made + 1
        /\ Changed(r).codes = r.row.codes
    BY <1>1, <2>1, RowColumns
  <2>4. Changed(r) \in Rows
    BY <1>1, <2>1, <2>2 DEF Rows
  <2>5. QED
    BY <1>3, <2>1, <2>3, <2>4
<1>4. CASE r.op = "enable"
  <2>1. /\ Changed(r) = [r.row EXCEPT !.enabled = TRUE, !.codes = {r.row.secret} \X Slots]
        /\ ~r.row.enabled /\ r.row.secret # NoSecret /\ r.code = OfApp(r.row.secret)
    BY <1>1, <1>4 DEF Changed, Allowed
  <2>2. DOMAIN r.row = {"enabled", "secret", "codes"}
    BY <1>1, RowColumns
  <2>3. /\ Changed(r).enabled = TRUE /\ Changed(r).secret = r.row.secret
        /\ Changed(r).codes = {r.row.secret} \X Slots
        /\ Changed(r) = [enabled |-> TRUE, secret |-> r.row.secret,
                         codes |-> {r.row.secret} \X Slots]
    BY <2>1, <2>2
  <2>4. r.row.secret \in Secrets
    BY <1>1, <2>1, RowColumns
  <2>5. {r.row.secret} \X Slots \subseteq BackupCodes
    BY <2>4 DEF BackupCodes
  <2>6. Changed(r) \in Rows
    <3>1. \A e \in BOOLEAN : [enabled |-> e, secret |-> r.row.secret,
                              codes |-> {r.row.secret} \X Slots] \in Rows
      BY <2>4, <2>5, RowMade
    <3>2. TRUE \in BOOLEAN
      OBVIOUS
    <3>3. QED
      BY <2>3, <3>1, <3>2, Zenon
  <2>7. Changed(r).enabled
    BY <2>3
  <2>8. QED
    BY <1>4, <2>1, <2>3, <2>6, <2>7
<1>5. CASE r.op = "verify"
  <2>1. Changed(r) = [r.row EXCEPT !.codes = r.row.codes \ {r.code}] /\ r.row.enabled
    BY <1>1, <1>5 DEF Changed, Allowed, Consumed
  <2>2. /\ Changed(r).enabled = r.row.enabled /\ Changed(r).secret = r.row.secret
        /\ Changed(r).codes = r.row.codes \ {r.code}
    BY <1>1, <2>1, RowColumns
  <2>3. r.row.codes \ {r.code} \subseteq BackupCodes
    BY <1>1, RowColumns
  <2>4. Changed(r) \in Rows
    BY <1>1, <2>1, <2>3 DEF Rows
  <2>5. QED
    BY <1>5, <2>1, <2>2, <2>4
<1>6. CASE r.op \in {"disable", "reset"}
  <2>1. Changed(r) = Off
    BY <1>6 DEF Changed
  <2>2. Off \in Rows
    BY DEF Off, Rows
  <2>3. QED
    BY <1>6, <2>1, <2>2
<1>7. QED
  BY <1>1, <1>3, <1>4, <1>5, <1>6 DEF MfaOps

(* A handler that commits writes the columns it has changed; what else it    *)
(* does does not depend on whether others overlapped.                        *)
LEMMA CommitWrites ==
    ASSUME MfaInv, NEW r \in mfaRequests, Commit(r)
    PROVE  /\ r.phase = "loaded" /\ (r.op = "setup" => made < MaxSecrets)
           /\ row' \in Rows
           /\ row'.enabled = IF Changed(r).enabled # r.row.enabled
                             THEN Changed(r).enabled ELSE row.enabled
           /\ row'.secret = IF Changed(r).secret # r.row.secret
                            THEN Changed(r).secret ELSE row.secret
           /\ row'.codes = IF Changed(r).codes # r.row.codes
                           THEN Changed(r).codes ELSE row.codes
<1> DEFINE new == Changed(r)
<1>1. /\ r.phase = "loaded" /\ (r.op = "setup" => made < MaxSecrets)
      /\ row' = [col \in DOMAIN row |-> IF new[col] # r.row[col] THEN new[col] ELSE row[col]]
  BY DEF Commit
<1>2. new \in Rows
  BY <1>1, RowChanged
<1>3. row \in Rows
  BY DEF MfaInv, MfaTypeOK
<1> HIDE DEF new
<1>4. DOMAIN row = {"enabled", "secret", "codes"}
  BY <1>3, RowColumns
<1>5. row' = [col \in {"enabled", "secret", "codes"} |->
                 IF new[col] # r.row[col] THEN new[col] ELSE row[col]]
  BY <1>1, <1>4
<1>6. /\ row'.enabled = IF new.enabled # r.row.enabled THEN new.enabled ELSE row.enabled
      /\ row'.secret = IF new.secret # r.row.secret THEN new.secret ELSE row.secret
      /\ row'.codes = IF new.codes # r.row.codes THEN new.codes ELSE row.codes
  BY <1>5
<1>7. row' = [enabled |-> row'.enabled, secret |-> row'.secret, codes |-> row'.codes]
  BY <1>5
<1>8. /\ row'.enabled \in BOOLEAN /\ row'.secret \in Secrets \union {NoSecret}
      /\ row'.codes \in SUBSET BackupCodes
  <2>1. /\ new.secret \in Secrets \union {NoSecret} /\ row.secret \in Secrets \union {NoSecret}
        /\ new.codes \subseteq BackupCodes /\ row.codes \subseteq BackupCodes
    BY <1>2, <1>3, RowColumns
  <2>2. new.enabled \in BOOLEAN /\ row.enabled \in BOOLEAN
    BY <1>2, <1>3, RowColumns
  <2>3. row'.enabled \in BOOLEAN
    BY <1>6, <2>2, Zenon
  <2>4. QED
    BY <1>6, <2>1, <2>3
<1>9. row' \in Rows
  <2>1. [enabled |-> row'.enabled, secret |-> row'.secret, codes |-> row'.codes] \in Rows
    BY <1>8, RowMade
  <2>2. QED
    BY <1>7, <2>1, Zenon
<1>10. QED
  BY <1>1, <1>6, <1>9 DEF new

(* The only handler that had loaded the row leaves the account sound.        *)
LEMMA CommitSound ==
    ASSUME MfaInv, AccountSound, NEW r \in mfaRequests, Commit(r),
           \A x \in mfaRequests \ {r} : x.phase # "loaded"
    PROVE  AccountSound'
<1>1. /\ r.phase = "loaded" /\ (r.op = "setup" => made < MaxSecrets) /\ row' \in Rows
      /\ row'.enabled = IF Changed(r).enabled # r.row.enabled
                        THEN Changed(r).enabled ELSE row.enabled
      /\ row'.secret = IF Changed(r).secret # r.row.secret
                       THEN Changed(r).secret ELSE row.secret
      /\ row'.codes = IF Changed(r).codes # r.row.codes
                      THEN Changed(r).codes ELSE row.codes
  BY CommitWrites
<1>2. r.row = row
  BY <1>1 DEF AccountSound
<1>3. row'.secret = Changed(r).secret /\ row'.codes = Changed(r).codes
  BY <1>1, <1>2
<1>4. row'.enabled <=> Changed(r).enabled
  BY <1>1, <1>2, Zenon
<1>5. r.op \in MfaOps /\ Allowed(r, row) /\ row \in Rows /\ made \in Nat /\ 0 \notin Secrets
  BY <1>1, <1>2, PageTypes, MfaFacts DEF MfaInv
<1>6. /\ row.secret \in 0 .. made /\ row.codes \subseteq {row.secret} \X Slots
      /\ accepted \subseteq (1 .. made) \X Slots
      /\ row.enabled => row.secret \in app
      /\ ~row.enabled => row.codes = {} /\ \A c \in accepted : c[1] # row.secret
      /\ row.codes \intersect accepted = {} /\ twice = {}
  BY DEF AccountSound
<1>7. \A q \in mfaRequests' : q.phase # "loaded"
  <2>1. mfaRequests' = (mfaRequests \ {r}) \union
            (IF r.from = Elsewhere THEN {}
             ELSE {[r EXCEPT !.phase = "done", !.row = Changed(r), !.code = OfApp(NoSecret)]})
    BY DEF Commit
  <2>2. DOMAIN r = {"n", "op", "from", "code", "phase", "row"}
    BY PageTypes
  <2>3. [r EXCEPT !.phase = "done", !.row = Changed(r), !.code = OfApp(NoSecret)].phase = "done"
    BY <2>2, RequestFields
  <2>4. QED
    BY <2>1, <2>3
<1>8. /\ made' = IF r.op = "setup" THEN made + 1 ELSE made
      /\ app' = app
      /\ accepted' = accepted \union
            (IF r.op \in {"verify", "disable"} THEN {r.code} \intersect row.codes ELSE {})
      /\ twice' = twice \union (accepted \intersect
            (IF r.op \in {"verify", "disable"} THEN {r.code} \intersect row.codes ELSE {}))
  BY <1>2 DEF Commit, browserState
<1>9. row.codes \subseteq (1 .. made) \X Slots
  <2>1. CASE row.secret = 0
    <3>1. row.codes \subseteq BackupCodes
      BY <1>5, RowColumns
    <3>2. QED
      BY <1>5, <1>6, <2>1, <3>1 DEF BackupCodes
  <2>2. CASE row.secret # 0
    BY <1>5, <1>6, <2>2
  <2>3. QED
    BY <2>1, <2>2
<1>10. twice' = {} /\ accepted' \subseteq (1 .. made') \X Slots
  <2>1. twice' = {}
    BY <1>6, <1>8
  <2>2. accepted' \subseteq (1 .. made) \X Slots
    BY <1>6, <1>8, <1>9
  <2>3. 1 .. made \subseteq 1 .. made'
    BY <1>5, <1>8
  <2>4. QED
    BY <2>1, <2>2, <2>3
<1>11. /\ r.op = "setup" => /\ ~row.enabled /\ Changed(r).secret = made + 1
                            /\ Changed(r).codes = row.codes
                            /\ Changed(r).enabled = row.enabled
       /\ r.op = "enable" => /\ Changed(r).enabled /\ ~row.enabled
                             /\ Changed(r).secret = row.secret /\ row.secret # NoSecret
                             /\ r.code = OfApp(row.secret)
                             /\ Changed(r).codes = {row.secret} \X Slots
       /\ r.op = "verify" => /\ Changed(r).enabled = row.enabled /\ row.enabled
                             /\ Changed(r).secret = row.secret
                             /\ Changed(r).codes = row.codes \ {r.code}
       /\ r.op \in {"disable", "reset"} => Changed(r) = Off
  BY <1>1, <1>2, RowChanged
<1>12. /\ row'.secret \in 0 .. made' /\ row'.codes \subseteq {row'.secret} \X Slots
       /\ row'.enabled => row'.secret \in app'
       /\ ~row'.enabled => row'.codes = {} /\ \A c \in accepted' : c[1] # row'.secret
       /\ row'.codes \intersect accepted' = {}
  <2>1. CASE r.op = "setup"
    <3>1. ~row'.enabled /\ row'.codes = {} /\ row'.secret = made + 1 /\ made' = made + 1
      BY <1>3, <1>4, <1>6, <1>8, <1>11, <2>1
    <3>2. accepted' \subseteq (1 .. made) \X Slots
      BY <1>6, <1>8, <2>1
    <3>3. \A c \in accepted' : c[1] # row'.secret
      BY <1>5, <3>1, <3>2
    <3>4. QED
      BY <1>5, <3>1, <3>3
  <2>2. CASE r.op = "enable"
    <3>1. row'.enabled /\ row'.secret = row.secret /\ row'.codes = {row.secret} \X Slots
      BY <1>3, <1>4, <1>11, <2>2
    <3>2. row.secret \in app'
      <4>1. PICK s \in app : r.code = OfApp(s)
        BY <1>1, <2>2, PageTypes
      <4>2. QED
        BY <1>8, <1>11, <2>2, <4>1, OfAppFacts
    <3>3. row'.codes \intersect accepted' = {}
      BY <1>6, <1>8, <1>11, <2>2, <3>1
    <3>4. QED
      BY <1>6, <1>8, <2>2, <3>1, <3>2, <3>3
  <2>3. CASE r.op = "verify"
    <3>1. row'.enabled /\ row'.secret = row.secret /\ row'.codes = row.codes \ {r.code}
      BY <1>3, <1>4, <1>11, <2>3
    <3>2. row'.codes \intersect accepted' = {}
      BY <1>6, <1>8, <2>3, <3>1
    <3>3. row.secret \in app /\ made' = made
      BY <1>6, <1>8, <1>11, <2>3
    <3>4. QED
      BY <1>6, <1>8, <3>1, <3>2, <3>3
  <2>4. CASE r.op \in {"disable", "reset"}
    <3>1. Off.enabled = FALSE /\ Off.secret = 0 /\ Off.codes = {}
      BY DEF Off, NoSecret
    <3>2. ~row'.enabled
      BY <1>4, <1>11, <2>4, <3>1
    <3>3. row'.secret = 0 /\ row'.codes = {}
      BY <1>3, <1>11, <2>4, <3>1
    <3>4. made' = made
      BY <1>8, <2>4
    <3>5. \A c \in accepted' : c[1] # 0
      BY <1>10
    <3>6. QED
      BY <1>5, <3>2, <3>3, <3>4, <3>5
  <2>5. QED
    BY <1>5, <2>1, <2>2, <2>3, <2>4 DEF MfaOps
<1>13. \A q \in mfaRequests' : q.phase = "loaded" => q.row = row'
  BY <1>7
<1>14. QED
  BY <1>10, <1>12, <1>13 DEF AccountSound

(* A handler commits.                                                        *)
LEMMA CommitKeeps == ASSUME MfaInv, NEW r \in mfaRequests, Commit(r) PROVE MfaInv'
<1> DEFINE done == [r EXCEPT !.phase = "done", !.row = Changed(r), !.code = OfApp(NoSecret)]
           used == IF r.op \in {"verify", "disable"} THEN {r.code} \intersect r.row.codes ELSE {}
<1>1. /\ mfaRequests' = (mfaRequests \ {r}) \union (IF r.from = Elsewhere THEN {} ELSE {done})
      /\ made' = IF r.op = "setup" THEN made + 1 ELSE made
      /\ accepted' = accepted \union used /\ twice' = twice \union (accepted \intersect used)
      /\ interleaved' = (interleaved \/ \E x \in mfaRequests \ {r} : x.phase = "loaded")
      /\ UNCHANGED browserState /\ mfaSent' = mfaSent
  BY DEF Commit
<1>2. r.phase = "loaded" /\ (r.op = "setup" => made < MaxSecrets) /\ row' \in Rows
  BY CommitWrites
<1>3. used \subseteq BackupCodes
  BY PageTypes, RowColumns
<1>4. DOMAIN r = {"n", "op", "from", "code", "phase", "row"} /\ r.op \in MfaOps
  BY PageTypes
<1>5. /\ done.op = r.op /\ done.row = Changed(r) /\ done.phase = "done"
      /\ DOMAIN done = DOMAIN r
  BY <1>4, RequestFields
<1>6. done.row \in Rows
  BY <1>2, <1>5, RowChanged
<1> HIDE DEF done, used
<1>7. \A q \in mfaRequests' : q \in mfaRequests \/ q = done
  BY <1>1
<1>8. MfaTypeOK'
  <2>1. MfaTypeOK
    BY DEF MfaInv
  <2>2. interleaved' \in BOOLEAN
    BY <1>1, <2>1, Zenon DEF MfaTypeOK
  <2>3. made' \in 0 .. MaxSecrets
    BY <1>1, <1>2, <2>1, MfaFacts, MfaAssumption
  <2>4. accepted' \subseteq BackupCodes /\ twice' \subseteq BackupCodes
    BY <1>1, <1>3, <2>1 DEF MfaTypeOK
  <2>5. \A q \in mfaRequests' : q.op \in MfaOps /\ q.row \in Rows
    BY <1>4, <1>5, <1>6, <1>7, <2>1 DEF MfaTypeOK
  <2>6. /\ mfaEnabled' = mfaEnabled /\ busy' = busy /\ setup' = setup /\ app' = app
        /\ noted' = noted
    BY <1>1 DEF browserState
  <2>7. QED
    BY <1>1, <1>2, <2>1, <2>2, <2>3, <2>4, <2>5, <2>6 DEF MfaTypeOK
<1>9. RequestsMade'
  BY <1>4, <1>5, <1>7 DEF MfaInv, RequestsMade
<1>10. AllowedWhenLoaded'
  <2>1. \A q \in mfaRequests' : q.phase = "loaded" => Allowed(q, q.row)
    BY <1>5, <1>7, PageTypes
  <2>2. \A q : Allowed(q, q.row)' <=> Allowed(q, q.row)
    BY DEF Allowed, MayBeSetUp, CodeAccepted
  <2>3. QED
    BY <2>1, <2>2 DEF AllowedWhenLoaded
<1>11. EnabledFromApp'
  <2>1. app' = app
    BY <1>1 DEF browserState
  <2>2. \A q \in mfaRequests' : q.op = "enable" /\ q.phase # "done" =>
            \E s \in app : q.code = OfApp(s)
    BY <1>5, <1>7, PageTypes
  <2>3. QED
    BY <2>1, <2>2 DEF EnabledFromApp, OfApp
<1>12. ASSUME ~interleaved' PROVE AccountSound'
  <2>1. ~interleaved /\ \A x \in mfaRequests \ {r} : x.phase # "loaded"
    BY <1>1, <1>12
  <2>2. QED
    BY <2>1, CommitSound DEF MfaInv
<1>13. QED
  BY <1>8, <1>9, <1>10, <1>11, <1>12 DEF MfaInv

(* Every step of the page and of the handlers.                               *)
LEMMA MfaInvNext == MfaInv /\ [MfaNext]_mfaVars => MfaInv'
<1> SUFFICES ASSUME MfaInv, [MfaNext]_mfaVars PROVE MfaInv'
  OBVIOUS
<1>1. ASSUME NEW r \in mfaRequests, Load(r) \/ Commit(r) \/ MfaAnswered(r) \/ Failed(r)
      PROVE  MfaInv'
  BY <1>1, LoadKeeps, CommitKeeps, AnswerKeeps
<1>2. CASE UNCHANGED mfaVars
  <2>1. /\ UNCHANGED backend /\ mfaRequests' = mfaRequests /\ mfaSent' = mfaSent
        /\ mfaEnabled' = mfaEnabled /\ busy' = busy /\ setup' = setup /\ app' = app
        /\ noted' = noted
    BY <1>2 DEF mfaVars, backend
  <2>2. QED
    BY <2>1, PageTypes, BackendStill
<1>3. QED
  BY <1>1, <1>2, PageKeeps DEF MfaNext

(* Hence in every state of the account.                                      *)
LEMMA MfaInvariant == MfaSpec => []MfaInv
<1>1. QED
  BY MfaInvInit, MfaInvNext, PTL DEF MfaSpec

(* What the invariant says of an account.                                    *)
LEMMA MfaShows == MfaInv => StillReachable /\ BackupCodesOnce
BY DEF MfaInv, AccountSound, StillReachable, BackupCodesOnce

-----------------------------------------------------------------------------
(* ParserBench: the list and the text in the editor                        *)

(* No change was stored whose answer is still to come.                       *)
NoneDone == \A j \in jobs : j.phase = "done" => j.op = "generate"

(* Then the list that was read is the one there is, and so is the one shown  *)
(* unless it is marked; a fetch that replaces a list is of a marked one.     *)
ListCurrent ==
    /\ engine.has /\ engine.fetch # "idle" => engine.stale
    /\ ~unheard /\ NoneDone =>
          /\ Settled(engine) => engine.data = Listing(custom)
          /\ engine.fetch = "read" => engine.read = Listing(custom)

(* A request that is alone is the only one, and what it saved is stored.     *)
AloneIsAlone ==
    \A j \in jobs : j.alone =>
        /\ jobs = {j}
        /\ j.op = "save" /\ j.phase = "done" =>
              j.draft.name \in DOMAIN custom /\ custom[j.draft.name] = j.draft.text

(* The text selected is the one stored, before the list is quiet, too.       *)
TextStored ==
    sound /\ ~touched /\ ~unheard /\ NoneDone /\ selected \in DOMAIN Listing(custom)
        => draft.text = Listing(custom)[selected].yaml

BenchInv == BenchTypeOK /\ ListCurrent /\ AloneIsAlone /\ TextStored

(* A list of parsers has names of parsers, and their texts.                  *)
LEMMA ParsersFacts ==
    ASSUME NEW ps \in Parsers
    PROVE  /\ DOMAIN ps \subseteq Names
           /\ \A n \in DOMAIN ps : ps[n].yaml \in Texts
<1>1. PICK S \in SUBSET Names : ps \in [S -> [yaml: Texts, source: {"builtin", "custom"}]]
  BY DEF Parsers
<1>2. QED
  BY <1>1

(* What the engine lists is such a list, of the stored parsers by name.      *)
LEMMA ListingFacts ==
    ASSUME NEW c \in Customs
    PROVE  /\ Listing(c) \in Parsers
           /\ DOMAIN Listing(c) = DOMAIN c \union DOMAIN Builtin
           /\ \A n \in DOMAIN c : Listing(c)[n].yaml = c[n]
<1>1. PICK S \in SUBSET Names : c \in [S -> Texts]
  BY DEF Customs
<1>2. DOMAIN c \union DOMAIN Builtin \in SUBSET Names
  BY <1>1, ParserBenchAssumption
<1>3. Listing(c) \in [DOMAIN c \union DOMAIN Builtin ->
                        [yaml: Texts, source: {"builtin", "custom"}]]
  BY <1>1, ParserBenchAssumption DEF Listing
<1>4. Listing(c) \in Parsers
  BY <1>2, <1>3 DEF Parsers
<1>5. QED
  BY <1>4 DEF Listing

(* What the types say of the bench.                                          *)
LEMMA BenchFacts ==
    ASSUME BenchTypeOK
    PROVE  /\ draft.name \in Names /\ draft.text \in Texts
           /\ engine \in Entries(Parsers) /\ engine.data \in Parsers /\ engine.read \in Parsers
           /\ custom \in Customs /\ jobsSent \in 0 .. MaxJobs /\ MaxJobs \in Nat
           /\ \A j \in jobs : /\ j.op \in {"save", "delete", "generate"}
                              /\ j.phase \in {"sent", "done"} /\ j.draft \in Drafts
                              /\ j.draft.name \in Names /\ j.draft.text \in Texts
           /\ NoParser \notin Names /\ NewParser \notin Names /\ NoParser # NewParser
BY ParserBenchAssumption, EntryFields DEF BenchTypeOK, Drafts, Jobs

(* At the start the list is on its way and no text was selected.             *)
LEMMA BenchInvInit == BenchInit => BenchInv
<1> SUFFICES ASSUME BenchInit PROVE BenchInv
  OBVIOUS
<1>1. /\ selected = NoParser /\ draft = NEW_PARSER_TEMPLATE
      /\ engine = Send(NoEntry(<<>>)) /\ custom = <<>> /\ jobs = {} /\ jobsSent = 0
      /\ touched = FALSE /\ sound = FALSE /\ unheard = FALSE
  BY DEF BenchInit
<1>2. <<>> \in Customs /\ <<>> \in Parsers
  <2>1. <<>> \in [{} -> Texts] /\ <<>> \in [{} -> [yaml: Texts, source: {"builtin", "custom"}]]
    OBVIOUS
  <2>2. QED
    BY <2>1 DEF Customs, Parsers
<1>3. NoEntry(<<>>) \in Entries(Parsers)
  BY <1>2 DEF NoEntry, Entries, FetchStates
<1>4. engine \in Entries(Parsers) /\ engine.fetch = "sent" /\ engine.has = NoEntry(<<>>).has
  BY <1>1, <1>3, SendFacts
<1>5. ~engine.has
  BY <1>4 DEF NoEntry
<1>6. draft \in Drafts
  BY <1>1, ParserBenchAssumption DEF NEW_PARSER_TEMPLATE, Drafts
<1>7. BenchTypeOK
  <2>1. touched \in BOOLEAN /\ sound \in BOOLEAN /\ unheard \in BOOLEAN
    BY <1>1
  <2>2. QED
    BY <1>1, <1>2, <1>4, <1>6, <2>1, ParserBenchAssumption DEF BenchTypeOK
<1>8. ListCurrent /\ AloneIsAlone /\ TextStored
  BY <1>1, <1>4, <1>5 DEF ListCurrent, AloneIsAlone, TextStored, Settled
<1>9. QED
  BY <1>7, <1>8 DEF BenchInv

(* A parser is shown as the list has it.                                     *)
LEMMA ShownFacts ==
    ASSUME NEW ps \in Parsers, NEW n \in DOMAIN ps, NEW isSound \in BOOLEAN,
           Shown(n, ps, isSound)
    PROVE  /\ selected' \in Names /\ selected' = n /\ draft' \in Drafts
           /\ draft'.text = ps[n].yaml
           /\ touched' \in BOOLEAN /\ sound' \in BOOLEAN /\ (sound' <=> isSound)
<1>1. n \in Names /\ ps[n].yaml \in Texts
  BY ParsersFacts
<1>2. selected' = n /\ draft' = [name |-> n, text |-> ps[n].yaml]
  BY DEF Shown
<1>3. touched' = FALSE /\ sound' = isSound
  BY DEF Shown
<1>4. touched' \in BOOLEAN /\ sound' \in BOOLEAN /\ (sound' <=> isSound)
  BY <1>3
<1>5. QED
  BY <1>1, <1>2, <1>4 DEF Drafts

(* A step of the editor alone: what it shows is stored, or not sound.        *)
LEMMA EditorKeeps ==
    ASSUME BenchInv, UNCHANGED <<engine, custom, jobs, jobsSent, unheard>>,
           selected' \in Names \union {NoParser, NewParser}, draft' \in Drafts,
           touched' \in BOOLEAN, sound' \in BOOLEAN,
           \/ ~sound' \/ touched'
           \/ selected' \in DOMAIN Listing(custom) /\ ~unheard /\ NoneDone
                 => draft'.text = Listing(custom)[selected'].yaml
    PROVE  BenchInv'
<1>1. BenchTypeOK'
  BY DEF BenchInv, BenchTypeOK
<1>2. ListCurrent' /\ AloneIsAlone'
  BY DEF BenchInv, ListCurrent, AloneIsAlone, NoneDone, Settled, Listing
<1>3. NoneDone' <=> NoneDone
  BY DEF NoneDone
<1>4. Listing(custom)' = Listing(custom)
  BY DEF Listing
<1>5. TextStored'
  BY <1>3, <1>4 DEF TextStored
<1>6. QED
  BY <1>1, <1>2, <1>5 DEF BenchInv

(* A parser is picked, the text edited, a new one begun.                     *)
LEMMA UserEdits ==
    ASSUME BenchInv,
           (\E n \in Names : pick(n)) \/ (\E d \in Drafts : Edit(d)) \/ startNew
    PROVE  BenchInv'
<1>1. ASSUME NEW n \in Names, pick(n) PROVE BenchInv'
  <2>1. /\ n \in DOMAIN engine.data /\ Shown(n, engine.data, Quiet)
        /\ UNCHANGED <<engine, custom, jobs, jobsSent, unheard>>
    BY <1>1 DEF pick
  <2>2. engine.data \in Parsers
    BY BenchFacts DEF BenchInv
  <2>3. Quiet \in BOOLEAN
    BY DEF Quiet
  <2>4. /\ selected' \in Names /\ selected' = n /\ draft' \in Drafts
        /\ draft'.text = engine.data[n].yaml
        /\ touched' \in BOOLEAN /\ sound' \in BOOLEAN /\ (sound' <=> Quiet)
    BY <2>1, <2>2, <2>3, ShownFacts
  <2>5. Quiet => engine.data = Listing(custom)
    BY DEF BenchInv, ListCurrent, Quiet, NoneDone
  <2>6. QED
    BY <2>1, <2>4, <2>5, EditorKeeps
<1>2. ASSUME NEW d \in Drafts, Edit(d) PROVE BenchInv'
  <2>1. touched' \in BOOLEAN /\ touched'
    BY <1>2 DEF Edit
  <2>2. /\ selected' = selected /\ draft' = d /\ sound' = sound
        /\ UNCHANGED <<engine, custom, jobs, jobsSent, unheard>>
    BY <1>2 DEF Edit
  <2>3. selected \in Names \union {NoParser, NewParser} /\ sound \in BOOLEAN
    BY DEF BenchInv, BenchTypeOK
  <2>4. QED
    BY <2>1, <2>2, <2>3, EditorKeeps
<1>3. CASE startNew
  <2>1. NEW_PARSER_TEMPLATE \in Drafts
    BY ParserBenchAssumption DEF NEW_PARSER_TEMPLATE, Drafts
  <2>2. touched' \in BOOLEAN /\ sound' \in BOOLEAN /\ touched'
    BY <1>3 DEF startNew, Unsaved
  <2>3. /\ selected' = NewParser /\ draft' = NEW_PARSER_TEMPLATE
        /\ UNCHANGED <<engine, custom, jobs, jobsSent, unheard>>
    BY <1>3 DEF startNew, Unsaved
  <2>4. QED
    BY <2>1, <2>2, <2>3, EditorKeeps
<1>4. QED
  BY <1>1, <1>2, <1>3

(* A request is sent: what has been handled stays so.                        *)
LEMMA BenchRequestKeeps ==
    ASSUME BenchInv, NEW op \in {"save", "delete", "generate"}, NEW d \in Drafts,
           BenchRequest(op, d)
    PROVE  BenchInv'
<1> DEFINE new == [op |-> op, draft |-> d, alone |-> jobs = {}, phase |-> "sent"]
           Joined(j) == [j EXCEPT !.alone = FALSE]
<1>1. /\ jobsSent < MaxJobs /\ jobsSent' = jobsSent + 1
      /\ jobs' = {Joined(j) : j \in jobs} \union {new}
      /\ UNCHANGED <<editor, engine, custom, unheard>>
  BY DEF BenchRequest
<1>2. UNCHANGED <<selected, draft, touched, sound, engine, custom, unheard>>
  BY <1>1 DEF editor
<1>3. \A j \in jobs : j \in Jobs
  BY DEF BenchInv, BenchTypeOK
<1>4. \A j \in jobs : Joined(j) \in Jobs
  BY <1>3 DEF Jobs
<1>5. \A j \in jobs : Joined(j).op = j.op /\ Joined(j).phase = j.phase /\ ~Joined(j).alone
  BY <1>3 DEF Jobs
<1>6. new \in Jobs
  <2>1. (jobs = {}) \in BOOLEAN
    OBVIOUS
  <2>2. QED
    BY <2>1 DEF Jobs
<1>7. /\ new.op = op /\ new.phase = "sent" /\ (new.alone <=> jobs = {})
  OBVIOUS
<1> HIDE DEF new, Joined
<1>8. BenchTypeOK'
  <2>1. jobs' \subseteq Jobs
    BY <1>1, <1>4, <1>6
  <2>2. jobsSent' \in 0 .. MaxJobs
    BY <1>1, BenchFacts DEF BenchInv
  <2>3. QED
    BY <1>2, <2>1, <2>2 DEF BenchInv, BenchTypeOK
<1>9. NoneDone' => NoneDone
  BY <1>1, <1>5 DEF NoneDone
<1>10. ListCurrent'
  BY <1>2, <1>9 DEF BenchInv, ListCurrent, Settled, Listing
<1>11. AloneIsAlone'
  BY <1>1, <1>5, <1>7 DEF AloneIsAlone
<1>12. TextStored'
  BY <1>2, <1>9 DEF BenchInv, TextStored, Listing
<1>13. QED
  BY <1>8, <1>10, <1>11, <1>12 DEF BenchInv

(* The backend stores or removes a parser, or makes a text.                  *)
LEMMA BenchHandleKeeps ==
    ASSUME BenchInv, NEW j \in jobs, BenchHandle(j)
    PROVE  BenchInv'
<1> DEFINE done == [j EXCEPT !.phase = "done"]
<1>1. /\ j.phase = "sent" /\ jobs' = (jobs \ {j}) \union {done}
      /\ UNCHANGED <<selected, draft, touched, sound, engine, jobsSent, unheard>>
  BY DEF BenchHandle, editor
<1>2. j \in Jobs /\ j.draft.name \in Names /\ j.draft.text \in Texts /\ custom \in Customs
      /\ j.op \in {"save", "delete", "generate"}
  BY BenchFacts DEF BenchInv, BenchTypeOK
<1>3. /\ done \in Jobs /\ done.op = j.op /\ done.phase = "done" /\ done.draft = j.draft
      /\ (done.alone <=> j.alone)
  BY <1>2 DEF Jobs
<1> HIDE DEF done
<1>4. PICK S \in SUBSET Names : custom \in [S -> Texts]
  BY <1>2 DEF Customs
<1>5. CASE j.op = "save"
  <2>1. custom' = [n \in DOMAIN custom \union {j.draft.name} |->
                      IF n = j.draft.name THEN j.draft.text ELSE custom[n]]
    BY <1>5 DEF BenchHandle
  <2>2. custom' \in [S \union {j.draft.name} -> Texts] /\ S \union {j.draft.name} \in SUBSET Names
    BY <1>2, <1>4, <2>1
  <2>3. custom' \in Customs
    BY <2>2 DEF Customs
  <2>4. j.draft.name \in DOMAIN custom' /\ custom'[j.draft.name] = j.draft.text
    BY <2>1
  <2>5. QED
    <3>1. BenchTypeOK'
      BY <1>1, <1>3, <2>3 DEF BenchInv, BenchTypeOK
    <3>2. ~NoneDone'
      BY <1>1, <1>3, <1>5 DEF NoneDone
    <3>3. ListCurrent' /\ TextStored'
      BY <1>1, <3>2 DEF BenchInv, ListCurrent, TextStored, Settled
    <3>4. AloneIsAlone'
      BY <1>1, <1>3, <2>4 DEF BenchInv, AloneIsAlone
    <3>5. QED
      BY <3>1, <3>3, <3>4 DEF BenchInv
<1>6. CASE j.op = "delete"
  <2>1. custom' = [n \in DOMAIN custom \ {j.draft.name} |-> custom[n]]
    BY <1>6 DEF BenchHandle
  <2>2. custom' \in [S \ {j.draft.name} -> Texts] /\ S \ {j.draft.name} \in SUBSET Names
    BY <1>4, <2>1
  <2>3. custom' \in Customs
    BY <2>2 DEF Customs
  <2>4. BenchTypeOK'
    BY <1>1, <1>3, <2>3 DEF BenchInv, BenchTypeOK
  <2>5. ~NoneDone'
    BY <1>1, <1>3, <1>6 DEF NoneDone
  <2>6. ListCurrent' /\ TextStored'
    BY <1>1, <2>5 DEF BenchInv, ListCurrent, TextStored, Settled
  <2>7. AloneIsAlone'
    BY <1>1, <1>3, <1>6 DEF BenchInv, AloneIsAlone
  <2>8. QED
    BY <2>4, <2>6, <2>7 DEF BenchInv
<1>7. CASE j.op = "generate"
  <2>1. custom' = custom
    BY <1>7 DEF BenchHandle
  <2>2. BenchTypeOK'
    BY <1>1, <1>3, <2>1 DEF BenchInv, BenchTypeOK
  <2>3. NoneDone' => NoneDone
    BY <1>1 DEF NoneDone
  <2>4. ListCurrent' /\ TextStored'
    BY <1>1, <2>1, <2>3 DEF BenchInv, ListCurrent, TextStored, Settled, Listing
  <2>5. AloneIsAlone'
    BY <1>1, <1>3, <1>7, <2>1 DEF BenchInv, AloneIsAlone
  <2>6. QED
    BY <2>2, <2>4, <2>5 DEF BenchInv
<1>8. QED
  BY <1>2, <1>5, <1>6, <1>7

(* An answer comes: the parser saved is selected, or what is left of the     *)
(* list, or a new text, and the list is read again.                          *)
LEMMA BenchAnsweredKeeps ==
    ASSUME BenchInv, NEW j \in jobs, BenchAnswered(j)
    PROVE  BenchInv'
<1>1. /\ j.phase = "done" /\ jobs' = jobs \ {j} /\ UNCHANGED <<custom, jobsSent>>
      /\ ParserSaveAnswered(j) \/ DeleteAnswered(j) \/ Generated(j)
      /\ engine' = IF j.op # "generate" THEN Invalidated(engine, TRUE) ELSE engine
      /\ unheard' = (unheard \/ (j.op # "generate" /\ Joins(engine, TRUE)))
  BY DEF BenchAnswered, BenchInvalidates
<1>2. /\ engine \in Entries(Parsers) /\ engine.data \in Parsers /\ custom \in Customs
      /\ j.op \in {"save", "delete", "generate"} /\ j.draft \in Drafts /\ j.draft.name \in Names
  BY BenchFacts DEF BenchInv
<1>3. /\ Invalidated(engine, TRUE) \in Entries(Parsers)
      /\ Invalidated(engine, TRUE).has = engine.has
      /\ engine.has => Invalidated(engine, TRUE).stale
      /\ \/ Joins(engine, TRUE) /\ Invalidated(engine, TRUE).fetch = engine.fetch
         \/ ~Joins(engine, TRUE) /\ Invalidated(engine, TRUE).fetch = "sent"
  <2>1. TRUE \in BOOLEAN
    OBVIOUS
  <2>2. QED
    BY <1>2, <2>1, InvalidatedFacts
<1>4. unheard' \in BOOLEAN
  <2>1. unheard \in BOOLEAN
    BY DEF BenchInv, BenchTypeOK
  <2>2. QED
    BY <1>1, <2>1, Zenon
<1>5. engine' \in Entries(Parsers)
  BY <1>1, <1>2, <1>3
<1>6. j.op = "generate" => (NoneDone' => NoneDone)
  BY <1>1 DEF NoneDone
<1>7. unheard \/ (j.op # "generate" /\ Joins(engine, TRUE)) => unheard'
  BY <1>1
<1>8. ListCurrent'
  <2>1. CASE j.op = "generate"
    BY <1>1, <1>6, <1>7, <2>1 DEF BenchInv, ListCurrent, Settled, Listing
  <2>2. CASE j.op # "generate"
    <3>1. engine' = Invalidated(engine, TRUE)
      BY <1>1, <2>2
    <3>2. engine'.has => engine'.stale
      BY <1>3, <3>1
    <3>3. ~unheard' => engine'.fetch = "sent"
      BY <1>3, <1>7, <2>2, <3>1
    <3>4. QED
      BY <3>2, <3>3 DEF ListCurrent, Settled
  <2>3. QED
    BY <2>1, <2>2
<1>9. AloneIsAlone'
  BY <1>1 DEF BenchInv, AloneIsAlone
<1>10. Listing(custom)' = Listing(custom)
  BY <1>1 DEF Listing
<1>11. /\ selected' \in Names \union {NoParser, NewParser} /\ draft' \in Drafts
       /\ touched' \in BOOLEAN /\ sound' \in BOOLEAN
       /\ TextStored'
  <2>1. CASE ParserSaveAnswered(j)
    <3>1. /\ j.op = "save" /\ selected' = j.draft.name /\ draft' = draft
          /\ touched' = (draft # j.draft) /\ sound' = (j.alone /\ ~unheard)
      BY <2>1 DEF ParserSaveAnswered
    <3>2. j.alone \in BOOLEAN /\ unheard \in BOOLEAN /\ draft \in Drafts
      BY DEF BenchInv, BenchTypeOK, Jobs
    <3>3. touched' \in BOOLEAN /\ sound' \in BOOLEAN
      BY <3>1, <3>2, Zenon
    <3>4. ASSUME sound', ~touched' PROVE draft.text = Listing(custom)[selected'].yaml
      <4>1. j.alone /\ draft = j.draft
        BY <3>1, <3>4
      <4>2. j.draft.name \in DOMAIN custom /\ custom[j.draft.name] = j.draft.text
        BY <1>1, <3>1, <4>1 DEF BenchInv, AloneIsAlone
      <4>3. QED
        BY <1>2, <3>1, <4>1, <4>2, ListingFacts
    <3>5. TextStored'
      BY <1>10, <3>1, <3>4 DEF TextStored
    <3>6. QED
      BY <1>2, <3>1, <3>2, <3>3, <3>5
  <2>2. CASE DeleteAnswered(j)
    <3>1. CASE DOMAIN engine.data = {}
      <4>1. selected' = NoParser /\ UNCHANGED <<draft, touched, sound>>
        BY <2>2, <3>1 DEF DeleteAnswered
      <4>2. NoParser \notin DOMAIN Listing(custom)
        BY <1>2, ListingFacts, ParsersFacts, BenchFacts DEF BenchInv
      <4>3. draft' \in Drafts /\ touched' \in BOOLEAN /\ sound' \in BOOLEAN
        BY <4>1 DEF BenchInv, BenchTypeOK
      <4>4. QED
        BY <1>10, <4>1, <4>2, <4>3 DEF TextStored
    <3>2. CASE DOMAIN engine.data # {}
      <4>1. PICK n \in DOMAIN engine.data : Shown(n, engine.data, FALSE)
        BY <2>2, <3>2 DEF DeleteAnswered, FirstSelected
      <4>2. FALSE \in BOOLEAN
        OBVIOUS
      <4>3. /\ selected' \in Names /\ draft' \in Drafts
            /\ touched' \in BOOLEAN /\ sound' \in BOOLEAN /\ ~sound'
        BY <1>2, <4>1, <4>2, ShownFacts
      <4>4. QED
        BY <4>3 DEF TextStored
    <3>3. QED
      BY <3>1, <3>2
  <2>3. CASE Generated(j)
    <3>1. PICK d \in Drafts : Unsaved(d)
      BY <2>3 DEF Generated
    <3>2. touched' \in BOOLEAN /\ sound' \in BOOLEAN /\ ~sound'
      BY <3>1 DEF Unsaved
    <3>3. selected' = NewParser /\ draft' = d
      BY <3>1 DEF Unsaved
    <3>4. QED
      BY <3>2, <3>3 DEF TextStored
  <2>4. QED
    BY <1>1, <2>1, <2>2, <2>3
<1>12. BenchTypeOK'
  BY <1>1, <1>4, <1>5, <1>11 DEF BenchInv, BenchTypeOK
<1>13. QED
  BY <1>8, <1>9, <1>11, <1>12 DEF BenchInv

(* An answer that is lost may leave a change unheard of.                     *)
LEMMA JobFailsKeeps ==
    ASSUME BenchInv, NEW j \in jobs, JobFails(j)
    PROVE  BenchInv'
<1>1. /\ jobs' = jobs \ {j} /\ unheard' = (unheard \/ j.phase = "done")
      /\ UNCHANGED <<selected, draft, touched, sound, engine, custom, jobsSent>>
  BY DEF JobFails, editor
<1>2. unheard' \in BOOLEAN
  <2>1. unheard \in BOOLEAN
    BY DEF BenchInv, BenchTypeOK
  <2>2. QED
    BY <1>1, <2>1, Zenon
<1>3. BenchTypeOK'
  BY <1>1, <1>2 DEF BenchInv, BenchTypeOK
<1>4. ~unheard' => ~unheard /\ (NoneDone' => NoneDone)
  BY <1>1 DEF NoneDone
<1>5. ListCurrent' /\ TextStored'
  BY <1>1, <1>4 DEF BenchInv, ListCurrent, TextStored, Settled, Listing
<1>6. AloneIsAlone'
  BY <1>1 DEF BenchInv, AloneIsAlone
<1>7. QED
  BY <1>3, <1>5, <1>6 DEF BenchInv

(* The list is read, received and shown, or the fetch is given up.           *)
LEMMA ParsersKeep ==
    ASSUME BenchInv, ParsersRead \/ ParsersReceived \/ ParsersFail
    PROVE  BenchInv'
<1>1. UNCHANGED <<custom, jobs, jobsSent, unheard>>
  BY DEF ParsersRead, ParsersReceived, ParsersFail
<1>2. /\ engine \in Entries(Parsers) /\ engine.data \in Parsers /\ engine.read \in Parsers
      /\ custom \in Customs /\ Listing(custom) \in Parsers
  BY BenchFacts, ListingFacts DEF BenchInv
<1>3. Listing(custom)' = Listing(custom) /\ (NoneDone' <=> NoneDone)
  BY <1>1 DEF Listing, NoneDone
<1>4. /\ engine.has /\ engine.fetch # "idle" => engine.stale
      /\ ~unheard /\ NoneDone => (Settled(engine) => engine.data = Listing(custom))
      /\ ~unheard /\ NoneDone /\ engine.fetch = "read" => engine.read = Listing(custom)
  BY DEF BenchInv, ListCurrent
<1>5. AloneIsAlone'
  BY <1>1 DEF BenchInv, AloneIsAlone
<1>6. ASSUME UNCHANGED editor PROVE TextStored'
  BY <1>1, <1>3, <1>6 DEF BenchInv, TextStored, editor
<1>7. ASSUME UNCHANGED editor, engine' \in Entries(Parsers) PROVE BenchTypeOK'
  BY <1>1, <1>7 DEF BenchInv, BenchTypeOK, editor
<1>8. CASE ParsersRead
  <2>1. /\ engine' = BackendReads(engine, Listing(custom)) /\ UNCHANGED editor
        /\ engine.fetch = "sent"
    BY <1>8 DEF ParsersRead
  <2>2. /\ engine' \in Entries(Parsers) /\ engine'.has = engine.has
        /\ engine'.stale = engine.stale /\ engine'.fetch = "read"
        /\ engine'.read = Listing(custom)
    BY <1>2, <2>1, ReadFacts
  <2>3. ListCurrent'
    BY <1>3, <1>4, <2>1, <2>2 DEF ListCurrent, Settled
  <2>4. QED
    BY <1>5, <1>6, <1>7, <2>1, <2>2, <2>3 DEF BenchInv
<1>9. CASE ParsersFail
  <2>1. /\ engine' = GivenUp(engine) /\ UNCHANGED editor /\ engine.fetch = "sent"
    BY <1>9 DEF ParsersFail
  <2>2. /\ engine' \in Entries(Parsers) /\ engine'.has = engine.has
        /\ engine'.stale = engine.stale /\ engine'.fetch = "idle"
    BY <1>2, <2>1, GivenUpFacts
  <2>3. engine'.has => engine'.stale
    BY <1>4, <2>1, <2>2
  <2>4. ListCurrent'
    BY <2>2, <2>3 DEF ListCurrent, Settled
  <2>5. QED
    BY <1>5, <1>6, <1>7, <2>1, <2>2, <2>4 DEF BenchInv
<1>10. CASE ParsersReceived
  <2>1. /\ engine' = Received(engine) /\ engine.fetch = "read"
        /\ IF selected = NoParser THEN FirstSelected(engine.read, jobs = {} /\ ~unheard)
           ELSE UNCHANGED editor
    BY <1>10 DEF ParsersReceived
  <2>2. /\ engine' \in Entries(Parsers) /\ engine'.fetch = "idle" /\ engine'.data = engine.read
    BY <1>2, <2>1, ReceivedFacts
  <2>3. ListCurrent'
    BY <1>1, <1>3, <1>4, <2>1, <2>2 DEF ListCurrent, Settled
  <2>4. CASE UNCHANGED editor
    BY <1>5, <1>6, <1>7, <2>2, <2>3, <2>4 DEF BenchInv
  <2>5. ASSUME NEW n \in DOMAIN engine.read,
               Shown(n, engine.read, jobs = {} /\ ~unheard)
        PROVE  BenchInv'
    <3>1. (jobs = {} /\ ~unheard) \in BOOLEAN
      OBVIOUS
    <3>2. /\ selected' \in Names /\ selected' = n /\ draft' \in Drafts
          /\ draft'.text = engine.read[n].yaml
          /\ touched' \in BOOLEAN /\ sound' \in BOOLEAN /\ (sound' <=> (jobs = {} /\ ~unheard))
      BY <1>2, <2>5, <3>1, ShownFacts
    <3>3. BenchTypeOK'
      BY <1>1, <2>2, <3>2 DEF BenchInv, BenchTypeOK
    <3>4. sound' => engine.read = Listing(custom)
      BY <1>4, <2>1, <3>2 DEF NoneDone
    <3>5. TextStored'
      BY <1>3, <3>2, <3>4 DEF TextStored
    <3>6. QED
      BY <1>5, <2>3, <3>3, <3>5 DEF BenchInv
  <2>6. QED
    BY <2>1, <2>4, <2>5 DEF FirstSelected
<1>11. QED
  BY <1>8, <1>9, <1>10

(* Every step of the tab.                                                    *)
LEMMA BenchInvNext == BenchInv /\ [BenchNext]_benchVars => BenchInv'
<1> SUFFICES ASSUME BenchInv, [BenchNext]_benchVars PROVE BenchInv'
  OBVIOUS
<1>1. draft \in Drafts
  BY DEF BenchInv, BenchTypeOK
<1>2. CASE SaveParser
  BY <1>1, <1>2, BenchRequestKeeps DEF SaveParser
<1>3. CASE generate
  BY <1>1, <1>3, BenchRequestKeeps DEF generate
<1>4. CASE DeleteParser
  <2>1. selected \in Names /\ draft.text \in Texts
    BY <1>4, BenchFacts, ParsersFacts DEF DeleteParser, BenchInv
  <2>2. [name |-> selected, text |-> draft.text] \in Drafts
    BY <2>1 DEF Drafts
  <2>3. QED
    BY <1>4, <2>2, BenchRequestKeeps DEF DeleteParser
<1>5. CASE UNCHANGED benchVars
  <2>1. /\ UNCHANGED <<engine, custom, jobs, jobsSent, unheard>>
        /\ UNCHANGED <<selected, draft, touched, sound>>
    BY <1>5 DEF benchVars
  <2>2. QED
    BY <2>1, EditorKeeps DEF BenchInv, BenchTypeOK, TextStored
<1>6. QED
  BY <1>2, <1>3, <1>4, <1>5, UserEdits, BenchHandleKeeps, BenchAnsweredKeeps, JobFailsKeeps,
     ParsersKeep DEF BenchNext

(* What the invariant says of a tab that is quiet.                           *)
LEMMA BenchShows == BenchInv => EditorMatchesStore
BY DEF BenchInv, TextStored, EditorMatchesStore, Quiet, NoneDone

(* Hence in every state of the tab.                                          *)
LEMMA BenchInvariant == BenchSpec => []BenchInv
<1>1. QED
  BY BenchInvInit, BenchInvNext, PTL DEF BenchSpec

-----------------------------------------------------------------------------
(* DashboardBuilder: whose widgets are where                               *)

(* The widgets that may be in dashboard d: those the user has put there, and *)
(* any once a save was answered on the view of another one.                  *)
OwnOf(d) == IF crossed THEN Widgets ELSE {w \in Widgets : <<d, w>> \in placed}

(* Wherever widgets of a dashboard are, on the screen, in the cache, in a    *)
(* request or in the table, they may be in it.                               *)
DashInv ==
    /\ view \in Views /\ dirty \in BOOLEAN /\ crossed \in BOOLEAN
    /\ dashRequests \in 0 .. MaxDashRequests /\ placed \subseteq Dashboards \X Widgets
    /\ widgets \subseteq Widgets
    /\ view \in Dashboards => widgets \subseteq OwnOf(view)
    /\ DOMAIN board = Dashboards /\ board = [d \in Dashboards |-> board[d]]
    /\ \A d \in Dashboards : board[d] \in Entries(SUBSET OwnOf(d))
    /\ pending \subseteq Requests /\ \A m \in pending : m.content \subseteq OwnOf(m.of)
    /\ DOMAIN stored \subseteq Dashboards
    /\ \A d \in DOMAIN stored : stored[d] \subseteq OwnOf(d)

(* Data written into an entry are what it shows.                             *)
LEMMA WrittenFacts ==
    ASSUME NEW Data, NEW e \in Entries(Data), NEW rs \in Data
    PROVE  Written(e, rs) \in Entries(Data)
<1> DEFINE seen == IF e.fetch = "read" THEN e.read ELSE rs
<1>1. DOMAIN Written(e, rs) = {"has", "data", "fetch", "read", "stale"}
  BY DEF Written, Entries
<1>2. Written(e, rs) = [i \in {"has", "data", "fetch", "read", "stale"} |-> Written(e, rs)[i]]
  BY <1>1 DEF Written
<1>3. /\ Written(e, rs).has = TRUE /\ Written(e, rs).data = rs /\ Written(e, rs).fetch = e.fetch
      /\ Written(e, rs).read = seen /\ Written(e, rs).stale = FALSE
  BY DEF Written, Entries
<1>4. seen \in Data /\ e.fetch \in FetchStates
  BY DEF Entries
<1> HIDE DEF seen
<1>5. Written(e, rs) = [has |-> TRUE, data |-> rs, fetch |-> e.fetch,
                        read |-> seen, stale |-> FALSE]
  BY <1>1, <1>2, <1>3
<1>6. QED
  BY <1>4, <1>5 DEF Entries

(* An entry of few widgets is one of more.                                   *)
LEMMA EntriesGrow ==
    ASSUME NEW P, NEW Q, P \subseteq Q, NEW e \in Entries(SUBSET P)
    PROVE  e \in Entries(SUBSET Q)
BY DEF Entries

(* What may be in a dashboard is widgets.                                    *)
LEMMA OwnFacts == \A d : OwnOf(d) \subseteq Widgets
BY DEF OwnOf

(* A step puts into a dashboard only what may be there.                      *)
LEMMA DashKeeps ==
    ASSUME DashInv,
           view' \in Views, dirty' \in BOOLEAN, crossed' \in BOOLEAN,
           dashRequests' \in 0 .. MaxDashRequests, placed' \subseteq Dashboards \X Widgets,
           \A d \in Dashboards : OwnOf(d) \subseteq OwnOf(d)',
           widgets' \subseteq Widgets,
           \A d \in Dashboards : view' = d => widgets' \subseteq OwnOf(d)',
           \/ board' = board
           \/ \E d \in Dashboards : \E e \in Entries(SUBSET OwnOf(d)') :
                  board' = [board EXCEPT ![d] = e],
           pending' \subseteq Requests,
           \A m \in pending' : m \in pending \/ m.content \subseteq OwnOf(m.of)',
           DOMAIN stored' \subseteq Dashboards,
           \A d \in DOMAIN stored' :
               \/ d \in DOMAIN stored /\ stored'[d] = stored[d]
               \/ stored'[d] \subseteq OwnOf(d)'
    PROVE  DashInv'
<1>1. \A d \in Dashboards : board'[d] \in Entries(SUBSET OwnOf(d)')
  <2>1. \A d \in Dashboards : board[d] \in Entries(SUBSET OwnOf(d)')
    BY EntriesGrow DEF DashInv
  <2>2. QED
    BY <2>1 DEF DashInv
<1>2. DOMAIN board' = Dashboards /\ board' = [d \in Dashboards |-> board'[d]]
  BY DEF DashInv
<1>3. \A m \in pending' : m.content \subseteq OwnOf(m.of)'
  BY DEF DashInv, Requests
<1>4. \A d \in DOMAIN stored' : stored'[d] \subseteq OwnOf(d)'
  BY DEF DashInv
<1>5. (view \in Dashboards => widgets \subseteq OwnOf(view))'
  BY DEF OwnOf
<1>6. (\A d \in Dashboards : board[d] \in Entries(SUBSET OwnOf(d)))'
  BY <1>1
<1>7. (\A m \in pending : m.content \subseteq OwnOf(m.of))'
  BY <1>3 DEF OwnOf
<1>8. (\A d \in DOMAIN stored : stored[d] \subseteq OwnOf(d))'
  BY <1>4
<1>9. QED
  BY <1>2, <1>5, <1>6, <1>7, <1>8 DEF DashInv

(* At the start the stored widgets are where the user has put them.          *)
LEMMA DashInvInit == DashInit => DashInv
<1> SUFFICES ASSUME DashInit PROVE DashInv
  OBVIOUS
<1>1. /\ view = Insights /\ widgets = {} /\ pending = {} /\ dashRequests = 0
      /\ board = [d \in Dashboards |-> NoEntry({})] /\ stored = Kept
      /\ placed = UNION {{d} \X Kept[d] : d \in DOMAIN Kept}
  BY DEF DashInit
<1>2. dirty \in BOOLEAN /\ crossed \in BOOLEAN /\ ~crossed
  BY DEF DashInit
<1>3. placed \subseteq Dashboards \X Widgets
  BY <1>1, DashboardAssumption
<1>4. \A d \in DOMAIN stored : stored[d] \subseteq OwnOf(d)
  BY <1>1, <1>2, DashboardAssumption DEF OwnOf
<1>5. \A d \in Dashboards : board[d] \in Entries(SUBSET OwnOf(d))
  <2>1. \A P : NoEntry({}) \in Entries(SUBSET P)
    BY DEF NoEntry, Entries, FetchStates
  <2>2. QED
    BY <1>1, <2>1
<1>6. QED
  BY <1>1, <1>2, <1>3, <1>4, <1>5, DashboardAssumption DEF DashInv, Views

(* What the invariant says of the types.                                     *)
LEMMA DashFacts ==
    ASSUME DashInv
    PROVE  /\ view \in Views /\ dirty \in BOOLEAN /\ crossed \in BOOLEAN
           /\ dashRequests \in 0 .. MaxDashRequests /\ MaxDashRequests \in Nat
           /\ placed \subseteq Dashboards \X Widgets /\ widgets \subseteq Widgets
           /\ \A d \in Dashboards : view = d => widgets \subseteq OwnOf(d)
           /\ pending \subseteq Requests /\ DOMAIN stored \subseteq Dashboards
           /\ \A d \in DOMAIN stored : stored[d] \subseteq OwnOf(d)
           /\ \A d \in Dashboards : /\ board[d] \in Entries(SUBSET OwnOf(d))
                                    /\ board[d].data \subseteq OwnOf(d)
                                    /\ board[d].read \subseteq OwnOf(d)
           /\ \A m \in pending : /\ m.of \in Dashboards /\ m.content \subseteq OwnOf(m.of)
                                 /\ m.phase \in {"sent", "done", "refused"}
           /\ Insights \notin Dashboards
<1>1. \A d \in Dashboards : /\ board[d] \in Entries(SUBSET OwnOf(d))
                            /\ board[d].data \subseteq OwnOf(d)
                            /\ board[d].read \subseteq OwnOf(d)
  BY EntryFields DEF DashInv
<1>2. QED
  BY <1>1, DashboardAssumption DEF DashInv, Requests

(* A view is turned to: it shows nothing, or what is cached of it.           *)
LEMMA SwitchKeeps ==
    ASSUME DashInv, NEW v \in Views, NEW old \in BOOLEAN, SwitchTo(v, old),
           UNCHANGED <<stored, dashRequests, placed, crossed>>, pending' \subseteq pending
    PROVE  DashInv'
<1>1. \A d \in Dashboards : OwnOf(d)' = OwnOf(d)
  BY DEF OwnOf
<1>2. /\ view' = v /\ widgets' = IF dirty /\ v \in Dashboards
                                 THEN Filled({}, board[v], FALSE) ELSE {}
      /\ board' = IF v \in Dashboards THEN [board EXCEPT ![v] = Observed(Aged(board[v], old))]
                  ELSE board
  BY DEF SwitchTo, ResetsEdits
<1>3. dirty' \in BOOLEAN
  BY DEF SwitchTo, ResetsEdits
<1>4. v \in Dashboards => widgets' \subseteq OwnOf(v)
  BY <1>2, DashFacts DEF Filled
<1>5. widgets' \subseteq Widgets
  BY <1>2, <1>4, OwnFacts
<1>6. v \in Dashboards => Observed(Aged(board[v], old)) \in Entries(SUBSET OwnOf(v))
  BY DashFacts, AgedFacts, ObservedFacts
<1>7. \/ board' = board
      \/ \E d \in Dashboards : \E e \in Entries(SUBSET OwnOf(d)') : board' = [board EXCEPT ![d] = e]
  BY <1>1, <1>2, <1>6
<1>8. \A d \in Dashboards : view' = d => widgets' \subseteq OwnOf(d)'
  BY <1>1, <1>2, <1>4
<1>9. QED
  BY <1>1, <1>2, <1>3, <1>5, <1>7, <1>8, DashFacts, DashKeeps

(* A widget is added or removed on the dashboard shown.                      *)
LEMMA WidgetsKeep ==
    ASSUME DashInv, NEW w \in Widgets, AddWidget(w) \/ RemoveWidget(w)
    PROVE  DashInv'
<1>1. /\ view \in Dashboards /\ view' = view
      /\ UNCHANGED <<board, pending, stored, dashRequests>>
  BY DEF AddWidget, RemoveWidget
<1>2. dirty' \in BOOLEAN /\ crossed' = crossed
  BY DEF AddWidget, RemoveWidget
<1>3. placed \subseteq placed' /\ placed' \subseteq Dashboards \X Widgets
  BY <1>1, DashFacts DEF AddWidget, RemoveWidget
<1>4. \A d \in Dashboards : OwnOf(d) \subseteq OwnOf(d)'
  BY <1>2, <1>3 DEF OwnOf
<1>5. widgets' \subseteq widgets \/ (widgets' \subseteq widgets \union {w} /\ w \in OwnOf(view)')
  BY <1>2 DEF AddWidget, RemoveWidget, OwnOf
<1>6. /\ widgets' \subseteq Widgets
      /\ \A d \in Dashboards : view' = d => widgets' \subseteq OwnOf(d)'
  BY <1>1, <1>4, <1>5, DashFacts, OwnFacts
<1>7. QED
  BY <1>1, <1>2, <1>3, <1>4, <1>6, DashFacts, DashKeeps

(* A request takes what the screen shows of a dashboard, or nothing.         *)
LEMMA DashRequestKeeps ==
    ASSUME DashInv, NEW op \in {"save", "delete", "create"}, NEW d \in Dashboards,
           NEW content, content \subseteq OwnOf(d), DashRequest(op, d, content)
    PROVE  DashInv'
<1>1. /\ dashRequests < MaxDashRequests /\ dashRequests' = dashRequests + 1
      /\ pending' = pending \union
            {[op |-> op, of |-> d, content |-> content, phase |-> "sent"]}
      /\ UNCHANGED <<view, widgets, dirty, board, stored, placed, crossed>>
  BY DEF DashRequest
<1>2. \A x \in Dashboards : OwnOf(x)' = OwnOf(x)
  BY <1>1 DEF OwnOf
<1>3. [op |-> op, of |-> d, content |-> content, phase |-> "sent"] \in Requests
  BY OwnFacts DEF Requests
<1>4. dashRequests' \in 0 .. MaxDashRequests
  BY <1>1, DashFacts
<1>5. pending' \subseteq Requests
  BY <1>1, <1>3, DashFacts
<1>6. \A m \in pending' : m \in pending \/ m.content \subseteq OwnOf(m.of)'
  BY <1>1, <1>2
<1>7. dirty' \in BOOLEAN /\ crossed' \in BOOLEAN
  BY <1>1, DashFacts
<1>8. QED
  BY <1>1, <1>2, <1>4, <1>5, <1>6, <1>7, DashFacts, DashKeeps

(* A request is handled: what it brought is stored, or nothing.              *)
LEMMA DashHandleKeeps ==
    ASSUME DashInv, NEW m \in pending, DashHandle(m)
    PROVE  DashInv'
<1> DEFINE found == m.op = "create" \/ m.of \in DOMAIN stored
           handled == [m EXCEPT !.phase = IF found THEN "done" ELSE "refused"]
<1>1. /\ pending' = (pending \ {m}) \union {handled}
      /\ stored' = IF ~found THEN stored
                   ELSE IF m.op = "delete" THEN Without(m.of) ELSE Put(m.of, m.content)
      /\ UNCHANGED <<view, widgets, board, dashRequests, placed>>
  BY DEF DashHandle
<1>2. dirty' = dirty /\ crossed' = crossed
  BY DEF DashHandle
<1>3. \A x \in Dashboards : OwnOf(x)' = OwnOf(x)
  BY <1>1, <1>2 DEF OwnOf
<1>4. m \in Requests /\ m.of \in Dashboards /\ m.content \subseteq OwnOf(m.of)
  BY DashFacts
<1>5. handled \in Requests /\ handled.of = m.of /\ handled.content = m.content
  BY <1>4 DEF Requests
<1> HIDE DEF found, handled
<1>6. DOMAIN stored' \subseteq Dashboards
  BY <1>1, <1>4, DashFacts DEF Put, Without
<1>7. \A d \in DOMAIN stored' : \/ d \in DOMAIN stored /\ stored'[d] = stored[d]
                                \/ stored'[d] \subseteq OwnOf(d)'
  BY <1>1, <1>3, <1>4, <1>6 DEF Put, Without
<1>8. pending' \subseteq Requests /\ \A x \in pending' : x \in pending \/ x.content \subseteq OwnOf(x.of)'
  BY <1>1, <1>3, <1>4, <1>5, DashFacts
<1>9. QED
  BY <1>1, <1>2, <1>3, <1>6, <1>7, <1>8, DashFacts, DashKeeps

(* The answer to a save: what was saved is shown and cached on the view      *)
(* shown by now, which is the one it is of unless it has crossed.            *)
LEMMA DashSaveAnsweredKeeps ==
    ASSUME DashInv, NEW m \in pending, DashAnswered(m), DashSaveAnswered(m)
    PROVE  DashInv'
<1>1. /\ pending' = pending \ {m} /\ UNCHANGED <<stored, dashRequests, placed, view>>
      /\ board' = IF view \in Dashboards THEN [board EXCEPT ![view] = Written(board[view], m.content)]
                  ELSE board
      /\ widgets' = IF view \in Dashboards /\ (dirty \/ ~board[view].has
                                                     \/ board[view].data # m.content)
                    THEN m.content ELSE widgets
  BY DEF DashAnswered, DashSaveAnswered
<1>2. dirty' \in BOOLEAN
  BY DEF DashSaveAnswered
<1>3. crossed' \in BOOLEAN /\ (crossed \/ (view # m.of /\ view \in Dashboards) => crossed')
  <2>1. crossed' = (crossed \/ (view # m.of /\ view \in Dashboards)) /\ crossed \in BOOLEAN
    BY DashFacts DEF DashSaveAnswered
  <2>2. QED
    BY <2>1, Zenon
<1>4. \A d \in Dashboards : OwnOf(d) \subseteq OwnOf(d)'
  BY <1>1, <1>3 DEF OwnOf
<1>5. m.of \in Dashboards /\ m.content \subseteq OwnOf(m.of) /\ m.content \subseteq Widgets
  BY DashFacts, OwnFacts
<1>6. \A d \in Dashboards : view = d => m.content \subseteq OwnOf(d)'
  <2>1. crossed' => \A d : OwnOf(d)' = Widgets
    BY DEF OwnOf
  <2>2. QED
    BY <1>3, <1>4, <1>5, <2>1
<1>7. \A d \in Dashboards : view = d =>
          Written(board[d], m.content) \in Entries(SUBSET OwnOf(d)')
  <2> SUFFICES ASSUME NEW d \in Dashboards, view = d
               PROVE  Written(board[d], m.content) \in Entries(SUBSET OwnOf(d)')
    OBVIOUS
  <2>1. board[d] \in Entries(SUBSET OwnOf(d)')
    BY <1>4, DashFacts, EntriesGrow
  <2>2. QED
    BY <1>6, <2>1, WrittenFacts
<1>8. \/ board' = board
      \/ \E d \in Dashboards : \E e \in Entries(SUBSET OwnOf(d)') : board' = [board EXCEPT ![d] = e]
  BY <1>1, <1>7
<1>9. \A d \in Dashboards : view' = d => widgets' \subseteq OwnOf(d)'
  BY <1>1, <1>4, <1>6, DashFacts
<1>10. widgets' \subseteq Widgets
  BY <1>1, <1>5, DashFacts
<1>11. QED
  BY <1>1, <1>2, <1>3, <1>4, <1>8, <1>9, <1>10, DashFacts, DashKeeps

(* A deletion or creation is answered: another view is turned to, or none.   *)
LEMMA MovesOnKeeps ==
    ASSUME DashInv, NEW m \in pending, DashAnswered(m), MovesOn(m)
    PROVE  DashInv'
<1>1. pending' = pending \ {m} /\ UNCHANGED <<stored, dashRequests, placed>> /\ crossed' = crossed
  BY DEF DashAnswered, MovesOn
<1>2. CASE UNCHANGED <<view, widgets, dirty, board>>
  <2>1. \A d \in Dashboards : OwnOf(d)' = OwnOf(d)
    BY <1>1 DEF OwnOf
  <2>2. dirty' \in BOOLEAN /\ crossed' \in BOOLEAN
    BY <1>1, <1>2, DashFacts
  <2>3. QED
    BY <1>1, <1>2, <2>1, <2>2, DashFacts, DashKeeps
<1>3. ASSUME NEW v \in Views, NEW old \in BOOLEAN, SwitchTo(v, old) PROVE DashInv'
  BY <1>1, <1>3, SwitchKeeps
<1>4. Insights \in Views /\ m.of \in Views
  BY DashFacts DEF Views
<1>5. QED
  BY <1>2, <1>3, <1>4 DEF MovesOn

(* The entry of a dashboard changes; the screen shows what it showed, or     *)
(* what the entry has.                                                       *)
LEMMA EntryKeeps ==
    ASSUME DashInv, NEW d \in Dashboards, NEW e \in Entries(SUBSET OwnOf(d)),
           DashEntryStep(d, e),
           widgets' = widgets \/ (d = view /\ widgets' = e.data)
    PROVE  DashInv'
<1>1. board' = [board EXCEPT ![d] = e] /\ view' = view /\ dirty' = dirty /\ crossed' = crossed
      /\ UNCHANGED <<pending, stored, dashRequests, placed>>
  BY DEF DashEntryStep
<1>2. \A x \in Dashboards : OwnOf(x)' = OwnOf(x)
  BY <1>1 DEF OwnOf
<1>3. e.data \subseteq OwnOf(d)
  BY EntryFields
<1>4. widgets' \subseteq Widgets /\ \A x \in Dashboards : view' = x => widgets' \subseteq OwnOf(x)'
  BY <1>1, <1>2, <1>3, DashFacts, OwnFacts
<1>5. QED
  BY <1>1, <1>2, <1>4, DashFacts, DashKeeps

(* A fetch is read, answered or given up.                                    *)
LEMMA DashFetchKeeps ==
    ASSUME DashInv, NEW d \in Dashboards,
           IsRead(d) \/ Fails(d) \/ \E anew \in BOOLEAN : Arrives(d, anew)
    PROVE  DashInv'
<1>1. board[d] \in Entries(SUBSET OwnOf(d))
  BY DashFacts
<1>2. CASE IsRead(d)
  <2>1. d \in DOMAIN stored /\ DashEntryStep(d, BackendReads(board[d], stored[d]))
        /\ widgets' = widgets
    BY <1>2 DEF IsRead
  <2>2. stored[d] \in SUBSET OwnOf(d)
    BY <2>1, DashFacts
  <2>3. BackendReads(board[d], stored[d]) \in Entries(SUBSET OwnOf(d))
    BY <1>1, <2>2, ReadFacts
  <2>4. QED
    BY <2>1, <2>3, EntryKeeps
<1>3. CASE Fails(d)
  BY <1>1, <1>3, GivenUpFacts, EntryKeeps DEF Fails
<1>4. ASSUME NEW anew \in BOOLEAN, Arrives(d, anew) PROVE DashInv'
  <2>1. DashEntryStep(d, Received(board[d]))
        /\ widgets' = IF d = view /\ anew THEN Filled(widgets, Received(board[d]), dirty)
                      ELSE widgets
    BY <1>4 DEF Arrives
  <2>2. Received(board[d]) \in Entries(SUBSET OwnOf(d))
    BY <1>1, ReceivedFacts
  <2>3. QED
    BY <2>1, <2>2, EntryKeeps DEF Filled
<1>5. QED
  BY <1>2, <1>3, <1>4

(* Every step of the page.                                                   *)
LEMMA DashInvNext == DashInv /\ [DashNext]_dashVars => DashInv'
<1> SUFFICES ASSUME DashInv, [DashNext]_dashVars PROVE DashInv'
  OBVIOUS
<1>1. ASSUME NEW v \in Views, Pick(v) PROVE DashInv'
  BY <1>1, SwitchKeeps DEF Pick
<1>2. CASE SaveDashboard
  BY <1>2, DashFacts, DashRequestKeeps DEF SaveDashboard
<1>3. CASE DeleteDashboard
  BY <1>3, DashRequestKeeps DEF DeleteDashboard
<1>4. CASE CreateDashboard
  BY <1>4, DashRequestKeeps DEF CreateDashboard
<1>5. ASSUME UNCHANGED <<view, widgets, dirty, board, stored, dashRequests, placed, crossed>>,
             pending' \subseteq pending
      PROVE  DashInv'
  <2>1. \A d \in Dashboards : OwnOf(d)' = OwnOf(d)
    BY <1>5 DEF OwnOf
  <2>2. dirty' \in BOOLEAN /\ crossed' \in BOOLEAN
    BY <1>5, DashFacts
  <2>3. QED
    BY <1>5, <2>1, <2>2, DashFacts, DashKeeps
<1>6. ASSUME NEW m \in pending, DashRefused(m) PROVE DashInv'
  BY <1>5, <1>6 DEF DashRefused
<1>7. CASE UNCHANGED dashVars
  BY <1>5, <1>7 DEF dashVars
<1>8. ASSUME NEW m \in pending, DashAnswered(m) PROVE DashInv'
  BY <1>8, DashSaveAnsweredKeeps, MovesOnKeeps DEF DashAnswered
<1>9. QED
  BY <1>1, <1>2, <1>3, <1>4, <1>6, <1>7, <1>8, WidgetsKeep, DashHandleKeeps, DashFetchKeeps
     DEF DashNext

(* Hence in every state of the page.                                         *)
LEMMA DashInvariant == DashSpec => []DashInv
<1>1. QED
  BY DashInvInit, DashInvNext, PTL DEF DashSpec

(* What the invariant says of the table, and of the types.                   *)
LEMMA DashShows == DashInv => NoMixing /\ DashTypeOK
<1> SUFFICES ASSUME DashInv PROVE NoMixing /\ DashTypeOK
  OBVIOUS
<1>1. NoMixing
  BY DashFacts DEF NoMixing, OwnOf
<1>2. \A d \in Dashboards : board[d] \in Entries(SUBSET Widgets)
  BY DashFacts, OwnFacts, EntriesGrow
<1>3. board \in [Dashboards -> Entries(SUBSET Widgets)]
  BY <1>2 DEF DashInv
<1>4. \A d \in DOMAIN stored : stored[d] \subseteq Widgets
  BY DashFacts, OwnFacts
<1>5. QED
  BY <1>1, <1>3, <1>4, DashFacts DEF DashTypeOK

-----------------------------------------------------------------------------
(* WorkflowEditor: what the canvas has of the stored workflow              *)

(* What is on the canvas or was taken off it by the user.                    *)
OnCanvas == graph \union removed

(* A request that is on its way is for the row it was sent for, and has a    *)
(* row when it was handled.                                                  *)
RowOfSent ==
    \A m \in saves :
        (m.phase = "sent" => m.row = m.of) /\ (m.phase = "done" => m.row \in Flows)

(* Until a fetch and a save overlap, or another tab saves, what is stored of *)
(* the workflow shown is on the canvas once it was fetched, ...              *)
CanvasHasStored ==
    loaded /\ ~mixed /\ route \in DOMAIN table => table[route] \subseteq OnCanvas

(* ... the saves on their way are this page's, sent since the last fetch, ...*)
OwnSaves ==
    ~mixed /\ route \in Flows =>
        \A m \in saves : m.of = route /\ m.phase = "sent" =>
            m.here /\ m.graph \subseteq OnCanvas /\ flow[route].fetch = "idle"

(* ... and what the fetch has read is what is stored.                        *)
ReadIsStored ==
    ~mixed /\ route \in DOMAIN table /\ route \in Flows /\ flow[route].fetch = "read"
        => flow[route].read = table[route]

(* What is cached of the workflow shown is on the canvas.                    *)
CanvasHasCached ==
    route \in Flows /\ flow[route].has => flow[route].data \subseteq OnCanvas

(* A save that is sure is the only content on its way to its workflow.       *)
SureAlone ==
    \A m, x \in saves :
        /\ m.phase = "sent" /\ m.sure /\ m.of \in Flows
        /\ x.phase = "sent" /\ x.of = m.of
        => x.graph = m.graph

(* What the page of a new workflow has sent is on its canvas; once it is     *)
(* stored the page has no entry for it, and another tab may save it.         *)
NewKept ==
    route = New => \A m \in saves : m.here =>
        /\ m.of = New /\ (m.phase = "sent" => m.graph \subseteq OnCanvas)
        /\ m.phase = "done" =>
              /\ m.row \in Flows /\ flow[m.row] = NoEntry({})
              /\ m.row \in DOMAIN table /\ ~mixed => table[m.row] \subseteq OnCanvas
              /\ \A x \in saves : ~(x.of = m.row /\ x.phase = "sent")

FlowInv ==
    /\ FlowTypeOK /\ RowOfSent /\ CanvasHasStored /\ OwnSaves /\ ReadIsStored
    /\ CanvasHasCached /\ SureAlone /\ NewKept /\ SavesKeep

(* Requests are as they were, or less sure, or of a page that is left.       *)
SavesFrom ==
    /\ saves' \subseteq Saves
    /\ \A x \in saves' : \E m \in saves :
          /\ x.of = m.of /\ x.row = m.row /\ x.graph = m.graph /\ x.removed = m.removed
          /\ x.phase = m.phase /\ (x.sure => m.sure) /\ (x.here => m.here)

(* No row is written.                                                        *)
RowsFrom == \A f \in DOMAIN table' : f \in DOMAIN table /\ table'[f] = table[f]

(* What the types say of a request, of the table and of the cache.           *)
LEMMA FlowFacts ==
    ASSUME FlowTypeOK
    PROVE  /\ route \in Flows \union {FlowsPage, New} /\ graph \subseteq Parts
           /\ removed \subseteq Parts /\ loaded \in BOOLEAN /\ mixed \in BOOLEAN
           /\ \A f \in Flows : /\ flow[f] \in Entries(SUBSET Parts)
                               /\ flow[f].data \subseteq Parts /\ flow[f].read \subseteq Parts
           /\ saves \subseteq Saves
           /\ \A m \in saves : /\ m.of \in Flows \union {New} /\ m.row \in Flows \union {New}
                               /\ m.graph \subseteq Parts /\ m.phase \in {"sent", "done"}
           /\ DOMAIN table \subseteq Flows
           /\ sends \in 0 .. MaxSaves /\ MaxSaves \in Nat
           /\ FlowsPage \notin Flows /\ New \notin Flows /\ FlowsPage # New
<1>1. \A f \in Flows : /\ flow[f] \in Entries(SUBSET Parts)
                       /\ flow[f].data \subseteq Parts /\ flow[f].read \subseteq Parts
  <2>1. \A f \in Flows : flow[f] \in Entries(SUBSET Parts)
    BY DEF FlowTypeOK
  <2>2. \A f \in Flows : flow[f].data \in SUBSET Parts /\ flow[f].read \in SUBSET Parts
    BY <2>1, EntryFields
  <2>3. QED
    BY <2>1, <2>2
<1>2. QED
  BY <1>1, WorkflowAssumption DEF FlowTypeOK, Saves

(* The page is left by its requests, or their content is no longer sure.     *)
LEMMA SaveFields ==
    ASSUME NEW m \in Saves
    PROVE  /\ LET x == [m EXCEPT !.here = FALSE] IN
                /\ x \in Saves /\ ~x.here
                /\ x.of = m.of /\ x.row = m.row /\ x.graph = m.graph /\ x.removed = m.removed
                /\ x.phase = m.phase /\ (x.sure <=> m.sure)
           /\ LET x == [m EXCEPT !.sure = FALSE] IN
                /\ x \in Saves /\ ~x.sure
                /\ x.of = m.of /\ x.row = m.row /\ x.graph = m.graph /\ x.removed = m.removed
                /\ x.phase = m.phase /\ (x.here <=> m.here)
<1>1. FALSE \in BOOLEAN
  OBVIOUS
<1> DEFINE l == [m EXCEPT !.here = FALSE]
           u == [m EXCEPT !.sure = FALSE]
<1>2. l \in Saves /\ u \in Saves
  BY DEF Saves
<1>3. /\ ~l.here /\ l.of = m.of /\ l.row = m.row /\ l.graph = m.graph /\ l.removed = m.removed
      /\ l.phase = m.phase /\ (l.sure <=> m.sure)
  BY DEF Saves
<1>4. /\ ~u.sure /\ u.of = m.of /\ u.row = m.row /\ u.graph = m.graph /\ u.removed = m.removed
      /\ u.phase = m.phase /\ (u.here <=> m.here)
  BY DEF Saves
<1>5. QED
  BY <1>2, <1>3, <1>4

(* A request that is done.                                                   *)
LEMMA DoneFields ==
    ASSUME NEW m \in Saves, NEW f \in Flows
    PROVE  /\ Done(m, f) \in Saves /\ Done(m, f).of = m.of /\ Done(m, f).row = f
           /\ Done(m, f).phase = "done" /\ (Done(m, f).here <=> m.here)
<1> DEFINE d == Done(m, f)
<1>1. DOMAIN m = {"of", "row", "graph", "removed", "sure", "here", "phase"}
  BY DEF Saves
<1>2. DOMAIN d = {"of", "row", "graph", "removed", "sure", "here", "phase"}
  BY <1>1 DEF Done
<1>3. d = [i \in {"of", "row", "graph", "removed", "sure", "here", "phase"} |-> d[i]]
  BY <1>2 DEF Done
<1>4. /\ d.of = m.of /\ d.row = f /\ d.graph = {} /\ d.removed = {} /\ d.phase = "done"
  BY <1>1 DEF Done
<1>5. d.sure = FALSE /\ d.here = m.here
  BY <1>1 DEF Done
<1>6. m.here \in BOOLEAN /\ m.of \in Flows \union {New}
  BY DEF Saves
<1> HIDE DEF d
<1>7. d.sure \in BOOLEAN /\ d.here \in BOOLEAN /\ (d.here <=> m.here)
  BY <1>5, <1>6
<1>8. d = [of |-> d.of, row |-> d.row, graph |-> d.graph, removed |-> d.removed,
           sure |-> d.sure, here |-> d.here, phase |-> d.phase]
  BY <1>3
<1>9. d \in Saves
  BY <1>4, <1>6, <1>7, <1>8 DEF Saves
<1>10. QED
  BY <1>4, <1>7, <1>9 DEF d

(* Requests of a page that is left, or a part of them, come from what there  *)
(* was.                                                                      *)
LEMMA LeftFrom ==
    ASSUME FlowTypeOK,
           saves' = {[m EXCEPT !.here = FALSE] : m \in saves} \/ saves' \subseteq saves
    PROVE  SavesFrom
<1>1. CASE saves' \subseteq saves
  BY <1>1 DEF SavesFrom, FlowTypeOK
<1>2. CASE saves' = {[m EXCEPT !.here = FALSE] : m \in saves}
  <2>1. \A m \in saves : m \in Saves
    BY DEF FlowTypeOK
  <2>2. SUFFICES ASSUME NEW m \in saves, NEW x, x = [m EXCEPT !.here = FALSE]
                 PROVE  /\ x \in Saves
                        /\ x.of = m.of /\ x.row = m.row /\ x.graph = m.graph
                        /\ x.removed = m.removed /\ x.phase = m.phase
                        /\ (x.sure => m.sure) /\ (x.here => m.here)
    BY <1>2 DEF SavesFrom
  <2>3. QED
    BY <2>1, <2>2, SaveFields
<1>3. QED
  BY <1>1, <1>2

(* What is said of the requests alone stays true of such ones.               *)
LEMMA SavesStill ==
    ASSUME FlowInv, SavesFrom, RowsFrom
    PROVE  RowOfSent' /\ SureAlone' /\ SavesKeep'
<1>1. RowOfSent'
  BY DEF FlowInv, RowOfSent, SavesFrom
<1>2. SureAlone'
  BY DEF FlowInv, SureAlone, SavesFrom
<1>3. SavesKeep'
  BY DEF FlowInv, SavesKeep, SavesFrom, RowsFrom
<1>4. QED
  BY <1>1, <1>2, <1>3

(* A step that turns to no other page and fetches nothing.                   *)
LEMMA CanvasStill ==
    ASSUME FlowInv, saves' \subseteq saves, RowsFrom,
           UNCHANGED <<route, flow, loaded, mixed>>, OnCanvas \subseteq OnCanvas',
           graph' \subseteq Parts, removed' \subseteq Parts, sends' \in 0 .. MaxSaves
    PROVE  FlowInv'
<1>0. SavesFrom
  BY LeftFrom DEF FlowInv
<1>1. FlowTypeOK'
  BY DEF FlowInv, FlowTypeOK, RowsFrom
<1>2. CanvasHasStored'
  BY DEF FlowInv, CanvasHasStored, RowsFrom
<1>3. OwnSaves'
  BY DEF FlowInv, OwnSaves
<1>4. ReadIsStored' /\ CanvasHasCached'
  BY DEF FlowInv, ReadIsStored, CanvasHasCached, RowsFrom
<1>5. NewKept'
  <2> SUFFICES ASSUME route = New, NEW x \in saves', x.here
               PROVE  /\ x.of = New /\ (x.phase = "sent" => x.graph \subseteq OnCanvas')
                      /\ x.phase = "done" =>
                            /\ x.row \in Flows /\ flow[x.row] = NoEntry({})
                            /\ x.row \in DOMAIN table' /\ ~mixed => table'[x.row] \subseteq OnCanvas'
                            /\ \A y \in saves' : ~(y.of = x.row /\ y.phase = "sent")
    BY DEF NewKept
  <2>1. /\ x.of = New /\ (x.phase = "sent" => x.graph \subseteq OnCanvas)
        /\ x.phase = "done" =>
              /\ x.row \in Flows /\ flow[x.row] = NoEntry({})
              /\ x.row \in DOMAIN table /\ ~mixed => table[x.row] \subseteq OnCanvas
              /\ \A y \in saves : ~(y.of = x.row /\ y.phase = "sent")
    BY DEF FlowInv, NewKept
  <2>2. QED
    BY <2>1 DEF RowsFrom
<1>6. QED
  BY <1>0, <1>1, <1>2, <1>3, <1>4, <1>5, SavesStill DEF FlowInv

(* At the start the list is shown and nothing is on its way.                 *)
LEMMA FlowInvInit == FlowInit => FlowInv
<1> SUFFICES ASSUME FlowInit PROVE FlowInv
  OBVIOUS
<1>1. /\ route = FlowsPage /\ graph = {} /\ removed = {} /\ saves = {} /\ sends = 0
      /\ flow = [f \in Flows |-> NoEntry({})] /\ table = KeptFlows
  BY DEF FlowInit
<1>2. loaded \in BOOLEAN /\ mixed \in BOOLEAN /\ ~loaded
  BY DEF FlowInit
<1>3. NoEntry({}) \in Entries(SUBSET Parts)
  BY DEF NoEntry, Entries, FetchStates
<1>4. FlowTypeOK
  BY <1>1, <1>2, <1>3, WorkflowAssumption DEF FlowTypeOK
<1>5. /\ RowOfSent /\ CanvasHasStored /\ OwnSaves /\ ReadIsStored
      /\ CanvasHasCached /\ SureAlone /\ NewKept /\ SavesKeep
  BY <1>1, <1>2, WorkflowAssumption
     DEF RowOfSent, CanvasHasStored, OwnSaves, ReadIsStored, CanvasHasCached, SureAlone,
         NewKept, SavesKeep
<1>6. QED
  BY <1>4, <1>5 DEF FlowInv

(* A workflow is opened: unless a fetch or a save of it is on its way, what  *)
(* comes next is its own.                                                    *)
LEMMA OpenKeeps ==
    ASSUME FlowInv, NEW f \in Flows, NEW old \in BOOLEAN, SavesFrom, Watches(f, old),
           UNCHANGED <<table, sends>>, loaded' \in BOOLEAN,
           mixed' \in BOOLEAN, Overlaps(f) => mixed',
           graph' \subseteq Parts, removed' \subseteq Parts,
           flow[f].has => flow[f].data \subseteq OnCanvas',
           loaded' /\ ~mixed' /\ f \in DOMAIN table => table[f] \subseteq OnCanvas'
    PROVE  FlowInv'
<1> DEFINE e == Observed(Aged(flow[f], old))
<1>1. route' = f /\ flow' = [flow EXCEPT ![f] = e]
  BY DEF Watches
<1>2. mixed' \in BOOLEAN /\ (~mixed' => ~Saving(f) /\ flow[f].fetch = "idle")
  BY DEF Overlaps
<1>3. /\ e \in Entries(SUBSET Parts) /\ e.has = flow[f].has /\ e.data = flow[f].data
      /\ e.fetch = flow[f].fetch \/ e.fetch = "sent"
  <2>1. flow[f] \in Entries(SUBSET Parts)
    BY FlowFacts DEF FlowInv
  <2>2. /\ Aged(flow[f], old) \in Entries(SUBSET Parts)
        /\ Aged(flow[f], old).has = flow[f].has /\ Aged(flow[f], old).data = flow[f].data
        /\ Aged(flow[f], old).fetch = flow[f].fetch
    BY <2>1, AgedFacts
  <2>3. QED
    BY <2>2, ObservedFacts
<1> HIDE DEF e
<1>4. /\ flow' \in [Flows -> Entries(SUBSET Parts)] /\ flow'[f] = e
  BY <1>1, <1>3 DEF FlowInv, FlowTypeOK
<1>5. FlowTypeOK'
  BY <1>1, <1>2, <1>4 DEF FlowInv, FlowTypeOK, SavesFrom
<1>6. CanvasHasStored'
  BY <1>1, <1>2 DEF CanvasHasStored
<1>7. OwnSaves'
  BY <1>1, <1>2 DEF OwnSaves, SavesFrom, Saving
<1>8. ReadIsStored'
  BY <1>1, <1>2, <1>3, <1>4 DEF ReadIsStored
<1>9. CanvasHasCached'
  BY <1>1, <1>3, <1>4 DEF CanvasHasCached
<1>10. NewKept'
  BY <1>1, WorkflowAssumption DEF NewKept
<1>11. RowsFrom
  BY DEF RowsFrom
<1>12. QED
  BY <1>5, <1>6, <1>7, <1>8, <1>9, <1>10, <1>11, SavesStill DEF FlowInv

(* A workflow is chosen from the list.                                       *)
LEMMA OpenFlowKeeps ==
    ASSUME FlowInv, NEW f \in Flows, NEW old \in BOOLEAN, OpenFlow(f, old)
    PROVE  FlowInv'
<1>1. /\ Watches(f, old) /\ UNCHANGED <<table, sends>>
      /\ saves' = {[m EXCEPT !.here = FALSE] : m \in saves}
  BY DEF OpenFlow, MountedAnew
<1>2. loaded' \in BOOLEAN /\ ~loaded' /\ mixed' \in BOOLEAN /\ (Overlaps(f) => mixed')
  BY DEF OpenFlow, Overlaps
<1>3. SavesFrom
  BY <1>1, LeftFrom DEF FlowInv
<1>4. /\ flow[f].data \subseteq Parts
      /\ IF flow[f].has THEN graph' = flow[f].data /\ removed' = {}
         ELSE graph' = {} /\ removed' = {}
  BY FlowFacts DEF FlowInv, OpenFlow, MountedAnew, CanvasFilled
<1>5. /\ graph' \subseteq Parts /\ removed' \subseteq Parts
      /\ flow[f].has => flow[f].data \subseteq OnCanvas'
  BY <1>4 DEF OnCanvas
<1>6. QED
  BY <1>1, <1>2, <1>3, <1>5, OpenKeeps

(* The list, or a new workflow: the canvas is empty and no request is of     *)
(* the page.                                                                 *)
LEMMA LeaveKeeps ==
    ASSUME FlowInv, OpenNewFlow \/ Back
    PROVE  FlowInv'
<1>1. /\ graph' = {} /\ removed' = {} /\ saves' = {[m EXCEPT !.here = FALSE] : m \in saves}
      /\ route' \in {New, FlowsPage} /\ UNCHANGED <<flow, table, sends>>
  BY DEF OpenNewFlow, Back, MountedAnew
<1>2. loaded' \in BOOLEAN /\ mixed' \in BOOLEAN /\ ~loaded'
  BY DEF OpenNewFlow, Back
<1>3. SavesFrom /\ RowsFrom
  BY <1>1, LeftFrom DEF FlowInv, RowsFrom
<1>4. \A x \in saves' : ~x.here
  <2>1. \A m \in saves : m \in Saves
    BY FlowFacts DEF FlowInv
  <2>2. SUFFICES ASSUME NEW m \in saves, NEW x, x = [m EXCEPT !.here = FALSE]
                 PROVE  ~x.here
    BY <1>1
  <2>3. QED
    BY <2>1, <2>2, SaveFields
<1>5. FlowTypeOK'
  BY <1>1, <1>2, <1>3 DEF FlowInv, FlowTypeOK, SavesFrom
<1>6. route' \notin Flows /\ DOMAIN table' \subseteq Flows
  BY <1>1, FlowFacts DEF FlowInv
<1>7. CanvasHasStored' /\ OwnSaves' /\ ReadIsStored' /\ CanvasHasCached'
  BY <1>2, <1>6 DEF CanvasHasStored, OwnSaves, ReadIsStored, CanvasHasCached
<1>8. NewKept'
  BY <1>4 DEF NewKept
<1>9. QED
  BY <1>3, <1>5, <1>7, <1>8, SavesStill DEF FlowInv

(* The user draws: what was on the canvas is on it, or taken off.            *)
LEMMA DrawKeeps ==
    ASSUME FlowInv, NEW p \in Parts, Place(p) \/ TakeOff(p)
    PROVE  FlowInv'
<1>1. PICK parts \in SUBSET Parts : Draw(parts)
  BY FlowFacts DEF FlowInv, Place, TakeOff
<1>2. /\ graph' = parts /\ removed' = (removed \union graph) \ parts
      /\ UNCHANGED <<route, flow, saves, table, sends, loaded, mixed>>
  BY <1>1 DEF Draw
<1>3. OnCanvas \subseteq OnCanvas' /\ graph' \subseteq Parts /\ removed' \subseteq Parts
  BY <1>2, FlowFacts DEF OnCanvas, FlowInv
<1>4. sends' \in 0 .. MaxSaves /\ saves' \subseteq saves /\ RowsFrom
  BY <1>2, FlowFacts DEF FlowInv, RowsFrom
<1>5. QED
  BY <1>2, <1>3, <1>4, CanvasStill

(* Save: until fetch and save overlap the canvas has what is stored, and no  *)
(* other save is on its way.                                                 *)
LEMMA SaveFlowKeeps == ASSUME FlowInv, SaveFlow PROVE FlowInv'
<1> DEFINE new == [of |-> route, row |-> route, graph |-> graph, removed |-> removed,
                   sure |-> loaded /\ ~mixed, here |-> TRUE, phase |-> "sent"]
           Seen(m) == IF m.of = route THEN [m EXCEPT !.sure = FALSE] ELSE m
<1>1. /\ route # FlowsPage /\ sends < MaxSaves /\ sends' = sends + 1
      /\ saves' = {Seen(m) : m \in saves} \union {new}
      /\ UNCHANGED <<route, graph, flow, table, removed>> /\ loaded' = loaded
  BY DEF SaveFlow
<1>2. \A m \in saves : ~m.here
  BY DEF SaveFlow
<1>3. mixed' \in BOOLEAN /\ loaded' \in BOOLEAN
      /\ (mixed \/ (route # New /\ flow[route].fetch # "idle") => mixed')
  BY <1>1, FlowFacts DEF SaveFlow, FlowInv
<1>4. \A m \in saves : m \in Saves
  BY FlowFacts DEF FlowInv
<1>5. \A m \in saves :
          /\ Seen(m) \in Saves /\ Seen(m).of = m.of /\ Seen(m).row = m.row
          /\ Seen(m).graph = m.graph /\ Seen(m).removed = m.removed /\ Seen(m).phase = m.phase
          /\ (Seen(m).sure => m.sure /\ m.of # route) /\ ~Seen(m).here
  BY <1>2, <1>4, SaveFields
<1>6. /\ new.of = route /\ new.row = route /\ new.graph = graph /\ new.removed = removed
      /\ new.phase = "sent" /\ new.here /\ (new.sure <=> loaded /\ ~mixed)
  OBVIOUS
<1>7. new \in Saves
  <2>1. (loaded /\ ~mixed) \in BOOLEAN /\ TRUE \in BOOLEAN
    OBVIOUS
  <2>2. route \in Flows \union {New} /\ graph \subseteq Parts /\ removed \subseteq Parts
    BY <1>1, FlowFacts DEF FlowInv
  <2>3. QED
    BY <2>1, <2>2 DEF Saves
<1> HIDE DEF new, Seen
<1>8. FlowTypeOK'
  <2>1. saves' \subseteq Saves
    BY <1>1, <1>5, <1>7
  <2>2. sends' \in 0 .. MaxSaves
    BY <1>1, FlowFacts DEF FlowInv
  <2>3. QED
    BY <1>1, <1>3, <2>1, <2>2 DEF FlowInv, FlowTypeOK
<1>9. OnCanvas' = OnCanvas /\ graph \subseteq OnCanvas
  BY <1>1 DEF OnCanvas
<1>10. RowOfSent'
  BY <1>1, <1>5, <1>6 DEF FlowInv, RowOfSent
<1>11. CanvasHasStored' /\ ReadIsStored' /\ CanvasHasCached'
  BY <1>1, <1>3, <1>9 DEF FlowInv, CanvasHasStored, ReadIsStored, CanvasHasCached
<1>12. OwnSaves'
  <2>1. ~mixed' /\ route \in Flows => ~mixed /\ flow[route].fetch = "idle"
    BY <1>3, FlowFacts DEF FlowInv
  <2>2. ~mixed /\ route \in Flows => \A m \in saves : ~(m.of = route /\ m.phase = "sent")
    BY <1>2 DEF FlowInv, OwnSaves
  <2>3. QED
    BY <1>1, <1>5, <1>6, <1>9, <2>1, <2>2 DEF OwnSaves
<1>13. new.sure /\ route \in Flows => \A m \in saves : ~(m.of = route /\ m.phase = "sent")
  BY <1>2, <1>6 DEF FlowInv, OwnSaves
<1>14. SureAlone'
  BY <1>1, <1>5, <1>6, <1>13 DEF FlowInv, SureAlone
<1>15. NewKept'
  <2>1. \A m \in saves' : m.here => m = new
    BY <1>1, <1>5
  <2>2. QED
    BY <1>1, <1>6, <1>9, <2>1 DEF NewKept
<1>16. SavesKeep'
  <2>1. new.sure /\ route \in DOMAIN table => table[route] \subseteq graph \union removed
    BY <1>6 DEF FlowInv, CanvasHasStored, OnCanvas
  <2>2. \A m \in saves : Seen(m).phase = "sent" /\ Seen(m).sure /\ Seen(m).of \in DOMAIN table
            => table[Seen(m).of] \subseteq Seen(m).graph \union Seen(m).removed
    BY <1>5 DEF FlowInv, SavesKeep
  <2>3. QED
    BY <1>1, <1>6, <2>1, <2>2 DEF SavesKeep
<1>17. QED
  BY <1>8, <1>10, <1>11, <1>12, <1>14, <1>15, <1>16 DEF FlowInv

(* A save is handled: its row has its content, and the others their own.     *)
LEMMA StoredFacts ==
    ASSUME FlowInv, NEW f \in Flows, NEW g \in SUBSET Parts
    PROVE  /\ DOMAIN Stored(f, g) = DOMAIN table \union {f} /\ Stored(f, g)[f] = g
           /\ \A x \in DOMAIN table : x # f => Stored(f, g)[x] = table[x]
           /\ DOMAIN Stored(f, g) \subseteq Flows
           /\ \A x \in DOMAIN Stored(f, g) : Stored(f, g)[x] \subseteq Parts
BY DEF Stored, FlowInv, FlowTypeOK

(* What the handled request leaves of the requests.                          *)
LEMMA HandledSaves ==
    ASSUME FlowInv, NEW m \in saves, NEW f \in Flows,
           saves' = (saves \ {m}) \union {Done(m, f)}
    PROVE  /\ saves' \subseteq Saves /\ RowOfSent' /\ SureAlone'
           /\ \A x \in saves' : x.phase = "sent" => x \in saves \ {m}
<1>1. m \in Saves
  BY FlowFacts DEF FlowInv
<1>2. /\ Done(m, f) \in Saves /\ Done(m, f).phase = "done" /\ Done(m, f).row = f
  BY <1>1, DoneFields
<1>3. \A x \in saves' : x.phase = "sent" => x \in saves \ {m}
  BY <1>2
<1>4. saves' \subseteq Saves
  BY <1>2, FlowFacts DEF FlowInv
<1>5. RowOfSent' /\ SureAlone'
  BY <1>2, <1>3 DEF FlowInv, RowOfSent, SureAlone
<1>6. QED
  BY <1>3, <1>4, <1>5

(* A new workflow gets a row that nothing has known.                         *)
LEMMA PostKeeps ==
    ASSUME FlowInv, NEW m \in saves, NEW f \in Flows, Post(m, f)
    PROVE  FlowInv'
<1>1. /\ m.of = New /\ m.phase = "sent" /\ table' = Stored(f, m.graph)
      /\ saves' = (saves \ {m}) \union {Done(m, f)}
      /\ UNCHANGED <<route, flow, sends>> /\ UNCHANGED canvas
  BY DEF Post
<1>2. f \notin DOMAIN table /\ f # route /\ flow[f] = NoEntry({}) /\ \A x \in saves : x.row # f
  BY DEF Post, NewFlowId
<1>3. /\ graph' = graph /\ removed' = removed /\ loaded' = loaded /\ mixed' = mixed
      /\ OnCanvas' = OnCanvas
  BY <1>1 DEF canvas, OnCanvas
<1>4. m \in Saves /\ m.graph \in SUBSET Parts
  BY FlowFacts DEF FlowInv
<1>5. /\ DOMAIN table' = DOMAIN table \union {f} /\ table'[f] = m.graph
      /\ \A x \in DOMAIN table : table'[x] = table[x]
      /\ DOMAIN table' \subseteq Flows /\ \A x \in DOMAIN table' : table'[x] \subseteq Parts
  BY <1>1, <1>2, <1>4, StoredFacts
<1>6. /\ saves' \subseteq Saves /\ RowOfSent' /\ SureAlone'
      /\ \A x \in saves' : x.phase = "sent" => x \in saves
  BY <1>1, HandledSaves
<1>7. /\ Done(m, f).of = New /\ Done(m, f).row = f /\ Done(m, f).phase = "done"
      /\ (Done(m, f).here <=> m.here)
  BY <1>1, <1>4, DoneFields
<1>8. FlowTypeOK'
  BY <1>1, <1>3, <1>5, <1>6 DEF FlowInv, FlowTypeOK
<1>9. CanvasHasStored' /\ ReadIsStored' /\ CanvasHasCached'
  BY <1>1, <1>2, <1>3, <1>5 DEF FlowInv, CanvasHasStored, ReadIsStored, CanvasHasCached
<1>10. OwnSaves'
  BY <1>1, <1>3, <1>6 DEF FlowInv, OwnSaves
<1>11. SavesKeep'
  <2>1. \A x \in saves : x.phase = "sent" => x.of # f
    BY <1>2 DEF FlowInv, RowOfSent
  <2>2. QED
    BY <1>5, <1>6, <2>1 DEF FlowInv, SavesKeep
<1>12. NewKept'
  <2> SUFFICES ASSUME route = New, NEW x \in saves', x.here
               PROVE  /\ x.of = New /\ (x.phase = "sent" => x.graph \subseteq OnCanvas)
                      /\ x.phase = "done" =>
                            /\ x.row \in Flows /\ flow[x.row] = NoEntry({})
                            /\ x.row \in DOMAIN table' /\ ~mixed => table'[x.row] \subseteq OnCanvas
                            /\ \A y \in saves' : ~(y.of = x.row /\ y.phase = "sent")
    BY <1>1, <1>3 DEF NewKept
  <2>1. CASE x = Done(m, f)
    <3>1. m.graph \subseteq OnCanvas
      BY <1>1, <1>7, <2>1 DEF FlowInv, NewKept
    <3>2. \A y \in saves' : ~(y.of = f /\ y.phase = "sent")
      BY <1>2, <1>6 DEF FlowInv, RowOfSent
    <3>3. QED
      BY <1>2, <1>5, <1>7, <2>1, <3>1, <3>2
  <2>2. CASE x \in saves
    <3>1. /\ x.of = New /\ (x.phase = "sent" => x.graph \subseteq OnCanvas)
          /\ x.phase = "done" =>
                /\ x.row \in Flows /\ flow[x.row] = NoEntry({})
                /\ x.row \in DOMAIN table /\ ~mixed => table[x.row] \subseteq OnCanvas
                /\ \A y \in saves : ~(y.of = x.row /\ y.phase = "sent")
      BY <2>2 DEF FlowInv, NewKept
    <3>2. x.row # f
      BY <1>2, <2>2
    <3>3. QED
      BY <1>5, <1>6, <3>1, <3>2
  <2>3. QED
    BY <1>1, <2>1, <2>2
<1>13. QED
  BY <1>6, <1>8, <1>9, <1>10, <1>11, <1>12 DEF FlowInv

(* A workflow that is there gets the content of the save.                    *)
LEMMA PatchKeeps ==
    ASSUME FlowInv, NEW m \in saves, Patch(m)
    PROVE  FlowInv'
<1>1. /\ m.of \in Flows /\ m.phase = "sent" /\ UNCHANGED <<route, flow, sends>> /\ UNCHANGED canvas
  BY DEF Patch
<1>2. /\ graph' = graph /\ removed' = removed /\ loaded' = loaded /\ mixed' = mixed
      /\ OnCanvas' = OnCanvas
  BY <1>1 DEF canvas, OnCanvas
<1>3. CASE m.of \notin DOMAIN table
  <2>1. saves' = saves \ {m} /\ table' = table
    BY <1>3 DEF Patch
  <2>2. RowsFrom /\ graph' \subseteq Parts /\ removed' \subseteq Parts /\ sends' \in 0 .. MaxSaves
    BY <1>1, <1>2, <2>1, FlowFacts DEF RowsFrom, FlowInv
  <2>3. QED
    BY <1>1, <1>2, <2>1, <2>2, CanvasStill
<1>4. CASE m.of \in DOMAIN table
  <2>1. table' = Stored(m.of, m.graph) /\ saves' = (saves \ {m}) \union {Done(m, m.of)}
    BY <1>4 DEF Patch
  <2>2. m \in Saves /\ m.graph \in SUBSET Parts
    BY FlowFacts DEF FlowInv
  <2>3. /\ DOMAIN table' = DOMAIN table /\ table'[m.of] = m.graph
        /\ \A x \in DOMAIN table : x # m.of => table'[x] = table[x]
        /\ DOMAIN table' \subseteq Flows /\ \A x \in DOMAIN table' : table'[x] \subseteq Parts
    <3> DEFINE s == Stored(m.of, m.graph)
    <3>1. /\ DOMAIN s = DOMAIN table \union {m.of} /\ s[m.of] = m.graph
          /\ \A x \in DOMAIN table : x # m.of => s[x] = table[x]
          /\ DOMAIN s \subseteq Flows /\ \A x \in DOMAIN s : s[x] \subseteq Parts
      BY <1>1, <2>2, StoredFacts
    <3> HIDE DEF s
    <3>2. table' = s
      BY <2>1 DEF s
    <3>3. DOMAIN s = DOMAIN table
      BY <1>4, <3>1
    <3>4. QED
      BY <3>1, <3>2, <3>3
  <2>4. /\ saves' \subseteq Saves /\ RowOfSent' /\ SureAlone'
        /\ \A x \in saves' : x.phase = "sent" => x \in saves
    BY <1>1, <2>1, HandledSaves
  <2>5. /\ Done(m, m.of).of = m.of /\ Done(m, m.of).phase = "done"
        /\ (Done(m, m.of).here <=> m.here)
    BY <1>1, <2>2, DoneFields
  <2>6. FlowTypeOK'
    BY <1>1, <1>2, <2>3, <2>4 DEF FlowInv, FlowTypeOK
  <2>7. ~mixed /\ route = m.of => m.graph \subseteq OnCanvas /\ flow[route].fetch = "idle"
    BY <1>1 DEF FlowInv, OwnSaves
  <2>8. CanvasHasStored' /\ ReadIsStored' /\ CanvasHasCached'
    <3>1. CanvasHasStored'
      BY <1>1, <1>2, <2>3, <2>7 DEF FlowInv, CanvasHasStored
    <3>2. ReadIsStored'
      BY <1>1, <1>2, <2>3, <2>7 DEF FlowInv, ReadIsStored
    <3>3. CanvasHasCached'
      BY <1>1, <1>2 DEF FlowInv, CanvasHasCached
    <3>4. QED
      BY <3>1, <3>2, <3>3
  <2>9. OwnSaves'
    BY <1>1, <1>2, <2>4 DEF FlowInv, OwnSaves
  <2>10. SavesKeep'
    <3>1. \A x \in saves : x.phase = "sent" /\ x.sure /\ x.of = m.of => m.graph = x.graph
      BY <1>1 DEF FlowInv, SureAlone
    <3>2. QED
      BY <2>3, <2>4, <3>1 DEF FlowInv, SavesKeep
  <2>11. NewKept'
    <3> SUFFICES ASSUME route = New, NEW x \in saves', x.here
                 PROVE  /\ x.of = New /\ (x.phase = "sent" => x.graph \subseteq OnCanvas)
                        /\ x.phase = "done" =>
                              /\ x.row \in Flows /\ flow[x.row] = NoEntry({})
                              /\ x.row \in DOMAIN table' /\ ~mixed => table'[x.row] \subseteq OnCanvas
                              /\ \A y \in saves' : ~(y.of = x.row /\ y.phase = "sent")
      BY <1>1, <1>2 DEF NewKept
    <3>1. New \notin Flows
      BY WorkflowAssumption
    <3>2. ~m.here
      BY <1>1, <3>1 DEF FlowInv, NewKept
    <3>3. x \in saves
      BY <2>1, <2>5, <3>2
    <3>4. /\ x.of = New /\ (x.phase = "sent" => x.graph \subseteq OnCanvas)
          /\ x.phase = "done" =>
                /\ x.row \in Flows /\ flow[x.row] = NoEntry({})
                /\ x.row \in DOMAIN table /\ ~mixed => table[x.row] \subseteq OnCanvas
                /\ \A y \in saves : ~(y.of = x.row /\ y.phase = "sent")
      BY <3>3 DEF FlowInv, NewKept
    <3>5. x.phase = "done" => m.of # x.row
      BY <1>1, <3>4
    <3>6. QED
      BY <2>3, <2>4, <3>4, <3>5
  <2>12. QED
    BY <2>4, <2>6, <2>8, <2>9, <2>10, <2>11 DEF FlowInv
<1>5. QED
  BY <1>3, <1>4

(* A save in another tab: no request to the row is sure any more, and the    *)
(* page that shows it, or is about to, knows that it is mixed.               *)
LEMMA SavedElsewhereKeeps ==
    ASSUME FlowInv, NEW f \in Flows, NEW g \in SUBSET Parts, SavedElsewhere(f, g)
    PROVE  FlowInv'
<1> DEFINE Seen(m) == IF m.of = f THEN [m EXCEPT !.sure = FALSE] ELSE m
           s == Stored(f, g)
<1>1. /\ f \in DOMAIN table /\ table' = s /\ sends < MaxSaves /\ sends' = sends + 1
      /\ saves' = {Seen(m) : m \in saves}
      /\ UNCHANGED <<route, flow, graph, removed, loaded>>
  BY DEF SavedElsewhere
<1>2. /\ mixed' \in BOOLEAN /\ (mixed => mixed') /\ (f = route => mixed')
      /\ \A m \in saves : m.here /\ m.row = f => mixed'
  <2>1. mixed' = (mixed \/ f = route \/ \E m \in saves : m.here /\ m.row = f)
    BY DEF SavedElsewhere
  <2>2. QED
    BY <2>1
<1>3. \A m \in saves :
          /\ Seen(m) \in Saves /\ Seen(m).of = m.of /\ Seen(m).row = m.row
          /\ Seen(m).graph = m.graph /\ Seen(m).removed = m.removed /\ Seen(m).phase = m.phase
          /\ (Seen(m).sure => m.sure /\ m.of # f) /\ (Seen(m).here <=> m.here)
  <2>1. \A m \in saves : m \in Saves
    BY FlowFacts DEF FlowInv
  <2>2. QED
    BY <2>1, SaveFields
<1>4. /\ DOMAIN s = DOMAIN table \union {f} /\ \A x \in DOMAIN table : x # f => s[x] = table[x]
      /\ DOMAIN s \subseteq Flows /\ \A x \in DOMAIN s : s[x] \subseteq Parts
  BY StoredFacts
<1> HIDE DEF Seen, s
<1>5. /\ DOMAIN table' = DOMAIN table /\ \A x \in DOMAIN table : x # f => table'[x] = table[x]
      /\ DOMAIN table' \subseteq Flows /\ \A x \in DOMAIN table' : table'[x] \subseteq Parts
  BY <1>1, <1>4
<1>6. /\ saves' \subseteq Saves
      /\ \A x \in saves' : \E m \in saves :
            /\ x.of = m.of /\ x.row = m.row /\ x.graph = m.graph /\ x.removed = m.removed
            /\ x.phase = m.phase /\ (x.sure => m.sure /\ m.of # f) /\ (x.here <=> m.here)
  BY <1>1, <1>3
<1>7. OnCanvas' = OnCanvas
  BY <1>1 DEF OnCanvas
<1>8. FlowTypeOK'
  <2>1. sends' \in 0 .. MaxSaves
    BY <1>1, FlowFacts DEF FlowInv
  <2>2. QED
    BY <1>1, <1>2, <1>5, <1>6, <2>1 DEF FlowInv, FlowTypeOK
<1>9. RowOfSent'
  BY <1>6 DEF FlowInv, RowOfSent
<1>10. SureAlone'
  BY <1>6 DEF FlowInv, SureAlone
<1>11. SavesKeep'
  BY <1>5, <1>6 DEF FlowInv, SavesKeep
<1>12. CanvasHasStored' /\ ReadIsStored'
  BY <1>1, <1>2, <1>5, <1>7 DEF FlowInv, CanvasHasStored, ReadIsStored
<1>13. CanvasHasCached'
  BY <1>1, <1>7 DEF FlowInv, CanvasHasCached
<1>14. OwnSaves'
  BY <1>1, <1>2, <1>6, <1>7 DEF FlowInv, OwnSaves
<1>15. NewKept'
  <2> SUFFICES ASSUME route = New, NEW x \in saves', x.here
               PROVE  /\ x.of = New /\ (x.phase = "sent" => x.graph \subseteq OnCanvas)
                      /\ x.phase = "done" =>
                            /\ x.row \in Flows /\ flow[x.row] = NoEntry({})
                            /\ x.row \in DOMAIN table' /\ ~mixed' => table'[x.row] \subseteq OnCanvas
                            /\ \A y \in saves' : ~(y.of = x.row /\ y.phase = "sent")
    BY <1>1, <1>7 DEF NewKept
  <2>1. PICK m \in saves : /\ x.of = m.of /\ x.row = m.row /\ x.graph = m.graph
                           /\ x.phase = m.phase /\ m.here
    BY <1>6
  <2>2. /\ m.of = New /\ (m.phase = "sent" => m.graph \subseteq OnCanvas)
        /\ m.phase = "done" =>
              /\ m.row \in Flows /\ flow[m.row] = NoEntry({})
              /\ m.row \in DOMAIN table /\ ~mixed => table[m.row] \subseteq OnCanvas
              /\ \A y \in saves : ~(y.of = m.row /\ y.phase = "sent")
    BY <2>1 DEF FlowInv, NewKept
  <2>3. \A y \in saves' : \E z \in saves : y.of = z.of /\ y.phase = z.phase
    BY <1>6
  <2>4. ~mixed' => ~mixed /\ m.row # f
    BY <1>2, <2>1
  <2>5. QED
    BY <1>5, <2>1, <2>2, <2>3, <2>4
<1>16. QED
  BY <1>8, <1>9, <1>10, <1>11, <1>12, <1>13, <1>14, <1>15 DEF FlowInv

(* An answer: the browser may go to the new workflow with the canvas it has. *)
LEMMA FlowAnsweredKeeps ==
    ASSUME FlowInv, NEW m \in saves, NEW old \in BOOLEAN, FlowAnswered(m, old)
    PROVE  FlowInv'
<1>1. m.phase = "done" /\ saves' = saves \ {m} /\ UNCHANGED <<table, sends>>
  BY DEF FlowAnswered
<1>2. RowsFrom /\ sends' \in 0 .. MaxSaves /\ SavesFrom
  BY <1>1, LeftFrom, FlowFacts DEF FlowInv, RowsFrom
<1>3. CASE ~GoesToEdit(m)
  <2>1. UNCHANGED <<route, flow>> /\ UNCHANGED canvas
    BY <1>3 DEF FlowAnswered
  <2>2. /\ UNCHANGED <<route, flow, loaded, mixed>> /\ OnCanvas' = OnCanvas
        /\ graph' \subseteq Parts /\ removed' \subseteq Parts
    BY <2>1, FlowFacts DEF canvas, OnCanvas, FlowInv
  <2>3. QED
    BY <1>1, <1>2, <2>2, CanvasStill
<1>4. CASE GoesToEdit(m)
  <2>1. /\ m.of = New /\ (m.here => route = New)
        /\ Watches(m.row, old) /\ loaded' = m.here
        /\ mixed' = (Overlaps(m.row) \/ (m.here /\ mixed))
        /\ IF flow[m.row].has THEN CanvasFilled(flow[m.row].data)
           ELSE UNCHANGED <<graph, removed>>
    BY <1>4 DEF FlowAnswered, GoesToEdit
  <2>2. m.row \in Flows
    BY <1>1 DEF FlowInv, RowOfSent
  <2>3. loaded' \in BOOLEAN /\ (loaded' <=> m.here)
    BY <2>1, FlowFacts DEF FlowInv, Saves
  <2>4. flow[m.row].data \subseteq Parts /\ graph \subseteq Parts /\ removed \subseteq Parts
    BY <2>2, FlowFacts DEF FlowInv
  <2>5. /\ graph' \subseteq Parts /\ removed' \subseteq Parts
        /\ flow[m.row].has => flow[m.row].data \subseteq OnCanvas'
        /\ ~flow[m.row].has => OnCanvas' = OnCanvas
    BY <2>1, <2>4 DEF CanvasFilled, OnCanvas
  <2>a. mixed' \in BOOLEAN /\ (Overlaps(m.row) => mixed') /\ (m.here /\ mixed => mixed')
    BY <2>1 DEF Overlaps
  <2>6. m.here => /\ flow[m.row] = NoEntry({})
                  /\ m.row \in DOMAIN table /\ ~mixed => table[m.row] \subseteq OnCanvas
    BY <1>1, <2>1 DEF FlowInv, NewKept
  <2>7. ~NoEntry({}).has
    BY DEF NoEntry
  <2>8. loaded' /\ ~mixed' /\ m.row \in DOMAIN table => table[m.row] \subseteq OnCanvas'
    BY <2>3, <2>5, <2>6, <2>7, <2>a
  <2>9. QED
    BY <1>1, <1>2, <2>1, <2>2, <2>3, <2>5, <2>8, <2>a, OpenKeeps
<1>5. QED
  BY <1>3, <1>4

(* A fetch is read, answered or given up: it fills the canvas with what is   *)
(* stored, or with what is there already.                                    *)
LEMMA FlowFetchKeeps ==
    ASSUME FlowInv, NEW f \in Flows, NEW newer \in BOOLEAN,
           FlowIsRead(f) \/ FlowArrives(f, newer) \/ FlowFails(f)
    PROVE  FlowInv'
<1>1. flow[f] \in Entries(SUBSET Parts) /\ flow[f].data \subseteq Parts /\ flow[f].read \subseteq Parts
  BY FlowFacts DEF FlowInv
<1>2. route' = route /\ saves' = saves /\ table' = table /\ sends' = sends /\ mixed' = mixed
  BY DEF FlowIsRead, FlowArrives, FlowFails, FlowStep, canvas
<1>3. flow[f] # NoEntry({})
  BY DEF NoEntry, FlowIsRead, FlowArrives, FlowFails
<1>4. PICK e : /\ flow' = [flow EXCEPT ![f] = e] /\ e \in Entries(SUBSET Parts)
               /\ e.has /\ ~flow[f].has => e.data = flow[f].read /\ flow[f].fetch = "read"
               /\ \/ /\ e.has = flow[f].has /\ e.data = flow[f].data
                     /\ e.fetch = "idle" \/ (e.fetch = "read" /\ f \in DOMAIN table
                                                /\ e.read = table[f])
                     /\ graph' = graph /\ removed' = removed /\ loaded' = loaded
                  \/ /\ e.has /\ e.data = flow[f].read /\ e.fetch = "idle"
                     /\ flow[f].fetch = "read"
                     /\ IF RunsEffect(f, newer) THEN graph' = flow[f].read /\ removed' = {}
                        ELSE graph' = graph /\ removed' = removed
  <2>1. CASE FlowIsRead(f)
    <3>1. /\ flow' = [flow EXCEPT ![f] = BackendReads(flow[f], table[f])]
          /\ f \in DOMAIN table /\ graph' = graph /\ removed' = removed /\ loaded' = loaded
      BY <2>1 DEF FlowIsRead, FlowStep, canvas
    <3>2. table[f] \in SUBSET Parts
      BY <3>1 DEF FlowInv, FlowTypeOK
    <3>3. /\ BackendReads(flow[f], table[f]) \in Entries(SUBSET Parts)
          /\ BackendReads(flow[f], table[f]).has = flow[f].has
          /\ BackendReads(flow[f], table[f]).data = flow[f].data
          /\ BackendReads(flow[f], table[f]).fetch = "read"
          /\ BackendReads(flow[f], table[f]).read = table[f]
      BY <1>1, <3>2, ReadFacts
    <3>4. QED
      BY <3>1, <3>3
  <2>2. CASE FlowFails(f)
    <3>1. /\ flow' = [flow EXCEPT ![f] = GivenUp(flow[f])]
          /\ graph' = graph /\ removed' = removed /\ loaded' = loaded
      BY <2>2 DEF FlowFails, FlowStep, canvas
    <3>2. /\ GivenUp(flow[f]) \in Entries(SUBSET Parts)
          /\ GivenUp(flow[f]).has = flow[f].has /\ GivenUp(flow[f]).data = flow[f].data
          /\ GivenUp(flow[f]).fetch = "idle"
      BY <1>1, GivenUpFacts
    <3>3. QED
      BY <3>1, <3>2
  <2>3. CASE FlowArrives(f, newer)
    <3>1. /\ flow' = [flow EXCEPT ![f] = Received(flow[f])] /\ flow[f].fetch = "read"
          /\ IF RunsEffect(f, newer) THEN graph' = flow[f].read /\ removed' = {}
             ELSE graph' = graph /\ removed' = removed
      BY <2>3 DEF FlowArrives, FlowStep, CanvasFilled
    <3>2. /\ Received(flow[f]) \in Entries(SUBSET Parts)
          /\ Received(flow[f]).has = TRUE /\ Received(flow[f]).data = flow[f].read
          /\ Received(flow[f]).fetch = "idle"
      BY <1>1, ReceivedFacts
    <3>3. Received(flow[f]).has
      BY <3>2
    <3>4. QED
      BY <3>1, <3>2, <3>3
  <2>4. QED
    BY <2>1, <2>2, <2>3
<1>5. loaded' \in BOOLEAN /\ (loaded' => loaded \/ (f = route /\ flow[f].fetch = "read"))
  <2>1. loaded \in BOOLEAN
    BY FlowFacts DEF FlowInv
  <2>2. CASE FlowArrives(f, newer)
    <3>1. loaded' = (loaded \/ f = route) /\ flow[f].fetch = "read"
      BY <2>2 DEF FlowArrives
    <3>2. QED
      BY <2>1, <3>1, Zenon
  <2>3. CASE ~FlowArrives(f, newer)
    BY <2>1, <2>3 DEF FlowIsRead, FlowFails, canvas
  <2>4. QED
    BY <2>2, <2>3
<1>6. flow'[f] = e /\ \A x \in Flows : x # f => flow'[x] = flow[x]
  BY <1>4 DEF FlowInv, FlowTypeOK
<1>7. graph' \subseteq Parts /\ removed' \subseteq Parts
  BY <1>1, <1>4, FlowFacts DEF FlowInv
<1>8. FlowTypeOK'
  BY <1>2, <1>4, <1>5, <1>7 DEF FlowInv, FlowTypeOK
<1>9. route # f => OnCanvas' = OnCanvas
  BY <1>4 DEF OnCanvas, RunsEffect
<1>10. e.data = flow[f].read /\ e.fetch = "idle" /\ flow[f].fetch = "read" /\ route = f
          /\ graph' = (IF RunsEffect(f, newer) THEN flow[f].read ELSE graph)
          /\ removed' = (IF RunsEffect(f, newer) THEN {} ELSE removed)
          => flow[f].read \subseteq OnCanvas'
  <2>1. ~RunsEffect(f, newer) /\ route = f => flow[f].read \subseteq OnCanvas
    BY DEF RunsEffect, FlowInv, CanvasHasCached
  <2>2. QED
    BY <2>1 DEF OnCanvas
<1>11. route = f => \/ /\ e.has = flow[f].has /\ e.data = flow[f].data
                       /\ e.fetch = "read" => f \in DOMAIN table /\ e.read = table[f]
                       /\ OnCanvas' = OnCanvas /\ (loaded' => loaded)
                    \/ /\ e.data = flow[f].read /\ e.fetch = "idle" /\ flow[f].fetch = "read"
                       /\ flow[f].read \subseteq OnCanvas'
  BY <1>4, <1>10 DEF OnCanvas
<1>12. flow[f].fetch # "idle"
  BY DEF FlowIsRead, FlowArrives, FlowFails
<1>13. CanvasHasStored'
  <2>1. CASE route = f
    BY <1>2, <1>11, <2>1 DEF FlowInv, CanvasHasStored, ReadIsStored
  <2>2. CASE route # f
    BY <1>2, <1>5, <1>9, <2>2 DEF FlowInv, CanvasHasStored
  <2>3. QED
    BY <2>1, <2>2
<1>14. OwnSaves'
  BY <1>2, <1>6, <1>9, <1>12 DEF FlowInv, OwnSaves
<1>15. ReadIsStored'
  BY <1>2, <1>6, <1>11 DEF FlowInv, ReadIsStored
<1>16. CanvasHasCached'
  BY <1>2, <1>6, <1>9, <1>11 DEF FlowInv, CanvasHasCached
<1>17. NewKept'
  <2>1. route = New => OnCanvas' = OnCanvas
    BY <1>9, WorkflowAssumption
  <2>2. \A x \in Flows : flow[x] = NoEntry({}) => flow'[x] = NoEntry({})
    BY <1>3, <1>6
  <2>3. QED
    BY <1>2, <2>1, <2>2 DEF FlowInv, NewKept
<1>18. SavesFrom /\ RowsFrom
  BY <1>2, LeftFrom DEF FlowInv, RowsFrom
<1>19. QED
  BY <1>8, <1>13, <1>14, <1>15, <1>16, <1>17, <1>18, SavesStill DEF FlowInv

(* Every step of the editor.                                                 *)
LEMMA FlowInvNext == FlowInv /\ [FlowNext]_flowVars => FlowInv'
<1> SUFFICES ASSUME FlowInv, [FlowNext]_flowVars PROVE FlowInv'
  OBVIOUS
<1>1. ASSUME saves' \subseteq saves, RowsFrom, UNCHANGED <<route, flow, sends>>, UNCHANGED canvas
      PROVE  FlowInv'
  <2>1. /\ UNCHANGED <<route, flow, loaded, mixed>> /\ OnCanvas' = OnCanvas
        /\ graph' \subseteq Parts /\ removed' \subseteq Parts /\ sends' \in 0 .. MaxSaves
    BY <1>1, FlowFacts DEF canvas, OnCanvas, FlowInv
  <2>2. QED
    BY <1>1, <2>1, CanvasStill
<1>2. ASSUME NEW m \in saves, SaveFails(m) PROVE FlowInv'
  BY <1>1, <1>2 DEF SaveFails, RowsFrom
<1>3. ASSUME NEW f \in Flows, DeleteFlow(f) PROVE FlowInv'
  BY <1>1, <1>3 DEF DeleteFlow, RowsFrom
<1>4. CASE UNCHANGED flowVars
  BY <1>1, <1>4 DEF flowVars, canvas, RowsFrom
<1>5. ASSUME NEW f \in Flows, NEW old \in Ages(flow[f]), OpenFlow(f, old) PROVE FlowInv'
  <2>1. old \in BOOLEAN
    BY DEF Ages
  <2>2. QED
    BY <1>5, <2>1, OpenFlowKeeps
<1>6. ASSUME NEW f \in Flows, NEW newer \in BOOLEAN, FlowArrives(f, newer) PROVE FlowInv'
  BY <1>6, FlowFetchKeeps
<1>7. ASSUME NEW f \in Flows, FlowIsRead(f) \/ FlowFails(f) PROVE FlowInv'
  <2>1. FALSE \in BOOLEAN
    OBVIOUS
  <2>2. QED
    BY <1>7, <2>1, FlowFetchKeeps
<1>8. QED
  BY <1>2, <1>3, <1>4, <1>5, <1>6, <1>7, LeaveKeeps, DrawKeeps, SaveFlowKeeps, PostKeeps,
     PatchKeeps, SavedElsewhereKeeps, FlowAnsweredKeeps DEF FlowNext

(* Hence in every state of the editor.                                       *)
LEMMA FlowInvariant == FlowSpec => []FlowInv
<1>1. QED
  BY FlowInvInit, FlowInvNext, PTL DEF FlowSpec

-----------------------------------------------------------------------------
(* CaseWorkspace: what the user has written is shown, a closed case has a    *)
(* verdict, and cases numbered one after the other have numbers of their own *)

(* The cases among the writes of a list.                                     *)
Creates(S) == {w \in S : w.kind = "create"}

(* A request is known by its write, and by what it does to the rows.         *)
RequestsKnown ==
    /\ \A m \in muts :
        /\ m.w.n <= started /\ IsFiniteSet(m.seen)
        /\ (m.w.kind = "create") <=> (m.op = "createCase")
        /\ m.op = "createCase" => watched = "cases"
        /\ m.w.kind \in {"reopen", "close", "verdict"} => m.op \in {"updateCase", "updateStatus"}
    /\ \A m \in muts, x \in muts : m.w.n = x.w.n => m = x
    /\ IsFiniteSet(rows)

(* A handler about to write back the timeline knows all of it, but for what  *)
(* was written by handlers it overlaps.                                      *)
KnowsTimeline ==
    watched = "timeline" =>
        \A m \in muts : m.phase = "read" /\ Rewrites(m) =>
            \A w \in Writes : w.n \notin overlapped => (w \in rows <=> w \in m.seen)

(* What is answered has been written, and stays.                             *)
DoneIsThere ==
    \A m \in muts :
        /\ m.phase = "done" /\ watched \in CaseTouches(m.op) /\ Concerns(m.case)
        /\ m.w.n \notin overlapped
        => m.w \in rows

(* A handler that is about to close the case has seen its verdict.           *)
ClosesJudged ==
    watched = "case" =>
        /\ closed => HasVerdict(rows)
        /\ \A m \in muts :
            m.phase = "read" /\ m.w.kind = "close" /\ m.case = Here => HasVerdict(rows)

(* The numbers given to a user without a tenant, but for those of handlers   *)
(* that overlap, are among the cases counted, by the list and by every       *)
(* handler about to give one.                                                *)
AllCounted(S) ==
    role = "untenanted" => \A g \in numbers :
        g[1].n \notin overlapped => g[2] <= Cardinality(Cases) + Cardinality(Creates(S))

NumbersCounted ==
    watched = "cases" =>
        /\ \A w \in rows : w.n <= started
        /\ \A m \in muts : m.seen \subseteq rows /\ (m.phase # "done" => m.w \notin rows)
        /\ AllCounted(rows)
        /\ \A m \in muts : m.phase = "read" /\ m.op = "createCase" => AllCounted(m.seen)

(* What the user is owed is stored for good, and what the cache holds or is  *)
(* about to hold as fresh has it.                                            *)
OwedIsHeld ==
    /\ entry.has /\ ~entry.stale => owed \subseteq entry.data
    /\ entry.fetch = "read" => owed \subseteq entry.read
    /\ \A w \in owed : /\ w \in Listed /\ w.n \notin overlapped /\ w.n <= started
                       /\ \A m \in muts : m.w.n # w.n

CaseInv ==
    /\ CaseTypeOK /\ RequestsKnown /\ KnowsTimeline /\ DoneIsThere /\ ClosesJudged
    /\ NumbersCounted /\ NumbersDistinct /\ OwedIsHeld

(* What the types say of the pages.                                          *)
LEMMA CaseFacts ==
    ASSUME CaseTypeOK
    PROVE  /\ entry \in Entries(SUBSET Writes)
           /\ entry.data \subseteq Writes /\ entry.read \subseteq Writes
           /\ entry.has \in BOOLEAN /\ entry.stale \in BOOLEAN
           /\ watched \in Lists /\ role \in Roles /\ page \in Pages
           /\ rows \subseteq Writes /\ owed \subseteq Writes
           /\ started \in Nat /\ MaxWrites \in Nat
           /\ \A m \in muts :
               /\ m \in CaseMutations
               /\ m.w \in Writes /\ m.op \in CaseOps /\ m.case \in Pages /\ m.closure \in Pages
               /\ m.phase \in {"sent", "read", "done"} /\ m.seen \subseteq Writes
               /\ m.w.n \in 1 .. MaxWrites /\ m.w.kind \in Kinds
<1>1. /\ entry \in Entries(SUBSET Writes) /\ watched \in Watchable /\ role \in Roles
      /\ page \in Pages
      /\ rows \subseteq Writes /\ muts \subseteq CaseMutations /\ owed \subseteq Writes
      /\ started \in 0 .. MaxWrites
  BY DEF CaseTypeOK
<1>2. watched \in Lists /\ MaxWrites \in Nat
  BY <1>1, CaseWorkspaceAssumption
<1>3. /\ entry.data \in SUBSET Writes /\ entry.read \in SUBSET Writes
      /\ entry.has \in BOOLEAN /\ entry.stale \in BOOLEAN
  BY <1>1, EntryFields
<1>4. ASSUME NEW m \in CaseMutations
      PROVE  /\ m.w \in Writes /\ m.op \in CaseOps /\ m.case \in Pages /\ m.closure \in Pages
             /\ m.phase \in {"sent", "read", "done"} /\ m.seen \subseteq Writes
             /\ m.w.n \in 1 .. MaxWrites /\ m.w.kind \in Kinds
  <2>1. m.w \in Writes /\ m.op \in CaseOps /\ m.case \in Pages /\ m.closure \in Pages
    BY DEF CaseMutations
  <2>2. m.phase \in {"sent", "read", "done"} /\ m.seen \in SUBSET Writes
    BY DEF CaseMutations
  <2>3. QED
    BY <2>1, <2>2 DEF Writes
<1>5. QED
  BY <1>1, <1>2, <1>3, <1>4

(* The cases counted are a number; a user without a tenant counts them all.  *)
LEMMA CountFacts ==
    ASSUME NEW S, IsFiniteSet(S)
    PROVE  /\ Cardinality(Cases) \in Nat /\ Cardinality(Creates(S)) \in Nat
           /\ IsFiniteSet(Creates(S)) /\ CaseNumber(S) \in Nat
           /\ role = "untenanted"
                => CaseNumber(S) = Cardinality(Cases) + Cardinality(Creates(S)) + 1
<1>1. Creates(S) \subseteq S
  BY DEF Creates
<1>2. IsFiniteSet(Creates(S))
  BY <1>1, FS_Subset
<1>3. IsFiniteSet(Cases)
  <2>1. IsFiniteSet({}) /\ IsFiniteSet({Here})
    BY FS_EmptySet, FS_Singleton
  <2>2. IsFiniteSet({Here} \union {There})
    BY <2>1, FS_AddElement
  <2>3. Cases = {Here} \union {There}
    BY DEF Cases
  <2>4. QED
    BY <2>2, <2>3
<1>4. Cardinality(Cases) \in Nat /\ Cardinality(Creates(S)) \in Nat
  BY <1>2, <1>3, FS_CardinalityType
<1> DEFINE Old == {k \in Cases : OldTenant = UserTenant}
           Own == {w \in S : w.kind = "create" /\ NewTenant = UserTenant}
<1>5. Cardinality(Old) \in Nat /\ Cardinality(Own) \in Nat
  <2>1. IsFiniteSet(Old) /\ IsFiniteSet(Own)
    BY <1>3, FS_Subset
  <2>2. QED
    BY <2>1, FS_CardinalityType
<1>6. role = "untenanted" => Old = Cases /\ Own = Creates(S)
  BY DEF OldTenant, NewTenant, UserTenant, Creates
<1>7. CaseNumber(S) = Cardinality(Old) + Cardinality(Own) + 1
  BY DEF CaseNumber, Counted
<1> HIDE DEF Old, Own
<1>8. QED
  BY <1>2, <1>4, <1>5, <1>6, <1>7

(* The more there is, the more is counted.                                   *)
LEMMA MoreCounted ==
    ASSUME NEW S, NEW T, IsFiniteSet(T), S \subseteq T
    PROVE  /\ IsFiniteSet(S)
           /\ Cardinality(Creates(S)) <= Cardinality(Creates(T))
<1>1. IsFiniteSet(S)
  BY FS_Subset
<1>2. IsFiniteSet(Creates(T)) /\ Creates(S) \subseteq Creates(T)
  BY CountFacts DEF Creates
<1>3. QED
  BY <1>1, <1>2, FS_Subset

(* A case that is new to the list is counted from now on.                    *)
LEMMA OneMoreCounted ==
    ASSUME NEW S, NEW T, IsFiniteSet(T), S \subseteq T,
           NEW w, w \notin T, w.kind = "create", role = "untenanted"
    PROVE  CaseNumber(S) <= Cardinality(Cases) + Cardinality(Creates(T \union {w}))
<1>1. IsFiniteSet(S) /\ Cardinality(Creates(S)) <= Cardinality(Creates(T))
  BY MoreCounted
<1>2. IsFiniteSet(Creates(T)) /\ w \notin Creates(T)
  BY CountFacts DEF Creates
<1>3. Creates(T \union {w}) = Creates(T) \union {w}
  BY DEF Creates
<1>4. Cardinality(Creates(T) \union {w}) = Cardinality(Creates(T)) + 1
  BY <1>2, FS_AddElement
<1>5. /\ CaseNumber(S) = Cardinality(Cases) + Cardinality(Creates(S)) + 1
      /\ Cardinality(Cases) \in Nat /\ Cardinality(Creates(S)) \in Nat
      /\ Cardinality(Creates(T)) \in Nat
  BY <1>1, CountFacts
<1>6. Cardinality(Creates(T \union {w})) = Cardinality(Creates(T)) + 1
  BY <1>3, <1>4
<1>7. \A c \in Nat, s \in Nat, t \in Nat : s <= t => c + s + 1 <= c + (t + 1)
  OBVIOUS
<1>8. QED
  BY <1>1, <1>5, <1>6, <1>7

(* At the start nothing is written, on its way, or owed.                     *)
LEMMA CaseInvInit == CaseInit => CaseInv
<1> SUFFICES ASSUME CaseInit PROVE CaseInv
  OBVIOUS
<1>1. /\ watched \in Watchable /\ role \in Roles /\ page = ListPage /\ modal = FALSE /\ rows = {}
      /\ muts = {} /\ closed = FALSE /\ numbers = {} /\ overlapped = {} /\ owed = {}
      /\ started = 0 /\ faults = 0
      /\ entry = IF page = Home THEN Send(NoEntry({})) ELSE NoEntry({})
  BY DEF CaseInit
<1>2. NoEntry({}) \in Entries(SUBSET Writes) /\ NoEntry({}).has = FALSE
  BY DEF NoEntry, Entries, FetchStates
<1>3. entry \in Entries(SUBSET Writes) /\ entry.has = FALSE
  BY <1>1, <1>2, SendFacts
<1>4. CaseTypeOK
  <2>1. modal \in BOOLEAN /\ closed \in BOOLEAN
    BY <1>1
  <2>2. started \in 0 .. MaxWrites /\ faults \in 0 .. MaxFaults
    BY <1>1, CaseWorkspaceAssumption
  <2>3. /\ rows \subseteq Writes /\ muts \subseteq CaseMutations
        /\ numbers \subseteq Writes \X Nat
        /\ overlapped \subseteq 1 .. MaxWrites /\ owed \subseteq Writes
    BY <1>1
  <2>4. QED
    BY <1>1, <1>3, <2>1, <2>2, <2>3 DEF CaseTypeOK, Pages
<1>5. RequestsKnown
  BY <1>1, FS_EmptySet DEF RequestsKnown
<1>6. /\ KnowsTimeline /\ DoneIsThere /\ ClosesJudged /\ NumbersCounted /\ NumbersDistinct
      /\ OwedIsHeld
  BY <1>1, <1>3 DEF KnowsTimeline, DoneIsThere, ClosesJudged, NumbersCounted, NumbersDistinct,
     AutoIncrement, OwedIsHeld, AllCounted
<1>7. QED
  BY <1>4, <1>5, <1>6 DEF CaseInv

(* Two requests that differ at most in what the page will do when they are   *)
(* answered.                                                                 *)
SameRequest(x, m) ==
    x.w = m.w /\ x.op = m.op /\ x.case = m.case /\ x.phase = m.phase /\ x.seen = m.seen

(* A request just started: the next write, of a kind that suits it.          *)
NewRequest(x) ==
    /\ started' = started + 1 /\ x.w.n = started' /\ x.phase = "sent" /\ x.seen = {}
    /\ (x.w.kind = "create") <=> (x.op = "createCase")
    /\ x.op = "createCase" => watched = "cases"
    /\ x.w.kind \in {"reopen", "close", "verdict"} => x.op \in {"updateCase", "updateStatus"}

(* A step of the browser: requests are started, given up or turned to        *)
(* another case, and nothing changes in the backend.                         *)
LEMMA BrowserKeeps ==
    ASSUME CaseInv, CaseTypeOK',
           UNCHANGED <<watched, role, rows, closed, numbers, overlapped>>,
           started' \in {started, started + 1},
           \A x \in muts' : (\E m \in muts : SameRequest(x, m)) \/ NewRequest(x),
           \A x \in muts', y \in muts' : x.w.n = y.w.n => x = y
    PROVE  /\ RequestsKnown' /\ KnowsTimeline' /\ DoneIsThere' /\ ClosesJudged'
           /\ NumbersCounted' /\ NumbersDistinct'
<1>1. /\ CaseTypeOK /\ RequestsKnown /\ KnowsTimeline /\ DoneIsThere /\ ClosesJudged
      /\ NumbersCounted /\ NumbersDistinct
  BY DEF CaseInv
<1>2. started \in Nat /\ started <= started'
  BY <1>1, CaseFacts
<1>3. \A x \in muts' : NewRequest(x) => x.phase = "sent" /\ x.seen = {} /\ x.w.n = started + 1
  BY DEF NewRequest
<1>4. \A m \in muts : m.w.n \in Nat
  BY <1>1, CaseFacts
<1>5. RequestsKnown'
  <2>1. ASSUME NEW x \in muts'
        PROVE  /\ x.w.n <= started' /\ IsFiniteSet(x.seen)
               /\ (x.w.kind = "create") <=> (x.op = "createCase")
               /\ x.op = "createCase" => watched' = "cases"
               /\ x.w.kind \in {"reopen", "close", "verdict"}
                    => x.op \in {"updateCase", "updateStatus"}
    <3>1. CASE \E m \in muts : SameRequest(x, m)
      <4>1. PICK m \in muts : SameRequest(x, m)
        BY <3>1
      <4>2. x.w = m.w /\ x.op = m.op /\ x.seen = m.seen
        BY <4>1 DEF SameRequest
      <4>3. m.w.n <= started'
        BY <1>1, <1>2, <1>4 DEF RequestsKnown
      <4>4. QED
        BY <1>1, <4>2, <4>3 DEF RequestsKnown
    <3>2. CASE NewRequest(x)
      BY <1>2, <3>2, FS_EmptySet DEF NewRequest
    <3>3. QED
      BY <3>1, <3>2
  <2>2. IsFiniteSet(rows')
    BY <1>1 DEF RequestsKnown
  <2>3. QED
    BY <2>1, <2>2 DEF RequestsKnown
<1>6. KnowsTimeline'
  <2>1. ASSUME watched = "timeline", NEW x \in muts', x.phase = "read", Rewrites(x)'
        PROVE  \A w \in Writes : w.n \notin overlapped => (w \in rows <=> w \in x.seen)
    <3>1. PICK m \in muts : SameRequest(x, m)
      BY <1>3, <2>1
    <3>2. m.phase = "read" /\ m.seen = x.seen /\ Rewrites(m)
      BY <2>1, <3>1 DEF SameRequest, Rewrites
    <3>3. QED
      BY <1>1, <2>1, <3>2 DEF KnowsTimeline
  <2>2. QED
    BY <2>1 DEF KnowsTimeline
<1>7. DoneIsThere'
  <2>1. ASSUME NEW x \in muts', x.phase = "done", watched \in CaseTouches(x.op),
               Concerns(x.case)', x.w.n \notin overlapped
        PROVE  x.w \in rows
    <3>1. PICK m \in muts : SameRequest(x, m)
      BY <1>3, <2>1
    <3>2. m.phase = "done" /\ m.w = x.w /\ m.op = x.op /\ Concerns(m.case)
      BY <2>1, <3>1 DEF SameRequest, Concerns
    <3>3. QED
      BY <1>1, <2>1, <3>2 DEF DoneIsThere
  <2>2. QED
    BY <2>1 DEF DoneIsThere
<1>8. ClosesJudged'
  <2>1. ASSUME watched = "case", NEW x \in muts', x.phase = "read", x.w.kind = "close",
               x.case = Here
        PROVE  HasVerdict(rows)
    <3>1. PICK m \in muts : SameRequest(x, m)
      BY <1>3, <2>1
    <3>2. QED
      BY <1>1, <2>1, <3>1 DEF ClosesJudged, SameRequest
  <2>2. QED
    BY <1>1, <2>1 DEF ClosesJudged
<1>9. NumbersCounted'
  <2> SUFFICES ASSUME watched = "cases"
               PROVE  NumbersCounted'
    BY DEF NumbersCounted
  <2>1. \A w \in rows : w.n <= started /\ w.n \in Nat
    BY <1>1, CaseFacts DEF NumbersCounted, Writes
  <2>2. \A w \in rows : w.n <= started' /\ w.n # started + 1
    BY <1>2, <2>1
  <2>3. ASSUME NEW x \in muts'
        PROVE  /\ x.seen \subseteq rows /\ (x.phase # "done" => x.w \notin rows)
               /\ x.phase = "read" /\ x.op = "createCase" => AllCounted(x.seen)
    <3>1. CASE \E m \in muts : SameRequest(x, m)
      <4>1. PICK m \in muts : SameRequest(x, m)
        BY <3>1
      <4>2. x.w = m.w /\ x.op = m.op /\ x.phase = m.phase /\ x.seen = m.seen
        BY <4>1 DEF SameRequest
      <4>3. QED
        BY <1>1, <4>2 DEF NumbersCounted
    <3>2. CASE NewRequest(x)
      BY <1>3, <2>2, <3>2
    <3>3. QED
      BY <3>1, <3>2
  <2>4. AllCounted(rows)
    BY <1>1 DEF NumbersCounted
  <2>5. QED
    BY <2>2, <2>3, <2>4 DEF NumbersCounted, AllCounted
<1>10. NumbersDistinct'
  BY <1>1 DEF NumbersDistinct, AutoIncrement
<1>11. QED
  BY <1>5, <1>6, <1>7, <1>8, <1>9, <1>10

(* A step of the cache or of a page, with no answer to owe anything for.     *)
LEMMA OwedKeeps ==
    ASSUME CaseInv, CaseTypeOK', UNCHANGED <<watched, role, rows, overlapped, owed>>,
           started' \in {started, started + 1},
           \A x \in muts' : (\E m \in muts : SameRequest(x, m)) \/ NewRequest(x),
           entry'.has /\ ~entry'.stale => owed \subseteq entry'.data,
           entry'.fetch = "read" => owed \subseteq entry'.read
    PROVE  OwedIsHeld'
<1>1. CaseTypeOK /\ OwedIsHeld
  BY DEF CaseInv
<1>2. started \in Nat /\ started <= started'
  BY <1>1, CaseFacts
<1>3. ASSUME NEW w \in owed
      PROVE  /\ w \in Listed' /\ w.n \notin overlapped /\ w.n <= started'
             /\ \A x \in muts' : x.w.n # w.n
  <2>1. w \in Listed /\ w.n \notin overlapped /\ w.n <= started /\ \A m \in muts : m.w.n # w.n
    BY <1>1 DEF OwedIsHeld
  <2>a. Listed' = Listed
    BY DEF Listed, Hidden, UserTenant, NewTenant
  <2>2. w.n \in Nat
    BY <1>1, CaseFacts DEF Writes
  <2>3. w.n <= started' /\ w.n # started + 1
    BY <1>2, <2>1, <2>2
  <2>4. ASSUME NEW x \in muts'
        PROVE  x.w.n # w.n
    BY <2>1, <2>3 DEF SameRequest, NewRequest
  <2>5. QED
    BY <2>1, <2>a, <2>3, <2>4
<1>4. QED
  BY <1>3 DEF OwedIsHeld

(* A request is started for a write of the kind its mutation makes.          *)
LEMMA CaseMutateKeeps ==
    ASSUME CaseInv, NEW op \in CaseOps, NEW k \in Pages, NEW kind \in Kinds,
           CaseMutate(op, k, kind), modal' \in BOOLEAN,
           (kind = "create") <=> (op = "createCase"),
           kind \in {"reopen", "close", "verdict"} => op \in {"updateCase", "updateStatus"}
    PROVE  CaseInv'
<1>1. CaseTypeOK /\ RequestsKnown /\ OwedIsHeld
  BY DEF CaseInv
<1> DEFINE new == [w |-> [n |-> started + 1, kind |-> kind], op |-> op, case |-> k,
                   closure |-> k, current |-> TRUE, phase |-> "sent", seen |-> {}]
           left(m) == IF m.op = op THEN [m EXCEPT !.current = FALSE] ELSE m
<1>2. /\ started < MaxWrites /\ started' = started + 1
      /\ watched \in CaseTouches(op) \union CaseInvalidates(op)
      /\ muts' = {left(m) : m \in muts} \union {new}
      /\ UNCHANGED <<watched, role, page, rows, entry, closed, numbers, faults, overlapped, owed>>
  BY DEF CaseMutate
<1>3. started \in Nat /\ MaxWrites \in Nat /\ started + 1 \in 1 .. MaxWrites
  BY <1>1, <1>2, CaseFacts
<1>4. new \in CaseMutations
  <2>1. [n |-> started + 1, kind |-> kind] \in Writes
    BY <1>3 DEF Writes
  <2>2. TRUE \in BOOLEAN /\ {} \in SUBSET Writes /\ "sent" \in {"sent", "read", "done"}
    OBVIOUS
  <2>3. QED
    BY <2>1, <2>2 DEF CaseMutations
<1>5. \A m \in muts : left(m) \in CaseMutations /\ SameRequest(left(m), m)
  <2>1. ASSUME NEW m \in muts
        PROVE  left(m) \in CaseMutations /\ SameRequest(left(m), m)
    <3>1. m \in CaseMutations
      BY <1>1, CaseFacts
    <3>2. /\ [m EXCEPT !.current = FALSE] \in CaseMutations
          /\ [m EXCEPT !.current = FALSE].w = m.w /\ [m EXCEPT !.current = FALSE].op = m.op
          /\ [m EXCEPT !.current = FALSE].case = m.case
          /\ [m EXCEPT !.current = FALSE].phase = m.phase
          /\ [m EXCEPT !.current = FALSE].seen = m.seen
      BY <3>1 DEF CaseMutations
    <3>3. QED
      BY <3>1, <3>2 DEF SameRequest
  <2>2. QED
    BY <2>1
<1>6. op = "createCase" => watched = "cases"
  BY <1>2 DEF CaseTouches, CaseInvalidates, ListOf, LogsTimeline, InvalidatesTimeline,
     invalidateCase
<1>7. NewRequest(new)
  BY <1>2, <1>6 DEF NewRequest
<1> HIDE DEF new, left
<1>8. muts' \subseteq CaseMutations
  BY <1>2, <1>4, <1>5
<1>9. CaseTypeOK'
  BY <1>1, <1>2, <1>3, <1>8 DEF CaseTypeOK
<1>10. \A x \in muts' : (\E m \in muts : SameRequest(x, m)) \/ NewRequest(x)
  BY <1>2, <1>5, <1>7
<1>11. \A x \in muts', y \in muts' : x.w.n = y.w.n => x = y
  <2>1. new.w.n = started + 1
    BY <1>2, <1>7 DEF NewRequest
  <2>2. \A m \in muts : left(m).w = m.w /\ m.w.n # started + 1
    <3>1. \A m \in muts : m.w.n <= started /\ m.w.n \in Nat
      BY <1>1, CaseFacts DEF RequestsKnown
    <3>2. QED
      BY <1>3, <1>5, <3>1 DEF SameRequest
  <2>3. \A m \in muts, x \in muts : left(m).w.n = left(x).w.n => left(m) = left(x)
    BY <1>1, <2>2 DEF RequestsKnown
  <2>4. QED
    BY <1>2, <2>1, <2>2, <2>3
<1>12. UNCHANGED <<watched, role, rows, closed, numbers, overlapped, owed, entry>>
  BY <1>2
<1>13. /\ RequestsKnown' /\ KnowsTimeline' /\ DoneIsThere' /\ ClosesJudged'
       /\ NumbersCounted' /\ NumbersDistinct'
  BY <1>2, <1>9, <1>10, <1>11, <1>12, BrowserKeeps
<1>14. OwedIsHeld'
  BY <1>1, <1>2, <1>9, <1>10, <1>12, OwedKeeps DEF OwedIsHeld
<1>15. QED
  BY <1>9, <1>13, <1>14 DEF CaseInv

(* The types after a step of the page and the cache.                         *)
LEMMA CasePageTypes ==
    ASSUME CaseInv, UNCHANGED <<watched, role, rows, closed, numbers, started, overlapped, owed>>,
           page' \in Pages, modal' \in BOOLEAN, faults' \in 0 .. MaxFaults,
           entry' \in Entries(SUBSET Writes), muts' \subseteq CaseMutations
    PROVE  CaseTypeOK'
<1>1. /\ watched \in Watchable /\ role \in Roles /\ rows \subseteq Writes /\ closed \in BOOLEAN
      /\ numbers \subseteq Writes \X Nat /\ started \in 0 .. MaxWrites
      /\ overlapped \subseteq 1 .. MaxWrites /\ owed \subseteq Writes
  BY DEF CaseInv, CaseTypeOK
<1>2. closed' \in BOOLEAN /\ modal' \in BOOLEAN
  BY <1>1
<1>3. QED
  BY <1>1, <1>2 DEF CaseTypeOK

(* Requests given up or turned to another case, and a step of the cache.     *)
LEMMA CasePageKeeps ==
    ASSUME CaseInv, CaseTypeOK',
           UNCHANGED <<watched, role, rows, closed, numbers, started, overlapped, owed>>,
           \A x \in muts' : \E m \in muts : SameRequest(x, m),
           \A x \in muts', y \in muts' : x.w.n = y.w.n => x = y,
           entry'.has /\ ~entry'.stale => owed \subseteq entry'.data,
           entry'.fetch = "read" => owed \subseteq entry'.read
    PROVE  CaseInv'
<1>1. \A x \in muts' : (\E m \in muts : SameRequest(x, m)) \/ NewRequest(x)
  OBVIOUS
<1>2. started' \in {started, started + 1}
  OBVIOUS
<1>3. /\ RequestsKnown' /\ KnowsTimeline' /\ DoneIsThere' /\ ClosesJudged'
      /\ NumbersCounted' /\ NumbersDistinct'
  BY <1>1, <1>2, BrowserKeeps
<1>4. OwedIsHeld'
  BY <1>1, <1>2, OwedKeeps
<1>5. QED
  BY <1>3, <1>4 DEF CaseInv

(* Some of the requests, as they are.                                        *)
LEMMA SameRequests ==
    ASSUME CaseInv, muts' \subseteq muts
    PROVE  /\ muts' \subseteq CaseMutations
           /\ \A x \in muts' : \E m \in muts : SameRequest(x, m)
           /\ \A x \in muts', y \in muts' : x.w.n = y.w.n => x = y
<1>1. muts \subseteq CaseMutations /\ RequestsKnown
  BY DEF CaseInv, CaseTypeOK
<1>2. \A x \in muts' : SameRequest(x, x)
  BY DEF SameRequest
<1>3. QED
  BY <1>1, <1>2 DEF RequestsKnown

(* The user turns to a page: data that are there and fresh are the same.     *)
LEMMA NavigateKeeps ==
    ASSUME CaseInv, NEW p \in Pages, NEW old \in Ages(entry), Navigate(p, old)
    PROVE  CaseInv'
<1>1. CaseTypeOK /\ RequestsKnown /\ OwedIsHeld
  BY DEF CaseInv
<1> DEFINE stays == page \in Cases /\ p \in Cases
           turned(m) == IF ~m.current THEN m
                        ELSE IF stays THEN [m EXCEPT !.closure = p]
                        ELSE [m EXCEPT !.current = FALSE]
<1>2. /\ page' = p /\ modal' = (modal /\ stays)
      /\ muts' = {turned(m) : m \in muts}
      /\ entry' = IF p = Home THEN Observed(Aged(entry, old)) ELSE entry
      /\ UNCHANGED <<watched, role, rows, closed, numbers, started, faults, overlapped, owed>>
  BY DEF Navigate
<1>3. \A m \in muts : turned(m) \in CaseMutations /\ SameRequest(turned(m), m)
  <2>1. ASSUME NEW m \in muts
        PROVE  turned(m) \in CaseMutations /\ SameRequest(turned(m), m)
    <3>1. m \in CaseMutations
      BY <1>1, CaseFacts
    <3>2. CASE ~m.current
      BY <3>1, <3>2 DEF SameRequest
    <3>3. CASE m.current /\ stays
      <4>1. /\ [m EXCEPT !.closure = p] \in CaseMutations
            /\ SameRequest([m EXCEPT !.closure = p], m)
        BY <3>1 DEF CaseMutations, SameRequest
      <4>2. QED
        BY <3>3, <4>1
    <3>4. CASE m.current /\ ~stays
      <4>1. /\ [m EXCEPT !.current = FALSE] \in CaseMutations
            /\ SameRequest([m EXCEPT !.current = FALSE], m)
        BY <3>1 DEF CaseMutations, SameRequest
      <4>2. QED
        BY <3>4, <4>1
    <3>5. QED
      BY <3>2, <3>3, <3>4
  <2>2. QED
    BY <2>1
<1>4. modal' \in BOOLEAN
  BY <1>2
<1> HIDE DEF turned, stays
<1>5. muts' \subseteq CaseMutations /\ \A x \in muts' : \E m \in muts : SameRequest(x, m)
  BY <1>2, <1>3
<1>6. \A x \in muts', y \in muts' : x.w.n = y.w.n => x = y
  <2>1. \A m \in muts : turned(m).w = m.w
    BY <1>3 DEF SameRequest
  <2>2. QED
    BY <1>1, <1>2, <2>1 DEF RequestsKnown
<1>7. entry \in Entries(SUBSET Writes) /\ faults \in 0 .. MaxFaults
  BY <1>1 DEF CaseTypeOK
<1>8. old \in BOOLEAN
  BY DEF Ages
<1>9. /\ entry' \in Entries(SUBSET Writes)
      /\ entry'.has /\ ~entry'.stale => owed \subseteq entry'.data
      /\ entry'.fetch = "read" => owed \subseteq entry'.read
  <2>1. CASE p = Home
    <3> DEFINE aged == Aged(entry, old)
    <3>1. /\ aged \in Entries(SUBSET Writes) /\ aged.has = entry.has
          /\ aged.data = entry.data /\ aged.fetch = entry.fetch /\ aged.read = entry.read
          /\ entry.has /\ entry.stale => aged.stale
      BY <1>7, <1>8, AgedFacts
    <3>2. entry' = Observed(aged)
      BY <1>2, <2>1
    <3> HIDE DEF aged
    <3>3. /\ entry' \in Entries(SUBSET Writes) /\ entry'.has = aged.has
          /\ entry'.stale = aged.stale /\ entry'.data = aged.data
          /\ \/ entry'.fetch = aged.fetch /\ entry'.read = aged.read
             \/ entry'.fetch = "sent"
      BY <3>1, <3>2, ObservedFacts
    <3>4. QED
      BY <1>1, <3>1, <3>3 DEF OwedIsHeld
  <2>2. CASE p # Home
    BY <1>1, <1>2, <1>7, <2>2 DEF OwedIsHeld
  <2>3. QED
    BY <2>1, <2>2
<1>10. page' \in Pages /\ faults' \in 0 .. MaxFaults
  BY <1>2, <1>7
<1>11. UNCHANGED <<watched, role, rows, closed, numbers, started, overlapped, owed>>
  BY <1>2
<1>12. CaseTypeOK'
  BY <1>4, <1>5, <1>9, <1>10, <1>11, CasePageTypes
<1>13. QED
  BY <1>5, <1>6, <1>9, <1>11, <1>12, CasePageKeeps

(* A button of a case page.                                                  *)
LEMMA SubmitKeeps ==
    ASSUME CaseInv, NEW pan \in CasePanels, NEW op \in CaseOps, Submit(pan, op)
    PROVE  CaseInv'
<1>1. op \in pan.offers /\ CaseMutate(op, page, "plain") /\ UNCHANGED modal
  BY DEF Submit
<1>2. op # "createCase"
  BY <1>1 DEF CasePanels, Header, TimelineTab, AlertsTab, IocsTab, AssetsTab, EvidenceTab,
     TasksTab, NotesTab, CommentsTab
<1>3. page \in Pages /\ modal \in BOOLEAN
  BY DEF CaseInv, CaseTypeOK
<1>4. "plain" \in Kinds
  BY DEF Kinds
<1>5. QED
  BY <1>1, <1>2, <1>3, <1>4, CaseMutateKeeps

(* A status is selected: the modal opens, or the status is sent.             *)
LEMMA SelectStatusKeeps ==
    ASSUME CaseInv, NEW closing \in BOOLEAN, SelectStatus(closing)
    PROVE  CaseInv'
<1>1. page \in Pages /\ modal \in BOOLEAN /\ faults \in 0 .. MaxFaults /\ OwedIsHeld
      /\ entry \in Entries(SUBSET Writes)
  BY DEF CaseInv, CaseTypeOK
<1>2. CASE closing /\ ~HasVerdict(entry.data)
  <2>1. /\ modal' = TRUE
        /\ UNCHANGED <<watched, role, page, rows, entry, muts, closed, numbers, started, faults,
                       overlapped, owed>>
    BY <1>2 DEF SelectStatus
  <2>2. modal' \in BOOLEAN
    BY <2>1
  <2>3. /\ muts' \subseteq CaseMutations
        /\ \A x \in muts' : \E m \in muts : SameRequest(x, m)
        /\ \A x \in muts', y \in muts' : x.w.n = y.w.n => x = y
    BY <2>1, SameRequests
  <2>4. /\ entry'.has /\ ~entry'.stale => owed \subseteq entry'.data
        /\ entry'.fetch = "read" => owed \subseteq entry'.read
    BY <1>1, <2>1 DEF OwedIsHeld
  <2>5. page' \in Pages /\ faults' \in 0 .. MaxFaults /\ entry' \in Entries(SUBSET Writes)
    BY <1>1, <2>1
  <2>6. UNCHANGED <<watched, role, rows, closed, numbers, started, overlapped, owed>>
    BY <2>1
  <2>7. CaseTypeOK'
    BY <2>2, <2>3, <2>5, <2>6, CasePageTypes
  <2>8. QED
    BY <2>3, <2>4, <2>6, <2>7, CasePageKeeps
<1>3. CASE ~(closing /\ ~HasVerdict(entry.data))
  <2>1. CaseMutate("updateCase", page, IF closing THEN "close" ELSE "reopen")
        /\ UNCHANGED modal
    BY <1>3 DEF SelectStatus
  <2>2. "updateCase" \in CaseOps /\ "close" \in Kinds /\ "reopen" \in Kinds
    BY DEF CaseOps, ListOf, Kinds
  <2>3. CASE closing
    <3>1. CaseMutate("updateCase", page, "close")
      BY <2>1, <2>3
    <3>2. QED
      BY <1>1, <2>1, <2>2, <3>1, CaseMutateKeeps
  <2>4. CASE ~closing
    <3>1. CaseMutate("updateCase", page, "reopen")
      BY <2>1, <2>4
    <3>2. QED
      BY <1>1, <2>1, <2>2, <3>1, CaseMutateKeeps
  <2>5. QED
    BY <2>3, <2>4
<1>4. QED
  BY <1>2, <1>3

(* A step that leaves requests and cache as they are.                        *)
LEMMA CaseStill ==
    ASSUME CaseInv, CaseTypeOK',
           UNCHANGED <<watched, role, page, rows, entry, muts, closed, numbers, started, faults,
                       overlapped, owed>>
    PROVE  CaseInv'
<1>1. OwedIsHeld
  BY DEF CaseInv
<1>2. /\ \A x \in muts' : \E m \in muts : SameRequest(x, m)
      /\ \A x \in muts', y \in muts' : x.w.n = y.w.n => x = y
  BY SameRequests
<1>3. /\ entry'.has /\ ~entry'.stale => owed \subseteq entry'.data
      /\ entry'.fetch = "read" => owed \subseteq entry'.read
  BY <1>1 DEF OwedIsHeld
<1>4. QED
  BY <1>2, <1>3, CasePageKeeps

(* The modal is confirmed: the case is to be closed with a verdict.          *)
LEMMA ConfirmKeeps == ASSUME CaseInv, Confirm PROVE CaseInv'
<1>1. CaseMutate("updateCase", page, "verdict") /\ UNCHANGED modal
  BY DEF Confirm
<1>2. page \in Pages /\ modal \in BOOLEAN
  BY DEF CaseInv, CaseTypeOK
<1>3. "updateCase" \in CaseOps /\ "verdict" \in Kinds
  BY DEF CaseOps, ListOf, Kinds
<1>4. QED
  BY <1>1, <1>2, <1>3, CaseMutateKeeps

(* The modal is left: nothing is sent.                                        *)
LEMMA CancelKeeps == ASSUME CaseInv, Cancel PROVE CaseInv'
<1>1. modal' = FALSE
  BY DEF Cancel
<1>2. UNCHANGED <<watched, role, page, rows, entry, muts, closed, numbers, started, faults,
                  overlapped, owed>>
  BY DEF Cancel
<1>3. modal' \in BOOLEAN
  BY <1>1
<1>4. /\ page \in Pages /\ faults \in 0 .. MaxFaults /\ entry \in Entries(SUBSET Writes)
      /\ muts \subseteq CaseMutations
  BY DEF CaseInv, CaseTypeOK
<1>5. CaseTypeOK'
  BY <1>2, <1>3, <1>4, CasePageTypes
<1>6. QED
  BY <1>2, <1>5, CaseStill

(* A button of the list of cases.                                            *)
LEMMA SubmitOnListKeeps ==
    ASSUME CaseInv, NEW pan \in ListPanels, NEW op \in CaseOps, NEW k \in Pages,
           SubmitOnList(pan, op, k)
    PROVE  CaseInv'
<1>1. modal \in BOOLEAN /\ UNCHANGED modal
  BY DEF CaseInv, CaseTypeOK, SubmitOnList
<1>2. "create" \in Kinds /\ "reopen" \in Kinds /\ "close" \in Kinds
  BY DEF Kinds
<1>3. CASE op = "createCase"
  <2>1. CaseMutate(op, k, "create")
    BY <1>3 DEF SubmitOnList
  <2>2. QED
    BY <1>1, <1>2, <1>3, <2>1, CaseMutateKeeps
<1>4. CASE op # "createCase"
  <2>1. PICK kind \in {"reopen", "close"} : CaseMutate(op, k, kind)
    BY <1>4 DEF SubmitOnList
  <2>2. op = "updateStatus"
    BY <1>4 DEF SubmitOnList, ListPanels, CreatePanel, RowButtons
  <2>3. QED
    BY <1>1, <1>2, <2>1, <2>2, CaseMutateKeeps
<1>5. QED
  BY <1>3, <1>4

(* The request or its answer is lost.                                        *)
LEMMA RequestFailsKeeps ==
    ASSUME CaseInv, NEW m \in muts, RequestFails(m)
    PROVE  CaseInv'
<1>1. /\ faults < MaxFaults /\ faults' = faults + 1 /\ muts' = muts \ {m}
      /\ UNCHANGED <<watched, role, page, modal, rows, entry, closed, numbers, started,
                     overlapped, owed>>
  BY DEF RequestFails
<1>2. page \in Pages /\ faults \in 0 .. MaxFaults /\ OwedIsHeld
      /\ entry \in Entries(SUBSET Writes) /\ MaxFaults \in Nat
  BY CaseWorkspaceAssumption DEF CaseInv, CaseTypeOK
<1>3. modal \in BOOLEAN
  BY DEF CaseInv, CaseTypeOK
<1>4. faults' \in 0 .. MaxFaults /\ page' \in Pages /\ entry' \in Entries(SUBSET Writes)
  BY <1>1, <1>2
<1>5. /\ muts' \subseteq CaseMutations
      /\ \A x \in muts' : \E y \in muts : SameRequest(x, y)
      /\ \A x \in muts', y \in muts' : x.w.n = y.w.n => x = y
  BY <1>1, SameRequests
<1>6. /\ entry'.has /\ ~entry'.stale => owed \subseteq entry'.data
      /\ entry'.fetch = "read" => owed \subseteq entry'.read
  BY <1>1, <1>2 DEF OwedIsHeld
<1>7. modal' \in BOOLEAN
  BY <1>1, <1>3
<1>8. UNCHANGED <<watched, role, rows, closed, numbers, started, overlapped, owed>>
  BY <1>1
<1>9. CaseTypeOK'
  BY <1>4, <1>5, <1>7, <1>8, CasePageTypes
<1>10. QED
  BY <1>5, <1>6, <1>8, <1>9, CasePageKeeps

(* A fetch moves on.                                                         *)
LEMMA CaseEntryKeeps ==
    ASSUME CaseInv, NEW e \in Entries(SUBSET Writes), CaseEntryStep(e),
           faults' \in 0 .. MaxFaults,
           e.has /\ ~e.stale => owed \subseteq e.data, e.fetch = "read" => owed \subseteq e.read
    PROVE  CaseInv'
<1>1. /\ entry' = e
      /\ UNCHANGED <<watched, role, page, modal, rows, muts, closed, numbers, started,
                     overlapped, owed>>
  BY DEF CaseEntryStep
<1>2. page \in Pages
  BY DEF CaseInv, CaseTypeOK
<1>3. modal \in BOOLEAN
  BY DEF CaseInv, CaseTypeOK
<1>4. modal' \in BOOLEAN
  BY <1>1, <1>3
<1>5. /\ muts' \subseteq CaseMutations
      /\ \A x \in muts' : \E y \in muts : SameRequest(x, y)
      /\ \A x \in muts', y \in muts' : x.w.n = y.w.n => x = y
  BY <1>1, SameRequests
<1>6. UNCHANGED <<watched, role, rows, closed, numbers, started, overlapped, owed>>
      /\ page' \in Pages
  BY <1>1, <1>2
<1>7. entry' \in Entries(SUBSET Writes)
  BY <1>1
<1>8. CaseTypeOK'
  BY <1>4, <1>5, <1>6, <1>7, CasePageTypes
<1>9. /\ entry'.has /\ ~entry'.stale => owed \subseteq entry'.data
      /\ entry'.fetch = "read" => owed \subseteq entry'.read
  BY <1>1
<1>10. QED
  BY <1>5, <1>6, <1>8, <1>9, CasePageKeeps

(* The fetch of the list is read, arrives, fails, or begins.                 *)
LEMMA CaseListKeeps ==
    ASSUME CaseInv, CaseListIsRead \/ CaseListArrives \/ CaseFetchFails \/ CasePoll
    PROVE  CaseInv'
<1>1. /\ entry \in Entries(SUBSET Writes) /\ faults \in 0 .. MaxFaults /\ rows \in SUBSET Writes
      /\ OwedIsHeld /\ MaxFaults \in Nat
  BY CaseWorkspaceAssumption DEF CaseInv, CaseTypeOK
<1>2. owed \subseteq Listed /\ Listed \in SUBSET Writes
  BY <1>1 DEF OwedIsHeld, Listed
<1>3. CASE CaseListIsRead
  <2> DEFINE e == BackendReads(entry, Listed)
  <2>1. /\ e \in Entries(SUBSET Writes) /\ e.has = entry.has /\ e.stale = entry.stale
        /\ e.data = entry.data /\ e.read = Listed
    BY <1>1, <1>2, ReadFacts
  <2>2. CaseEntryStep(e) /\ faults' = faults
    BY <1>3 DEF CaseListIsRead
  <2> HIDE DEF e
  <2>3. /\ e.has /\ ~e.stale => owed \subseteq e.data
        /\ e.fetch = "read" => owed \subseteq e.read
    BY <1>1, <1>2, <2>1 DEF OwedIsHeld
  <2>4. QED
    BY <1>1, <2>1, <2>2, <2>3, CaseEntryKeeps
<1>4. CASE CaseListArrives
  <2> DEFINE e == Received(entry)
  <2>1. /\ e \in Entries(SUBSET Writes) /\ e.data = entry.read /\ e.fetch = "idle"
    BY <1>1, ReceivedFacts
  <2>2. CaseEntryStep(e) /\ faults' = faults /\ entry.fetch = "read"
    BY <1>4 DEF CaseListArrives
  <2> HIDE DEF e
  <2>3. /\ e.has /\ ~e.stale => owed \subseteq e.data
        /\ e.fetch = "read" => owed \subseteq e.read
    BY <1>1, <2>1, <2>2 DEF OwedIsHeld
  <2>4. QED
    BY <1>1, <2>1, <2>2, <2>3, CaseEntryKeeps
<1>5. CASE CaseFetchFails
  <2> DEFINE e == GivenUp(entry)
  <2>1. /\ e \in Entries(SUBSET Writes) /\ e.has = entry.has /\ e.stale = entry.stale
        /\ e.data = entry.data /\ e.fetch = "idle"
    BY <1>1, GivenUpFacts
  <2>2. CaseEntryStep(e) /\ faults' = faults + 1 /\ faults < MaxFaults
    BY <1>5 DEF CaseFetchFails
  <2> HIDE DEF e
  <2>3. /\ e.has /\ ~e.stale => owed \subseteq e.data
        /\ e.fetch = "read" => owed \subseteq e.read
    BY <1>1, <2>1, <2>2 DEF OwedIsHeld
  <2>4. faults' \in 0 .. MaxFaults
    BY <1>1, <2>2
  <2>5. QED
    BY <2>1, <2>2, <2>3, <2>4, CaseEntryKeeps
<1>6. CASE CasePoll
  <2> DEFINE e == Send(entry)
  <2>1. /\ e \in Entries(SUBSET Writes) /\ e.has = entry.has /\ e.stale = entry.stale
        /\ e.data = entry.data /\ e.fetch = "sent"
    BY <1>1, SendFacts
  <2>2. CaseEntryStep(e) /\ faults' = faults
    BY <1>6 DEF CasePoll
  <2> HIDE DEF e
  <2>3. /\ e.has /\ ~e.stale => owed \subseteq e.data
        /\ e.fetch = "read" => owed \subseteq e.read
    BY <1>1, <2>1, <2>2 DEF OwedIsHeld
  <2>4. QED
    BY <1>1, <2>1, <2>2, <2>3, CaseEntryKeeps
<1>7. QED
  BY <1>3, <1>4, <1>5, <1>6

(* What a mutation changes its answer makes the page read again, but for the *)
(* lists no invalidation reaches.                                            *)
LEMMA FollowedIsInvalidated ==
    ASSUME NEW op \in CaseOps, watched \in CaseTouches(op), <<op, watched>> \notin CaseUnfollowed
    PROVE  watched \in CaseInvalidates(op)
<1>1. /\ <<"deleteAsset", "observables">> \in CaseUnfollowed
      /\ <<"updateStatus", "case">> \in CaseUnfollowed
      /\ <<"updateStatus", "timeline">> \in CaseUnfollowed
  BY DEF CaseUnfollowed
<1>2. watched = ListOf[op] => watched \in CaseInvalidates(op)
  BY DEF CaseInvalidates, invalidateCase, ListOf
<1>3. op \in LogsTimeline /\ watched = "timeline" => watched \in CaseInvalidates(op)
  BY <1>1 DEF CaseInvalidates, invalidateCase, LogsTimeline, InvalidatesTimeline
<1>4. op \in {"updateCase", "updateStatus"} /\ watched \in {"case", "cases"}
        => watched \in CaseInvalidates(op)
  BY <1>1 DEF CaseInvalidates, invalidateCase, ListOf
<1>5. op = "deleteAsset" => watched # "observables"
  BY <1>1
<1>6. QED
  BY <1>2, <1>3, <1>4, <1>5 DEF CaseTouches

(* A mutation is answered: the write is owed only if a fetch of the list is  *)
(* to begin, now or when somebody turns to it.                               *)
LEMMA CaseAnsweredKeeps ==
    ASSUME CaseInv, NEW m \in muts, CaseAnswered(m)
    PROVE  CaseInv'
<1>1. CaseTypeOK /\ RequestsKnown /\ DoneIsThere /\ OwedIsHeld
  BY DEF CaseInv
<1>2. /\ m.phase = "done" /\ muts' = muts \ {m}
      /\ UNCHANGED <<watched, role, page, rows, closed, numbers, started, faults, overlapped>>
  BY DEF CaseAnswered
<1> DEFINE active == (page = Home)
<1>3. entry' = IF watched \in CaseInvalidates(m.op) /\ Concerns(m.closure)
               THEN Invalidated(entry, active) ELSE entry
  BY DEF CaseAnswered
<1>4. \/ owed' = owed
      \/ /\ owed' = owed \union {m.w}
         /\ watched \in CaseTouches(m.op) /\ <<m.op, watched>> \notin CaseUnfollowed
         /\ Concerns(m.case) /\ Concerns(m.closure) /\ m.w.n \notin overlapped
         /\ ~Hidden(m.w) /\ ~Joins(entry, active)
  BY DEF CaseAnswered
<1>5. modal' \in BOOLEAN
  BY DEF CaseAnswered
<1>6. m \in CaseMutations /\ m.w \in Writes /\ m.op \in CaseOps
  BY <1>1, CaseFacts
<1>7. entry \in Entries(SUBSET Writes) /\ active \in BOOLEAN
  BY <1>1 DEF CaseTypeOK
<1> HIDE DEF active
<1>8. /\ entry' \in Entries(SUBSET Writes) /\ entry'.has = entry.has
      /\ entry'.data = entry.data
      /\ entry'.fetch = "read" => entry.fetch = "read" /\ entry'.read = entry.read
      /\ entry'.has /\ ~entry'.stale => ~entry.stale
  <2> DEFINE e == Invalidated(entry, active)
  <2>1. /\ e \in Entries(SUBSET Writes) /\ e.has = entry.has /\ e.data = entry.data
        /\ e.has => e.stale
        /\ \/ e.fetch = entry.fetch /\ e.read = entry.read
           \/ e.fetch = "sent"
    BY <1>7, InvalidatedFacts
  <2> HIDE DEF e
  <2>2. entry' = e \/ entry' = entry
    BY <1>3 DEF e
  <2>3. QED
    BY <1>7, <2>1, <2>2
<1>9. ASSUME owed' # owed
      PROVE  /\ ~(entry'.has /\ ~entry'.stale) /\ entry'.fetch # "read"
             /\ owed' = owed \union {m.w} /\ m.w \in Listed /\ m.w.n \notin overlapped
  <2>1. /\ owed' = owed \union {m.w}
        /\ watched \in CaseTouches(m.op) /\ <<m.op, watched>> \notin CaseUnfollowed
        /\ Concerns(m.case) /\ Concerns(m.closure) /\ m.w.n \notin overlapped
        /\ ~Hidden(m.w) /\ ~Joins(entry, active)
    BY <1>4, <1>9
  <2>2. watched \in CaseInvalidates(m.op)
    BY <1>6, <2>1, FollowedIsInvalidated
  <2>3. entry' = Invalidated(entry, active)
    BY <1>3, <2>1, <2>2
  <2>4. entry'.has => entry'.stale
    BY <1>7, <2>3, InvalidatedFacts
  <2>5. entry'.fetch # "read"
    BY <1>7, <2>1, <2>3, InvalidatedFacts
  <2>6. m.w \in Listed
    BY <1>1, <1>2, <2>1 DEF DoneIsThere, Listed
  <2>7. QED
    BY <2>1, <2>4, <2>5, <2>6
<1>10. CaseTypeOK'
  <2>1. owed' \subseteq Writes
    BY <1>1, <1>4, <1>6 DEF CaseTypeOK
  <2>2. /\ watched \in Watchable /\ role \in Roles /\ page \in Pages /\ rows \subseteq Writes
        /\ muts \subseteq CaseMutations
        /\ numbers \subseteq Writes \X Nat /\ started \in 0 .. MaxWrites
        /\ faults \in 0 .. MaxFaults /\ overlapped \subseteq 1 .. MaxWrites
    BY <1>1 DEF CaseTypeOK
  <2>3. closed' \in BOOLEAN
    BY <1>1, <1>2 DEF CaseTypeOK
  <2>4. QED
    BY <1>2, <1>5, <1>8, <2>1, <2>2, <2>3 DEF CaseTypeOK
<1>11. /\ \A x \in muts' : (\E y \in muts : SameRequest(x, y)) \/ NewRequest(x)
       /\ \A x \in muts', y \in muts' : x.w.n = y.w.n => x = y
  BY <1>2, SameRequests
<1>12. /\ RequestsKnown' /\ KnowsTimeline' /\ DoneIsThere' /\ ClosesJudged'
       /\ NumbersCounted' /\ NumbersDistinct'
  BY <1>2, <1>10, <1>11, BrowserKeeps
<1>13. OwedIsHeld'
  <2>a. Listed' = Listed
    BY <1>2 DEF Listed, Hidden, UserTenant, NewTenant
  <2>1. CASE owed' = owed
    BY <1>1, <1>2, <1>8, <2>a, <2>1 DEF OwedIsHeld
  <2>2. CASE owed' # owed
    <3>1. \A x \in muts' : x.w.n # m.w.n
      BY <1>1, <1>2 DEF RequestsKnown
    <3>2. m.w.n <= started
      BY <1>1 DEF RequestsKnown
    <3>3. \A w \in owed : /\ w \in Listed /\ w.n \notin overlapped /\ w.n <= started
                          /\ \A x \in muts : x.w.n # w.n
      BY <1>1 DEF OwedIsHeld
    <3>4. \A w \in owed' : /\ w \in Listed /\ w.n \notin overlapped /\ w.n <= started
                           /\ \A x \in muts' : x.w.n # w.n
      BY <1>2, <1>9, <2>2, <3>1, <3>2, <3>3
    <3>5. QED
      BY <1>2, <1>9, <2>a, <2>2, <3>4 DEF OwedIsHeld
  <2>3. QED
    BY <2>1, <2>2
<1>14. QED
  BY <1>10, <1>12, <1>13 DEF CaseInv

(* A handler reads what is stored now, or refuses.                           *)
LEMMA HandlerReadsKeeps ==
    ASSUME CaseInv, NEW m \in muts, HandlerReads(m)
    PROVE  CaseInv'
<1>1. /\ CaseTypeOK /\ RequestsKnown /\ KnowsTimeline /\ DoneIsThere /\ ClosesJudged
      /\ NumbersCounted /\ NumbersDistinct /\ OwedIsHeld
  BY DEF CaseInv
<1> DEFINE S == IF Rewrites(m) THEN rows ELSE {}
           r == [m EXCEPT !.phase = "read", !.seen = S]
<1>2. /\ m.phase = "sent"
      /\ UNCHANGED <<watched, role, page, modal, rows, entry, closed, numbers, started, faults,
                     overlapped, owed>>
  BY DEF HandlerReads
<1>3. CASE CaseRefused(m)
  <2>1. muts' = muts \ {m}
    BY <1>3 DEF HandlerReads
  <2>2. /\ muts' \subseteq CaseMutations
        /\ \A x \in muts' : \E y \in muts : SameRequest(x, y)
        /\ \A x \in muts', y \in muts' : x.w.n = y.w.n => x = y
    BY <2>1, SameRequests
  <2>3. /\ entry'.has /\ ~entry'.stale => owed \subseteq entry'.data
        /\ entry'.fetch = "read" => owed \subseteq entry'.read
    BY <1>1, <1>2 DEF OwedIsHeld
  <2>4. CaseTypeOK'
    BY <1>1, <1>2, <2>2 DEF CaseTypeOK
  <2>5. UNCHANGED <<watched, role, rows, closed, numbers, started, overlapped, owed>>
    BY <1>2
  <2>6. QED
    BY <2>2, <2>3, <2>4, <2>5, CasePageKeeps
<1>4. CASE ~CaseRefused(m)
  <2>1. muts' = (muts \ {m}) \union {r}
    BY <1>4 DEF HandlerReads
  <2>2. /\ r \in CaseMutations /\ r.w = m.w /\ r.op = m.op /\ r.case = m.case
        /\ r.phase = "read" /\ r.seen = S
    <3>0. m \in CaseMutations /\ rows \in SUBSET Writes
      BY <1>1, CaseFacts
    <3> DEFINE turned == [m EXCEPT !.phase = "read"]
    <3>1. /\ turned \in CaseMutations /\ turned.w = m.w /\ turned.op = m.op
          /\ turned.case = m.case /\ turned.phase = "read"
      BY <3>0 DEF CaseMutations
    <3>2. r = [turned EXCEPT !.seen = S]
      OBVIOUS
    <3>3. S \in SUBSET Writes
      BY <3>0
    <3> HIDE DEF turned, r, S
    <3>4. /\ r \in CaseMutations /\ r.w = turned.w /\ r.op = turned.op
          /\ r.case = turned.case /\ r.phase = turned.phase /\ r.seen = S
      BY <3>1, <3>2, <3>3 DEF CaseMutations
    <3>5. QED
      BY <3>1, <3>4
  <2>3. S \subseteq rows /\ IsFiniteSet(S) /\ (Rewrites(m) => S = rows)
    BY <1>1, FS_EmptySet DEF RequestsKnown
  <2> HIDE DEF r, S
  <2>4. muts' \subseteq CaseMutations
    BY <1>1, <2>1, <2>2 DEF CaseTypeOK
  <2>5. CaseTypeOK'
    BY <1>1, <1>2, <2>4 DEF CaseTypeOK
  <2>6. RequestsKnown'
    <3>1. ASSUME NEW x \in muts'
          PROVE  /\ x.w.n <= started /\ IsFiniteSet(x.seen)
                 /\ (x.w.kind = "create") <=> (x.op = "createCase")
                 /\ x.op = "createCase" => watched = "cases"
                 /\ x.w.kind \in {"reopen", "close", "verdict"}
                      => x.op \in {"updateCase", "updateStatus"}
      BY <1>1, <2>1, <2>2, <2>3 DEF RequestsKnown
    <3>2. \A x \in muts', y \in muts' : x.w.n = y.w.n => x = y
      BY <1>1, <2>1, <2>2 DEF RequestsKnown
    <3>3. IsFiniteSet(rows)
      BY <1>1 DEF RequestsKnown
    <3>4. QED
      BY <1>2, <3>1, <3>2, <3>3 DEF RequestsKnown
  <2>7. KnowsTimeline'
    <3>1. ASSUME watched = "timeline", NEW x \in muts', x.phase = "read", Rewrites(x)
          PROVE  \A w \in Writes : w.n \notin overlapped => (w \in rows <=> w \in x.seen)
      <4>1. CASE x \in muts
        BY <1>1, <3>1, <4>1 DEF KnowsTimeline
      <4>2. CASE x = r
        BY <2>2, <2>3, <3>1, <4>2 DEF Rewrites
      <4>3. QED
        BY <2>1, <4>1, <4>2
    <3>2. \A x : Rewrites(x)' <=> Rewrites(x)
      BY <1>2 DEF Rewrites
    <3>3. QED
      BY <1>2, <3>1, <3>2 DEF KnowsTimeline, Rewrites
  <2>8. DoneIsThere'
    <3>1. \A x \in muts' : x.phase = "done" => x \in muts
      BY <2>1, <2>2
    <3>2. QED
      BY <1>1, <1>2, <3>1 DEF DoneIsThere, Concerns
  <2>9. ClosesJudged'
    <3>1. ASSUME watched = "case", NEW x \in muts', x.phase = "read", x.w.kind = "close",
                 x.case = Here
          PROVE  HasVerdict(rows)
      <4>1. CASE x \in muts
        BY <1>1, <3>1, <4>1 DEF ClosesJudged
      <4>2. CASE x = r
        BY <1>4, <2>2, <3>1, <4>2 DEF CaseRefused
      <4>3. QED
        BY <2>1, <4>1, <4>2
    <3>2. QED
      BY <1>1, <1>2, <3>1 DEF ClosesJudged
  <2>10. NumbersCounted'
    <3>1. ASSUME watched = "cases"
          PROVE  /\ \A w \in rows : w.n <= started
                 /\ \A x \in muts' : x.seen \subseteq rows /\ (x.phase # "done" => x.w \notin rows)
                 /\ AllCounted(rows)
                 /\ \A x \in muts' : x.phase = "read" /\ x.op = "createCase" => AllCounted(x.seen)
      <4>1. /\ \A w \in rows : w.n <= started
            /\ \A x \in muts : x.seen \subseteq rows /\ (x.phase # "done" => x.w \notin rows)
            /\ AllCounted(rows)
            /\ \A x \in muts : x.phase = "read" /\ x.op = "createCase" => AllCounted(x.seen)
        BY <1>1, <3>1 DEF NumbersCounted
      <4>2. r.seen \subseteq rows /\ r.w \notin rows
        BY <1>2, <2>2, <2>3, <4>1
      <4>3. r.op = "createCase" => AllCounted(r.seen)
        BY <2>2, <2>3, <4>1 DEF Rewrites
      <4>4. QED
        BY <2>1, <4>1, <4>2, <4>3
    <3>2. QED
      BY <1>2, <3>1 DEF NumbersCounted, AllCounted
  <2>11. NumbersDistinct'
    BY <1>1, <1>2 DEF NumbersDistinct, AutoIncrement
  <2>12. OwedIsHeld'
    <3>1. \A w \in owed : \A x \in muts' : x.w.n # w.n
      BY <1>1, <2>1, <2>2 DEF OwedIsHeld
    <3>2. Listed' = Listed
      BY <1>2 DEF Listed, Hidden, UserTenant, NewTenant
    <3>3. QED
      BY <1>1, <1>2, <3>1, <3>2 DEF OwedIsHeld
  <2>13. QED
    BY <2>5, <2>6, <2>7, <2>8, <2>9, <2>10, <2>11, <2>12 DEF CaseInv
<1>5. QED
  BY <1>3, <1>4

(* What a handler that commits does to the rows of the watched list.         *)
LEMMA CommittedRows ==
    ASSUME CaseInv, NEW m \in muts, HandlerCommits(m)
    PROVE  /\ rows' \subseteq Writes /\ IsFiniteSet(rows')
           /\ watched # "timeline" => rows \subseteq rows' /\ rows' \subseteq rows \union {m.w}
           /\ watched \in CaseTouches(m.op) /\ Concerns(m.case) => m.w \in rows'
           /\ watched = "timeline" =>
                \/ rows' = rows
                \/ rows' = m.seen \union {m.w} /\ Rewrites(m) /\ m.phase = "read"
<1>1. rows' = IF watched \in CaseTouches(m.op) /\ Concerns(m.case) THEN Committed(m) ELSE rows
  BY DEF HandlerCommits
<1>2. CaseTypeOK /\ RequestsKnown
  BY DEF CaseInv
<1>3. /\ m.w \in Writes /\ m.seen \subseteq Writes /\ rows \subseteq Writes
      /\ IsFiniteSet(m.seen) /\ IsFiniteSet(rows) /\ m.op \in CaseOps
  BY <1>2, CaseFacts DEF RequestsKnown
<1>4. IsFiniteSet(m.seen \union {m.w}) /\ IsFiniteSet(rows \union {m.w})
  BY <1>3, FS_AddElement
<1>5. Committed(m) = IF watched = "timeline" THEN m.seen \union {m.w} ELSE rows \union {m.w}
  BY DEF Committed
<1>6. rows' \subseteq Writes /\ IsFiniteSet(rows')
  BY <1>1, <1>3, <1>4, <1>5
<1>7. watched = "timeline" /\ watched \in CaseTouches(m.op) /\ Concerns(m.case)
        => Rewrites(m) /\ m.phase = "read"
  <2>1. watched = "timeline" /\ watched \in CaseTouches(m.op) => m.op \in LogsTimeline
    BY <1>3 DEF CaseTouches, ListOf, LogsTimeline, CaseOps
  <2>2. watched = "timeline" /\ Concerns(m.case) => m.case = Here
    BY DEF Concerns
  <2>3. Rewrites(m) => m.phase = "read"
    BY DEF HandlerCommits, ReadsFirst
  <2>4. QED
    BY <2>1, <2>2, <2>3 DEF Rewrites
<1>8. QED
  BY <1>1, <1>5, <1>6, <1>7

(* A handler commits: its write is stored, and everything stored stays but   *)
(* for what the timeline loses to handlers that overlap.                     *)
LEMMA HandlerCommitsKeeps ==
    ASSUME CaseInv, NEW m \in muts, HandlerCommits(m)
    PROVE  CaseInv'
<1>1. /\ CaseTypeOK /\ RequestsKnown /\ KnowsTimeline /\ DoneIsThere /\ ClosesJudged
      /\ NumbersCounted /\ NumbersDistinct /\ OwedIsHeld
  BY DEF CaseInv
<1> DEFINE r == [m EXCEPT !.phase = "done", !.seen = {}]
           other == Rewrites(m) /\ \E x \in muts \ {m} : x.phase = "read" /\ Rewrites(x)
<1>2. /\ m.phase = IF ReadsFirst(m) THEN "read" ELSE "sent"
      /\ muts' = (muts \ {m}) \union {r}
      /\ UNCHANGED <<watched, role, page, modal, entry, started, faults, owed>>
  BY DEF HandlerCommits
<1>3. overlapped' = IF other THEN overlapped \union {m.w.n} ELSE overlapped
  BY DEF HandlerCommits
<1>4. numbers' = IF m.op = "createCase"
                 THEN numbers \union {<<m.w, CaseNumber(m.seen)>>} ELSE numbers
  BY DEF HandlerCommits
<1>5. /\ rows' \subseteq Writes /\ IsFiniteSet(rows')
      /\ watched # "timeline" => rows \subseteq rows' /\ rows' \subseteq rows \union {m.w}
      /\ watched \in CaseTouches(m.op) /\ Concerns(m.case) => m.w \in rows'
      /\ watched = "timeline" =>
           \/ rows' = rows
           \/ rows' = m.seen \union {m.w} /\ Rewrites(m) /\ m.phase = "read"
  BY CommittedRows
<1>6. /\ m \in CaseMutations /\ m.w \in Writes /\ m.w.n \in 1 .. MaxWrites
      /\ m.seen \subseteq Writes /\ m.op \in CaseOps /\ m.w.n \in Nat
  BY <1>1, CaseFacts
<1>7. /\ r \in CaseMutations /\ r.w = m.w /\ r.op = m.op /\ r.case = m.case
      /\ r.phase = "done" /\ r.seen = {}
  <2> DEFINE turned == [m EXCEPT !.phase = "done"]
  <2>1. /\ turned \in CaseMutations /\ turned.w = m.w /\ turned.op = m.op
        /\ turned.case = m.case /\ turned.phase = "done"
    BY <1>6 DEF CaseMutations
  <2>2. r = [turned EXCEPT !.seen = {}]
    OBVIOUS
  <2>3. {} \in SUBSET Writes
    BY <1>6
  <2> HIDE DEF turned, r
  <2>4. /\ r \in CaseMutations /\ r.w = turned.w /\ r.op = turned.op
        /\ r.case = turned.case /\ r.phase = turned.phase /\ r.seen = {}
    BY <2>1, <2>2, <2>3 DEF CaseMutations
  <2>5. QED
    BY <2>1, <2>4
<1> HIDE DEF r
<1>8. /\ IsFiniteSet(m.seen) /\ m.w.n <= started
      /\ (m.w.kind = "create") <=> (m.op = "createCase")
      /\ \A x \in muts \ {m} : x.w.n # m.w.n
  BY <1>1 DEF RequestsKnown
<1>9. overlapped \subseteq overlapped' /\ overlapped' \subseteq overlapped \union {m.w.n}
      /\ (other => m.w.n \in overlapped')
  BY <1>3
<1>10. ASSUME NEW x \in muts', x # r
       PROVE  x \in muts \ {m}
  BY <1>2, <1>10
<1>11. \A x : (Rewrites(x)' <=> Rewrites(x)) /\ (Concerns(x.case)' <=> Concerns(x.case))
  BY <1>2 DEF Rewrites, Concerns
<1>12. ASSUME NEW x \in muts \ {m}, x.phase = "read", Rewrites(x), Rewrites(m)
       PROVE  m.w.n \in overlapped'
  BY <1>9, <1>12
<1> HIDE DEF other
<1>13. CaseTypeOK'
  <2>1. closed' \in BOOLEAN
    <3>1. closed \in BOOLEAN /\ (m.w.kind # "reopen") \in BOOLEAN
      BY <1>1 DEF CaseTypeOK
    <3>2. closed' = (m.w.kind # "reopen") \/ closed' = closed
      BY DEF HandlerCommits
    <3>3. QED
      BY <3>1, <3>2
  <2>2. modal' \in BOOLEAN
    BY <1>1, <1>2 DEF CaseTypeOK
  <2>3. muts' \subseteq CaseMutations /\ overlapped' \subseteq 1 .. MaxWrites
    BY <1>1, <1>2, <1>6, <1>7, <1>9 DEF CaseTypeOK
  <2>4. numbers' \subseteq Writes \X Nat
    <3>1. CaseNumber(m.seen) \in Nat
      BY <1>8, CountFacts
    <3>2. <<m.w, CaseNumber(m.seen)>> \in Writes \X Nat
      BY <1>6, <3>1
    <3>3. QED
      BY <1>1, <1>4, <3>2 DEF CaseTypeOK
  <2>5. /\ watched \in Watchable /\ role \in Roles /\ page \in Pages /\ entry \in Entries(SUBSET Writes)
        /\ started \in 0 .. MaxWrites /\ faults \in 0 .. MaxFaults /\ owed \subseteq Writes
    BY <1>1 DEF CaseTypeOK
  <2>6. QED
    BY <1>2, <1>5, <2>1, <2>2, <2>3, <2>4, <2>5 DEF CaseTypeOK
<1>14. RequestsKnown'
  <2>1. ASSUME NEW x \in muts'
        PROVE  /\ x.w.n <= started /\ IsFiniteSet(x.seen)
               /\ (x.w.kind = "create") <=> (x.op = "createCase")
               /\ x.op = "createCase" => watched = "cases"
               /\ x.w.kind \in {"reopen", "close", "verdict"}
                    => x.op \in {"updateCase", "updateStatus"}
    BY <1>1, <1>2, <1>7, FS_EmptySet DEF RequestsKnown
  <2>2. \A x \in muts', y \in muts' : x.w.n = y.w.n => x = y
    BY <1>1, <1>2, <1>7 DEF RequestsKnown
  <2>3. QED
    BY <1>2, <1>5, <2>1, <2>2 DEF RequestsKnown
<1>15. KnowsTimeline'
  <2>1. ASSUME watched = "timeline", NEW x \in muts', x.phase = "read", Rewrites(x),
               NEW w \in Writes, w.n \notin overlapped'
        PROVE  w \in rows' <=> w \in x.seen
    <3>1. x \in muts \ {m}
      BY <1>7, <1>10, <2>1
    <3>2. w \in rows <=> w \in x.seen
      BY <1>1, <1>9, <2>1, <3>1 DEF KnowsTimeline
    <3>3. CASE rows' = rows
      BY <3>2, <3>3
    <3>4. CASE rows' = m.seen \union {m.w} /\ Rewrites(m) /\ m.phase = "read"
      <4>1. w # m.w
        BY <1>12, <2>1, <3>1, <3>4
      <4>2. w \in rows <=> w \in m.seen
        BY <1>1, <1>9, <2>1, <3>4 DEF KnowsTimeline
      <4>3. QED
        BY <3>2, <3>4, <4>1, <4>2
    <3>5. QED
      BY <1>5, <2>1, <3>3, <3>4
  <2>2. QED
    BY <1>2, <1>11, <2>1 DEF KnowsTimeline
<1>16. ASSUME NEW w \in rows, w.n \notin overlapped
      PROVE  w \in rows'
  <2>1. CASE watched # "timeline"
    BY <1>5, <1>16, <2>1
  <2>2. CASE watched = "timeline"
    <3>1. w \in Writes
      BY <1>1 DEF CaseTypeOK
    <3>2. Rewrites(m) /\ m.phase = "read" => w \in m.seen
      BY <1>1, <1>16, <2>2, <3>1 DEF KnowsTimeline
    <3>3. QED
      BY <1>5, <1>16, <2>2, <3>2
  <2>3. QED
    BY <2>1, <2>2
<1>17. DoneIsThere'
  <2>1. ASSUME NEW x \in muts', x.phase = "done", watched \in CaseTouches(x.op),
               Concerns(x.case), x.w.n \notin overlapped'
        PROVE  x.w \in rows'
    <3>1. CASE x = r
      BY <1>5, <1>7, <2>1, <3>1
    <3>2. CASE x # r
      <4>1. x \in muts /\ x.w \in rows /\ x.w.n \notin overlapped
        BY <1>1, <1>9, <1>10, <2>1, <3>2 DEF DoneIsThere
      <4>2. QED
        BY <1>16, <4>1
    <3>3. QED
      BY <3>1, <3>2
  <2>2. QED
    BY <1>2, <1>11, <2>1 DEF DoneIsThere
<1>18. ClosesJudged'
  <2> SUFFICES ASSUME watched = "case" PROVE ClosesJudged'
    BY <1>2 DEF ClosesJudged
  <2>1. rows \subseteq rows'
    BY <1>5
  <2>2. HasVerdict(rows) => HasVerdict(rows')
    BY <2>1 DEF HasVerdict
  <2>3. \A x \in muts' : x.phase = "read" /\ x.w.kind = "close" /\ x.case = Here
                           => HasVerdict(rows')
    <3>1. ASSUME NEW x \in muts', x.phase = "read", x.w.kind = "close", x.case = Here
          PROVE  HasVerdict(rows')
      <4>1. x \in muts
        BY <1>7, <1>10, <3>1
      <4>2. QED
        BY <1>1, <2>2, <3>1, <4>1 DEF ClosesJudged
    <3>2. QED
      BY <3>1
  <2>4. closed' => HasVerdict(rows')
    <3>1. CASE closed' = closed
      BY <1>1, <2>2, <3>1 DEF ClosesJudged
    <3>2. CASE closed' # closed
      <4>1. m.case = Here /\ m.w.kind \in {"reopen", "close", "verdict"}
            /\ closed' = (m.w.kind # "reopen")
        BY <3>2 DEF HandlerCommits
      <4>2. CASE m.w.kind = "close"
        <5>1. m.phase = "read"
          BY <1>2, <4>2 DEF ReadsFirst
        <5>2. QED
          BY <1>1, <2>2, <4>1, <4>2, <5>1 DEF ClosesJudged
      <4>3. CASE m.w.kind = "verdict"
        <5>1. m.op \in {"updateCase", "updateStatus"}
          BY <1>1, <4>3 DEF RequestsKnown
        <5>2. watched \in CaseTouches(m.op) /\ Concerns(m.case)
          BY <4>1, <5>1 DEF CaseTouches, Concerns
        <5>3. m.w \in rows'
          BY <1>5, <5>2
        <5>4. QED
          BY <4>3, <5>3 DEF HasVerdict
      <4>4. CASE m.w.kind = "reopen"
        BY <4>1, <4>4
      <4>5. QED
        BY <4>1, <4>2, <4>3, <4>4
    <3>3. QED
      BY <3>1, <3>2
  <2>5. QED
    BY <2>3, <2>4 DEF ClosesJudged
<1>19. NumbersCounted' /\ NumbersDistinct'
  <2>1. m.op = "createCase" => watched = "cases" /\ Rewrites(m) /\ m.phase = "read"
    BY <1>1, <1>2 DEF RequestsKnown, Rewrites, ReadsFirst
  <2>2. /\ Cardinality(Cases) \in Nat /\ CaseNumber(m.seen) \in Nat
        /\ role = "untenanted"
             => CaseNumber(m.seen) = Cardinality(Cases) + Cardinality(Creates(m.seen)) + 1
        /\ Cardinality(Creates(m.seen)) \in Nat
    BY <1>8, CountFacts
  <2>3. \A g \in numbers : g[2] \in Nat /\ (role = "untenanted" => g[2] > Cardinality(Cases))
    BY <1>1 DEF CaseTypeOK, NumbersDistinct
  <2>4. \A g \in numbers' : \/ g \in numbers
                            \/ /\ m.op = "createCase"
                               /\ g = <<m.w, CaseNumber(m.seen)>>
    BY <1>4
  <2>5. NumbersDistinct'
    <3> SUFFICES ASSUME role = "untenanted" PROVE NumbersDistinct'
      BY <1>2 DEF NumbersDistinct
    <3>1. \A g \in numbers' : g[2] > Cardinality(Cases)
      BY <2>2, <2>3, <2>4
    <3>2. ASSUME m.op = "createCase", NEW g \in numbers, g[1].n \notin overlapped'
          PROVE  g[2] # CaseNumber(m.seen)
      <4>1. g[2] <= Cardinality(Cases) + Cardinality(Creates(m.seen))
        BY <1>1, <1>9, <2>1, <3>2 DEF NumbersCounted, AllCounted
      <4>2. QED
        BY <2>2, <2>3, <4>1
    <3>3. ASSUME NEW g \in numbers', NEW h \in numbers', g # h,
                 {g[1].n, h[1].n} \intersect overlapped' = {}
          PROVE  g[2] # h[2]
      <4>1. g[1].n \notin overlapped' /\ h[1].n \notin overlapped'
        BY <3>3
      <4>2. CASE g \in numbers /\ h \in numbers
        <5>1. {g[1].n, h[1].n} \intersect overlapped = {}
          BY <1>9, <3>3
        <5>2. QED
          BY <1>1, <3>3, <4>2, <5>1 DEF NumbersDistinct, AutoIncrement
      <4>3. CASE g \notin numbers /\ h \in numbers
        BY <2>4, <3>2, <4>1, <4>3
      <4>4. CASE g \in numbers /\ h \notin numbers
        BY <2>4, <3>2, <4>1, <4>4
      <4>5. CASE g \notin numbers /\ h \notin numbers
        BY <2>4, <3>3, <4>5
      <4>6. QED
        BY <4>2, <4>3, <4>4, <4>5
    <3>4. QED
      BY <3>1, <3>3 DEF NumbersDistinct, AutoIncrement
  <2>6. ASSUME watched = "cases"
        PROVE  /\ \A w \in rows' : w.n <= started
               /\ \A x \in muts' : x.seen \subseteq rows' /\ (x.phase # "done" => x.w \notin rows')
               /\ AllCounted(rows)'
               /\ \A x \in muts' : x.phase = "read" /\ x.op = "createCase" => AllCounted(x.seen)'
    <3>1. /\ \A w \in rows : w.n <= started
          /\ \A x \in muts : x.seen \subseteq rows /\ (x.phase # "done" => x.w \notin rows)
          /\ AllCounted(rows)
          /\ \A x \in muts : x.phase = "read" /\ x.op = "createCase" => AllCounted(x.seen)
      BY <1>1, <2>6 DEF NumbersCounted
    <3>2. rows \subseteq rows' /\ rows' \subseteq rows \union {m.w}
      BY <1>5, <2>6
    <3>3. \A w \in rows' : w.n <= started
      BY <1>8, <3>1, <3>2
    <3>4. \A x \in muts' : x.seen \subseteq rows' /\ (x.phase # "done" => x.w \notin rows')
      BY <1>7, <1>8, <1>10, <3>1, <3>2
    <3>5. ASSUME role = "untenanted", NEW g \in numbers', g[1].n \notin overlapped'
          PROVE  g[2] <= Cardinality(Cases) + Cardinality(Creates(rows'))
      <4>1. CASE g \in numbers
        <5>1. g[2] <= Cardinality(Cases) + Cardinality(Creates(rows))
          BY <1>9, <3>1, <3>5, <4>1 DEF AllCounted
        <5>2. Cardinality(Creates(rows)) <= Cardinality(Creates(rows'))
          BY <1>5, <3>2, MoreCounted
        <5>3. Cardinality(Creates(rows)) \in Nat /\ Cardinality(Creates(rows')) \in Nat
          BY <1>1, <1>5, CountFacts DEF RequestsKnown
        <5>4. QED
          BY <2>2, <2>3, <4>1, <5>1, <5>2, <5>3
      <4>2. CASE g \notin numbers
        <5>1. m.op = "createCase" /\ g[2] = CaseNumber(m.seen)
          BY <2>4, <4>2
        <5>2. m.w.kind = "create" /\ m.w \notin rows /\ m.seen \subseteq rows
          BY <1>8, <2>1, <3>1, <5>1
        <5>3. IsFiniteSet(rows)
          BY <1>1 DEF RequestsKnown
        <5>4. CaseNumber(m.seen)
                <= Cardinality(Cases) + Cardinality(Creates(rows \union {m.w}))
          BY <3>5, <5>2, <5>3, OneMoreCounted
        <5>5. watched \in CaseTouches(m.op) /\ Concerns(m.case)
          BY <2>6, <5>1 DEF CaseTouches, ListOf, Concerns
        <5>6. rows' = rows \union {m.w}
          BY <1>5, <3>2, <5>5
        <5>7. QED
          BY <5>1, <5>4, <5>6
      <4>3. QED
        BY <4>1, <4>2
    <3>6. ASSUME role = "untenanted", NEW x \in muts', x.phase = "read", x.op = "createCase",
                 NEW g \in numbers', g[1].n \notin overlapped'
          PROVE  g[2] <= Cardinality(Cases) + Cardinality(Creates(x.seen))
      <4>1. x \in muts \ {m} /\ Rewrites(x)
        BY <1>7, <1>10, <3>6 DEF Rewrites
      <4>2. m.op = "createCase" => m.w.n \in overlapped'
        BY <1>12, <2>1, <3>6, <4>1
      <4>3. g \in numbers
        BY <2>4, <3>6, <4>2
      <4>4. QED
        BY <1>9, <3>1, <3>6, <4>1, <4>3 DEF AllCounted
    <3>7. QED
      BY <1>2, <3>3, <3>4, <3>5, <3>6 DEF AllCounted
  <2>7. QED
    BY <1>2, <2>5, <2>6 DEF NumbersCounted, AllCounted
<1>20. OwedIsHeld'
  <2>1. ASSUME NEW w \in owed
        PROVE  /\ w \in Listed' /\ w.n \notin overlapped' /\ w.n <= started
               /\ \A x \in muts' : x.w.n # w.n
    <3>1. w \in Listed /\ w.n \notin overlapped /\ w.n <= started /\ \A x \in muts : x.w.n # w.n
      BY <1>1 DEF OwedIsHeld
    <3>2. w \in Listed'
      BY <1>2, <1>16, <3>1 DEF Listed, Hidden, UserTenant, NewTenant
    <3>3. QED
      BY <1>2, <1>7, <1>9, <3>1, <3>2
  <2>2. QED
    BY <1>1, <1>2, <2>1 DEF OwedIsHeld
<1>21. QED
  BY <1>13, <1>14, <1>15, <1>17, <1>18, <1>19, <1>20 DEF CaseInv

(* Every step keeps it.                                                      *)
LEMMA CaseInvStep == CaseInv /\ [CaseNext]_caseVars => CaseInv'
<1> SUFFICES ASSUME CaseInv, [CaseNext]_caseVars PROVE CaseInv'
  OBVIOUS
<1>1. CASE UNCHANGED caseVars
  <2>1. UNCHANGED <<watched, role, page, modal, rows, entry, muts, closed, numbers, started, faults,
                    overlapped, owed>>
    BY <1>1 DEF caseVars
  <2>2. CaseTypeOK'
    BY <2>1 DEF CaseInv, CaseTypeOK
  <2>3. QED
    BY <2>1, <2>2, CaseStill
<1>2. CASE \E p \in Pages, old \in Ages(entry) : Navigate(p, old)
  BY <1>2, NavigateKeeps
<1>3. CASE \E pan \in CasePanels, op \in CaseOps : Submit(pan, op)
  BY <1>3, SubmitKeeps
<1>4. CASE \E closing \in BOOLEAN : SelectStatus(closing)
  BY <1>4, SelectStatusKeeps
<1>5. CASE Confirm \/ Cancel
  BY <1>5, ConfirmKeeps, CancelKeeps
<1>6. CASE \E pan \in ListPanels, op \in CaseOps, k \in Pages : SubmitOnList(pan, op, k)
  BY <1>6, SubmitOnListKeeps
<1>7. CASE \E m \in muts : CaseAnswered(m) \/ RequestFails(m) \/ HandlerReads(m) \/ HandlerCommits(m)
  BY <1>7, CaseAnsweredKeeps, RequestFailsKeeps, HandlerReadsKeeps, HandlerCommitsKeeps
<1>8. CASE CaseListIsRead \/ CaseListArrives \/ CaseFetchFails \/ CasePoll
  BY <1>8, CaseListKeeps
<1>9. QED
  BY <1>1, <1>2, <1>3, <1>4, <1>5, <1>6, <1>7, <1>8 DEF CaseNext

(* So it holds of the case pages at all times.                               *)
LEMMA CaseInvariant == CaseSpec => []CaseInv
BY CaseInvInit, CaseInvStep, PTL DEF CaseSpec

(* What the cache holds as fresh is what a settled page shows, and a closed  *)
(* case has the verdict that was asked for.                                  *)
LEMMA CaseShows == CaseInv => OwnWriteShown /\ ClosedHasVerdict /\ NumbersDistinct
BY DEF CaseInv, OwedIsHeld, OwnWriteShown, Settled, ClosesJudged, ClosedHasVerdict

-----------------------------------------------------------------------------
(* Frontend: a behaviour of the app is one of each of its parts             *)

(* A step of one part is a step of that part, and none of the others.        *)
LEMMA OnePartSteps ==
    ASSUME [Next]_appVars
    PROVE  /\ [CaseNext]_caseVars /\ [DashNext]_dashVars /\ [FlowNext]_flowVars
           /\ [BenchNext]_benchVars /\ [AskNext]_askVars /\ [SignInNext]_signInVars
           /\ [MfaNext]_mfaVars /\ [DeskNext]_deskVars
<1>1. CASE UNCHANGED appVars
  BY <1>1 DEF appVars
<1>2. ASSUME NEW p, Only(p)
      PROVE  /\ p # "cases" => UNCHANGED caseVars
             /\ p # "dashboard" => UNCHANGED dashVars
             /\ p # "workflow" => UNCHANGED flowVars
             /\ p # "bench" => UNCHANGED benchVars
             /\ p # "ask" => UNCHANGED askVars
             /\ p # "signIn" => UNCHANGED signInVars
             /\ p # "mfa" => UNCHANGED mfaVars
             /\ p # "desks" => UNCHANGED deskVars
  BY <1>2 DEF Only
<1>3. CASE Only("cases") /\ CaseNext
  BY <1>2, <1>3
<1>4. CASE Only("dashboard") /\ DashNext
  BY <1>2, <1>4
<1>5. CASE Only("workflow") /\ FlowNext
  BY <1>2, <1>5
<1>6. CASE Only("bench") /\ BenchNext
  BY <1>2, <1>6
<1>7. CASE Only("ask") /\ AskNext
  BY <1>2, <1>7
<1>8. CASE Only("signIn") /\ SignInNext
  BY <1>2, <1>8
<1>9. CASE Only("mfa") /\ MfaNext
  BY <1>2, <1>9
<1>10. CASE Only("desks") /\ DeskNext
  BY <1>2, <1>10
<1>11. QED
  BY <1>1, <1>3, <1>4, <1>5, <1>6, <1>7, <1>8, <1>9, <1>10 DEF Next

(* Every behaviour of the app is one of each part: what is proved of a part  *)
(* holds of the app.                                                         *)
LEMMA PartsOfFrontend ==
    Spec => /\ CaseSpec /\ DashSpec /\ FlowSpec /\ BenchSpec
            /\ AskSpec /\ SignInSpec /\ MfaSpec /\ DeskSpec
<1>1. Init => /\ CaseInit /\ DashInit /\ FlowInit /\ BenchInit
              /\ AskInit /\ SignInInit /\ MfaInit /\ DeskInit
  BY DEF Init
<1>2. QED
  BY <1>1, OnePartSteps, PTL
     DEF Spec, CaseSpec, DashSpec, FlowSpec, BenchSpec, AskSpec, SignInSpec, MfaSpec, DeskSpec

(* A panel shows the answer to the last question asked in it, never an       *)
(* earlier one that came late, for any number of questions, lost or slow.    *)
THEOREM AnswersShownLast == Spec => []ShownAnswersLast
<1>1. AskInv => ShownAnswersLast
  BY DEF AskInv
<1>2. QED
  BY <1>1, AskInvariant, PartsOfFrontend, PTL

(* What is cached of a user is that of the one signed in, unless another     *)
(* session was left without loading the page, however sign-ins, sign-outs,   *)
(* expiries and late answers follow on each other.                           *)
THEOREM CacheStaysOwn == Spec => []CacheIsOwn
BY SignInCache, PartsOfFrontend, PTL

(* A session that begins is that of the user whose form was submitted last,  *)
(* unless an answer comes to a form left by the browser's own buttons.       *)
THEOREM SubmittedSignsIn == Spec => SignedInAsSubmitted
BY SignInSubmitted, PartsOfFrontend, PTL

(* A session that began with no request of an earlier one on its way ends    *)
(* by its own sign-out or because its own token was refused.                 *)
THEOREM SessionEndsItself == Spec => EndsByItself
BY SignInEnds, PartsOfFrontend, PTL

(* A change made on a page of lists or settings is in the list it belongs    *)
(* to, once nothing is under way, whichever page is open meanwhile; but not  *)
(* that of an alert whose page was turned to another one before its answer.  *)
THEOREM ChangesShown == Spec => []OwnChangeShown
BY DeskShows, PartsOfFrontend, PTL

(* An account that asks for a code asks for one of an app of the user: both  *)
(* browsers may set it up, take it away and reset it in any order, unless    *)
(* two handlers overlapped.                                                  *)
THEOREM AlwaysReachable == Spec => []StillReachable
<1>1. QED
  BY MfaInvariant, MfaShows, PartsOfFrontend, PTL

(* A backup code is accepted once, whatever was enrolled before or since,    *)
(* unless two handlers overlapped.                                           *)
THEOREM CodesOnce == Spec => []BackupCodesOnce
<1>1. QED
  BY MfaInvariant, MfaShows, PartsOfFrontend, PTL

(* The editor of parsers shows the text the store has for the selected       *)
(* parser, once nothing is under way, whatever was saved, deleted or         *)
(* generated on the way there.                                               *)
THEOREM EditorStaysTrue == Spec => []EditorMatchesStore
BY BenchInvariant, BenchShows, PartsOfFrontend, PTL

(* No dashboard takes up what belongs to another one, unless a save was      *)
(* answered on another dashboard's page.                                     *)
THEOREM DashboardsStayApart == Spec => []NoMixing
BY DashInvariant, DashShows, PartsOfFrontend, PTL

(* A save of a workflow that is sure drops no part of what is stored but     *)
(* those its user has taken off, with other tabs saving and deleting: sure   *)
(* is one whose page has fetched the workflow with nobody saving since.      *)
THEOREM WorkflowSavesKeep == Spec => []SavesKeep
<1>1. FlowInv => SavesKeep
  BY DEF FlowInv
<1>2. QED
  BY <1>1, FlowInvariant, PartsOfFrontend, PTL

(* A write of the user is in the list that shows it, once the page has       *)
(* settled: nothing the code follows up is lost to a late fetch, to a page   *)
(* left and found again, or to data taken for fresh.                         *)
THEOREM OwnWritesShown == Spec => []OwnWriteShown
BY CaseInvariant, CaseShows, PartsOfFrontend, PTL

(* No request of the pages leaves a case closed without a verdict, however   *)
(* old the page's view of the case, and however many requests are under way. *)
THEOREM ClosedWithVerdict == Spec => []ClosedHasVerdict
BY CaseInvariant, CaseShows, PartsOfFrontend, PTL

(* The cases a user without a tenant creates get numbers of their own, above *)
(* those there were, unless the handlers that made them overlapped: what is  *)
(* counted (create_case) has every case stored before.                       *)
THEOREM NumbersOfTheirOwn == Spec => []NumbersDistinct
BY CaseInvariant, CaseShows, PartsOfFrontend, PTL

(* Every variable of the app stays within its type.                          *)
THEOREM FrontendTypes == Spec => []TypeOK
<1>1. Spec => [](part \in AppParts)
  <2>1. Init => part \in AppParts
    BY DEF Init
  <2>2. part \in AppParts /\ [Next]_appVars => (part \in AppParts)'
    <3>1. UNCHANGED appVars => UNCHANGED part
      BY DEF appVars
    <3>2. \A p : Only(p) => UNCHANGED part
      BY DEF Only
    <3>3. QED
      BY <3>1, <3>2 DEF Next
  <2>3. QED
    BY <2>1, <2>2, PTL DEF Spec
<1>2. /\ CaseInv => CaseTypeOK
      /\ AskInv => AskTypeOK
      /\ SignInInv => SignInTypeOK
      /\ DeskInv => DeskTypeOK
      /\ MfaInv => MfaTypeOK
      /\ BenchInv => BenchTypeOK
      /\ FlowInv => FlowTypeOK
  BY DEF CaseInv, AskInv, SignInInv, DeskInv, MfaInv, BenchInv, FlowInv
<1>3. (part \in AppParts) /\ CaseTypeOK /\ DashTypeOK /\ FlowTypeOK /\ BenchTypeOK /\ AskTypeOK
        /\ SignInTypeOK /\ MfaTypeOK /\ DeskTypeOK => TypeOK
  BY DEF TypeOK
<1>4. QED
  BY <1>1, <1>2, <1>3, CaseInvariant, DashInvariant, DashShows, FlowInvariant, BenchInvariant,
     AskInvariant, SignInInvariant, MfaInvariant, DeskInvariant, PartsOfFrontend, PTL
===============================================================================

