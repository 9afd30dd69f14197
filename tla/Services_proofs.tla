-------------------------- MODULE Services_proofs ---------------------------
(***************************************************************************)
(* Theorems about the components that Services runs side by side: those    *)
(* about permissions, background jobs, copies between stores, streams of   *)
(* the model, turns of the agent and the requests on sessions, and the     *)
(* properties of the composition, from these and the theorems about who    *)
(* waits and what is kept.                                                 *)
(***************************************************************************)
EXTENDS Services, Waiting_proofs, Kept_proofs

-----------------------------------------------------------------------------
(***************************************************************************)
(* Permissions: the last reply decides, and who waits is listed.           *)
(***************************************************************************)

\* The place of the rule that settles the session s: the last one that
\* matches, with the effect e.
Settles(list, s, e) ==
  \E i \in Matching(list, s) : list[i].effect = e /\ \A j \in Matching(list, s) : j <= i

PermInv ==
  /\ PermTypeOK
  /\ WaitersAreListed
  /\ \A s \in PermSessions : ruling[s] # "none" => Settles(rules, s, ruling[s])

\* The rule at the last of the places that match is the one that decides.
LEMMA SettledIsDecided ==
  ASSUME NEW s, NEW e, rules \in Seq(Rules), Settles(rules, s, e)
  PROVE  Evaluate(s) = e
<1>1. PICK i \in Matching(rules, s) :
        rules[i].effect = e /\ \A j \in Matching(rules, s) : j <= i
  BY DEF Settles
<1>2. /\ Matching(rules, s) \subseteq 1 .. Len(rules) /\ Len(rules) \in Nat
      /\ InForce(rules, s) = Matching(rules, s)
  BY <1>1, LenProperties DEF Matching, InForce
<1> DEFINE m == Max(Matching(rules, s))
<1>3. m \in Matching(rules, s) /\ \A j \in Matching(rules, s) : m >= j
  BY <1>1, <1>2 DEF Max
<1> HIDE DEF m
<1>4. m = i
  BY <1>1, <1>2, <1>3
<1> QED
  BY <1>1, <1>2, <1>4 DEF Evaluate, m

\* A row that is added settles its session when it is about the requests, and
\* no other session.
LEMMA SaveSettles ==
  ASSUME NEW list \in Seq(Rules), NEW r \in Rules
  PROVE  /\ Append(list, r) \in Seq(Rules)
         /\ r.about = "it" => Settles(Append(list, r), r.session, r.effect)
         /\ \A s, e : s # r.session /\ Settles(list, s, e) => Settles(Append(list, r), s, e)
<1> DEFINE n == Len(list)
           new == Append(list, r)
<1>1. /\ n \in Nat /\ new \in Seq(Rules) /\ DOMAIN list = 1 .. n /\ DOMAIN new = 1 .. (n + 1)
      /\ \A i \in 1 .. n : new[i] = list[i]
      /\ new[n + 1] = r
  BY LenProperties, AppendProperties
<1> HIDE DEF n, new
<1>2. \A s : s # r.session => Matching(new, s) = Matching(list, s)
  BY <1>1 DEF Matching
<1>3. ASSUME r.about = "it" PROVE Settles(new, r.session, r.effect)
  <2>1. n + 1 \in Matching(new, r.session) /\ new[n + 1].effect = r.effect
    BY <1>1, <1>3 DEF Matching
  <2>2. \A j \in Matching(new, r.session) : j <= n + 1
    BY <1>1 DEF Matching
  <2> QED
    BY <2>1, <2>2 DEF Settles
<1>4. ASSUME NEW s, NEW e, s # r.session, Settles(list, s, e) PROVE Settles(new, s, e)
  <2>1. \A i \in Matching(list, s) : new[i] = list[i]
    BY <1>1 DEF Matching
  <2> QED
    BY <1>2, <1>4, <2>1 DEF Settles
<1> QED
  BY <1>1, <1>3, <1>4 DEF new

\* What happens to a row of one session leaves the others settled: the row is
\* replaced by one of the same session ...
LEMMA ChangeSettles ==
  ASSUME NEW list \in Seq(Rules), NEW i \in DOMAIN list, NEW r \in Rules,
         r.session = list[i].session
  PROVE  /\ [list EXCEPT ![i] = r] \in Seq(Rules)
         /\ \A s, e : s # list[i].session /\ Settles(list, s, e) =>
              Settles([list EXCEPT ![i] = r], s, e)
<1> DEFINE new == [list EXCEPT ![i] = r]
<1>1. /\ new \in Seq(Rules) /\ DOMAIN new = DOMAIN list
      /\ \A j \in DOMAIN list : j # i => new[j] = list[j]
      /\ new[i] = r
  BY LenProperties, ExceptSeq
<1> HIDE DEF new
<1>2. ASSUME NEW s, NEW e, s # list[i].session, Settles(list, s, e) PROVE Settles(new, s, e)
  <2>1. Matching(new, s) = Matching(list, s)
    BY <1>1, <1>2 DEF Matching
  <2>2. \A j \in Matching(list, s) : new[j] = list[j]
    BY <1>1, <1>2 DEF Matching
  <2> QED
    BY <1>2, <2>1, <2>2 DEF Settles
<1> QED
  BY <1>1, <1>2 DEF new

\* ... or list of it are taken out.
LEMMA KeepSettles ==
  ASSUME NEW list \in Seq(Rules), NEW W \in SUBSET DOMAIN list, NEW s, NEW e,
         Settles(list, s, e), Matching(list, s) \subseteq W
  PROVE  Settles(ItemsAt(list, W), s, e)
<1> DEFINE new == ItemsAt(list, W)
           c == Cardinality(W)
<1>1. /\ c \in Nat /\ new \in Seq(Rules) /\ Len(new) = c
      /\ \A k \in 1 .. c : PlaceIn(W, k) \in W /\ new[k] = list[PlaceIn(W, k)]
      /\ \A k, l \in 1 .. c : k < l => PlaceIn(W, k) < PlaceIn(W, l)
      /\ \A k \in W : \E l \in 1 .. c : PlaceIn(W, l) = k
  BY KeptItems
<1>2. DOMAIN new = 1 .. c
  BY <1>1, LenProperties
<1>3. Len(list) \in Nat /\ W \subseteq 1 .. Len(list)
  BY LenProperties
<1> HIDE DEF new, c
<1>4. PICK i \in Matching(list, s) :
        list[i].effect = e /\ \A j \in Matching(list, s) : j <= i
  BY DEF Settles
<1>5. PICK k \in 1 .. c : PlaceIn(W, k) = i
  BY <1>1, <1>4
<1>6. k \in Matching(new, s) /\ new[k].effect = e
  BY <1>1, <1>2, <1>4, <1>5 DEF Matching
<1>7. ASSUME NEW l \in Matching(new, s) PROVE l <= k
  <2>1. l \in 1 .. c /\ PlaceIn(W, l) \in Matching(list, s)
    BY <1>1, <1>2, <1>7 DEF Matching
  <2>2. PlaceIn(W, l) <= PlaceIn(W, k)
    BY <1>4, <1>5, <2>1
  <2>3. PlaceIn(W, l) \in 1 .. Len(list) /\ PlaceIn(W, k) \in 1 .. Len(list)
    BY <1>1, <1>3, <2>1
  <2> QED
    BY <1>1, <1>3, <2>1, <2>2, <2>3
<1> QED
  BY <1>6, <1>7 DEF Settles, new

LEMMA PermStart == PermInit => PermInv
BY DEF PermInit, PermInv, PermTypeOK, WaitersAreListed

\* The rules and the rulings agree after every step that changes them.
RulingsHold ==
  /\ rules' \in Seq(Rules)
  /\ ruling' \in [PermSessions -> Effects \cup {"none"}]
  /\ \A s \in PermSessions : ruling'[s] # "none" => Settles(rules', s, ruling'[s])

\* A step unsettles the sessions it is about, and leaves the others settled.
LEMMA UnsettledHold ==
  ASSUME PermInv, NEW ss, Unsettle(ss), rules' \in Seq(Rules),
         \A s \in PermSessions : \A e : s \notin ss /\ Settles(rules, s, e) => Settles(rules', s, e)
  PROVE  RulingsHold
<1>1. /\ ruling \in [PermSessions -> Effects \cup {"none"}]
      /\ ruling' = [s \in PermSessions |-> IF s \in ss THEN "none" ELSE ruling[s]]
  BY DEF PermInv, PermTypeOK, Unsettle
<1>2. \A s \in PermSessions : ruling[s] # "none" => Settles(rules, s, ruling[s])
  BY DEF PermInv
<1>3. ruling' \in [PermSessions -> Effects \cup {"none"}]
  BY <1>1
<1>4. ASSUME NEW s \in PermSessions, ruling'[s] # "none" PROVE Settles(rules', s, ruling'[s])
  <2>1. s \notin ss /\ ruling'[s] = ruling[s] /\ ruling[s] # "none"
    BY <1>1, <1>4
  <2> QED
    BY <1>2, <2>1
<1> QED
  BY <1>3, <1>4 DEF RulingsHold

\* A row about the requests, or about everything, of nobody's session.
LEMMA GlobalSaveHolds ==
  ASSUME PermInv, NEW r \in Rules, r.session = Global, Save(r), UNCHANGED ruling
  PROVE  RulingsHold
<1>1. rules \in Seq(Rules) /\ rules' = Append(rules, r)
  BY DEF PermInv, PermTypeOK, Save
<1>2. \A s \in PermSessions : s # r.session
  BY PermAssumption
<1> QED
  BY <1>1, <1>2, SaveSettles DEF RulingsHold, PermInv, PermTypeOK

LEMMA SameRulesHold ==
  ASSUME PermInv, UNCHANGED <<rules, ruling>>
  PROVE  RulingsHold
BY DEF PermInv, PermTypeOK, RulingsHold

LEMMA PermStep == PermInv /\ [PermNext]_permVars => PermInv'
<1> SUFFICES ASSUME PermInv, [PermNext]_permVars PROVE PermInv'
  OBVIOUS
<1>0. PermTypeOK /\ WaitersAreListed /\ rules \in Seq(Rules)
  BY DEF PermInv, PermTypeOK
<1> DEFINE TasksHold == /\ asked' \in [Asks -> {"new", "request", "question", "replying", "storing", "done", "lost"}]
                        /\ asker' \in [Asks -> PermSessions]
                        /\ waiter' \in [Asks -> {"none", "waiting", "resolved", "answered", "rejected", "cancelled"}]
                        /\ WaitersAreListed'
<1>1. ASSUME RulingsHold, TasksHold PROVE PermInv'
  BY <1>1 DEF RulingsHold, PermInv, PermTypeOK
<1>2. ASSUME UNCHANGED <<asked, asker, waiter>> PROVE TasksHold
  BY <1>0, <1>2 DEF PermTypeOK, WaitersAreListed
<1> DEFINE row(a, e) == [session |-> asker[a], about |-> "it", effect |-> e]
<1>3. \A a \in Asks : \A e \in Effects :
        row(a, e) \in Rules /\ row(a, e).session = asker[a] /\ row(a, e).about = "it"
                            /\ row(a, e).effect = e
  BY <1>0 DEF PermTypeOK, Rules
<1>4. CASE CreateRule
  <2>1. PICK r \in Rules : r.session = Global /\ Save(r)
    BY <1>4 DEF CreateRule
  <2>2. UNCHANGED <<asked, asker, waiter, ruling>>
    BY <1>4 DEF CreateRule
  <2>3. RulingsHold
    BY <2>1, <2>2, GlobalSaveHolds
  <2> QED
    BY <1>1, <1>2, <2>2, <2>3
<1>5. CASE ChangeRule
  <2>1. PICK i \in DOMAIN rules :
          /\ \/ rules' = ItemsAt(rules, DOMAIN rules \ {i})
             \/ \E r \in Rules : r.session = rules[i].session /\ rules' = [rules EXCEPT ![i] = r]
          /\ Unsettle({rules[i].session})
    BY <1>5 DEF ChangeRule
  <2>2. UNCHANGED <<asked, asker, waiter>>
    BY <1>5 DEF ChangeRule
  <2> DEFINE ss == {rules[i].session}
  <2>0. Unsettle(ss)
    BY <2>1
  <2>3. ASSUME rules' = ItemsAt(rules, DOMAIN rules \ {i}) PROVE RulingsHold
    <3>1. rules' \in Seq(Rules)
      BY <1>0, <2>3, KeptItems
    <3>2. \A s : s # rules[i].session => Matching(rules, s) \subseteq DOMAIN rules \ {i}
      BY DEF Matching
    <3>3. \A s \in PermSessions : \A e :
            s \notin ss /\ Settles(rules, s, e) => Settles(rules', s, e)
      BY <1>0, <2>3, <3>2, KeepSettles
    <3> HIDE DEF ss
    <3> QED
      BY <2>0, <3>1, <3>3, UnsettledHold
  <2>4. ASSUME \E r \in Rules : r.session = rules[i].session /\ rules' = [rules EXCEPT ![i] = r]
        PROVE  RulingsHold
    <3>1. PICK r \in Rules : r.session = rules[i].session /\ rules' = [rules EXCEPT ![i] = r]
      BY <2>4
    <3>2. /\ rules' \in Seq(Rules)
          /\ \A s, e : s # rules[i].session /\ Settles(rules, s, e) => Settles(rules', s, e)
      BY <1>0, <3>1, ChangeSettles
    <3>3. \A s \in PermSessions : \A e :
            s \notin ss /\ Settles(rules, s, e) => Settles(rules', s, e)
      BY <3>2
    <3> HIDE DEF ss
    <3> QED
      BY <2>0, <3>2, <3>3, UnsettledHold
  <2> QED
    BY <1>1, <1>2, <2>1, <2>2, <2>3, <2>4
<1>6. CASE ClearRules
  <2>1. UNCHANGED <<asked, asker, waiter>>
    BY <1>6 DEF ClearRules
  <2>2. ASSUME NEW t \in PermSessions,
               rules' = ItemsAt(rules, {i \in DOMAIN rules : rules[i].session # t}),
               Unsettle({t})
        PROVE  RulingsHold
    <3> DEFINE W == {i \in DOMAIN rules : rules[i].session # t}
    <3>0. W \in SUBSET DOMAIN rules /\ rules' = ItemsAt(rules, W)
      BY <2>2
    <3>1. \A s : s # t => Matching(rules, s) \subseteq W
      BY DEF Matching
    <3> HIDE DEF W
    <3>2. rules' \in Seq(Rules)
      BY <1>0, <3>0, KeptItems
    <3>3. \A s \in PermSessions : \A e :
            s \notin {t} /\ Settles(rules, s, e) => Settles(rules', s, e)
      BY <1>0, <3>0, <3>1, KeepSettles
    <3> QED
      BY <2>2, <3>2, <3>3, UnsettledHold
  <2>3. ASSUME rules' = <<>>, Unsettle(PermSessions) PROVE RulingsHold
    <3>1. rules' \in Seq(Rules)
      BY <2>3, EmptySeq
    <3>2. \A s \in PermSessions : \A e :
            s \notin PermSessions /\ Settles(rules, s, e) => Settles(rules', s, e)
      OBVIOUS
    <3> QED
      BY <2>3, <3>1, <3>2, UnsettledHold
  <2> QED
    BY <1>1, <1>2, <1>6, <2>1, <2>2, <2>3 DEF ClearRules
<1>7. CASE Reject
  <2>1. RulingsHold
    BY <1>7, SameRulesHold DEF Reject
  <2>2. TasksHold
    BY <1>0, <1>7 DEF Reject, Ended, PermTypeOK, WaitersAreListed
  <2> QED
    BY <1>1, <2>1, <2>2
<1>8. ASSUME NEW a \in Asks, AskPermission(a) \/ Reply(a) PROVE PermInv'
  <2>1. RulingsHold
    BY <1>8, SameRulesHold DEF AskPermission, Reply
  <2>2. TasksHold
    BY <1>0, <1>8 DEF AskPermission, Reply, PermTypeOK, WaitersAreListed
  <2> QED
    BY <1>1, <2>1, <2>2
<1>9. ASSUME NEW a \in Asks, StoreReply(a) PROVE PermInv'
  <2>1. PICK e \in Effects : Save(row(a, e)) /\ ruling' = [ruling EXCEPT ![asker[a]] = e]
    BY <1>9 DEF StoreReply
  <2>2. asker[a] \in PermSessions /\ ruling \in [PermSessions -> Effects \cup {"none"}]
    BY <1>0 DEF PermTypeOK
  <2>3. rules' = Append(rules, row(a, e))
    BY <2>1 DEF Save
  <2> HIDE DEF row
  <2>4. /\ rules' \in Seq(Rules)
        /\ Settles(rules', asker[a], e)
        /\ \A s : \A f : s # asker[a] /\ Settles(rules, s, f) => Settles(rules', s, f)
    BY <1>0, <1>3, <2>3, SaveSettles
  <2>5. ruling' \in [PermSessions -> Effects \cup {"none"}]
    BY <2>1, <2>2
  <2>6. ASSUME NEW s \in PermSessions, ruling'[s] # "none" PROVE Settles(rules', s, ruling'[s])
    <3>1. CASE s = asker[a]
      BY <2>1, <2>2, <2>4, <3>1
    <3>2. CASE s # asker[a]
      <4>1. ruling'[s] = ruling[s]
        BY <2>1, <2>2, <3>2
      <4> QED
        BY <2>4, <2>6, <3>2, <4>1 DEF PermInv
    <3> QED
      BY <3>1, <3>2
  <2>7. RulingsHold
    BY <2>4, <2>5, <2>6 DEF RulingsHold
  <2>8. TasksHold
    BY <1>0, <1>9 DEF StoreReply, PermTypeOK, WaitersAreListed
  <2> QED
    BY <1>1, <2>7, <2>8
<1>10. ASSUME NEW a \in Asks, StoreFails(a) PROVE PermInv'
  <2>1. RulingsHold
    <3>1. CASE UNCHANGED <<rules, ruling>>
      BY <3>1, SameRulesHold
    <3>2. CASE \E e \in Effects : Save(row(a, e)) /\ Unsettle({asker[a]})
      <4>1. PICK e \in Effects : Save(row(a, e)) /\ Unsettle({asker[a]})
        BY <3>2
      <4>2. rules' = Append(rules, row(a, e))
        BY <4>1 DEF Save
      <4> HIDE DEF row
      <4>3. /\ rules' \in Seq(Rules)
            /\ \A s : \A f : s # asker[a] /\ Settles(rules, s, f) => Settles(rules', s, f)
        BY <1>0, <1>3, <4>2, SaveSettles
      <4> QED
        BY <4>1, <4>3, UnsettledHold
    <3> QED
      BY <1>10, <3>1, <3>2 DEF StoreFails
  <2>2. TasksHold
    BY <1>0, <1>10 DEF StoreFails, PermTypeOK, WaitersAreListed
  <2> QED
    BY <1>1, <2>1, <2>2
<1>11. ASSUME NEW a \in Asks, Register(a) \/ Resolve(a) \/ CancelWaiter(a) \/ Resume(a)
       PROVE  PermInv'
  <2>1. RulingsHold
    BY <1>11, SameRulesHold DEF Register, Resolve, CancelWaiter, Resume
  <2>2. CASE Register(a)
    BY <1>0, <1>1, <2>1, <2>2 DEF Register, PermTypeOK, WaitersAreListed, TasksHold
  <2>3. CASE Resolve(a)
    BY <1>0, <1>1, <2>1, <2>3 DEF Resolve, PermTypeOK, WaitersAreListed, TasksHold
  <2>4. CASE CancelWaiter(a)
    BY <1>0, <1>1, <2>1, <2>4 DEF CancelWaiter, PermTypeOK, WaitersAreListed, TasksHold
  <2>5. CASE Resume(a)
    BY <1>0, <1>1, <2>1, <2>5 DEF Resume, PermTypeOK, WaitersAreListed, TasksHold
  <2> QED
    BY <1>11, <2>2, <2>3, <2>4, <2>5
<1>12. ASSUME NEW a \in Asks, StoreAlwaysAllow(a) PROVE PermInv'
  <2> DEFINE r == [session |-> Global, about |-> "all", effect |-> "allow"]
  <2>1. r \in Rules /\ r.session = Global
    BY DEF Rules, Effects
  <2>2. (Save(r) \/ UNCHANGED rules) /\ UNCHANGED <<asker, waiter, ruling>>
    BY <1>12 DEF StoreAlwaysAllow
  <2> HIDE DEF r
  <2>3. RulingsHold
    BY <2>1, <2>2, GlobalSaveHolds, SameRulesHold
  <2>4. TasksHold
    BY <1>0, <1>12 DEF StoreAlwaysAllow, PermTypeOK, WaitersAreListed
  <2> QED
    BY <1>1, <2>3, <2>4
<1>13. CASE UNCHANGED permVars
  BY <1>1, <1>2, <1>13, SameRulesHold DEF permVars
<1> QED
  BY <1>4, <1>5, <1>6, <1>7, <1>8, <1>9, <1>10, <1>11, <1>12, <1>13 DEF PermNext

LEMMA PermHolds == PermInv => LastReplyDecides /\ WaitersAreListed
<1>1. ASSUME PermInv, NEW s \in PermSessions, ruling[s] # "none" PROVE Evaluate(s) = ruling[s]
  BY <1>1, SettledIsDecided DEF PermInv, PermTypeOK
<1> QED
  BY <1>1 DEF PermInv, LastReplyDecides

(***************************************************************************)
(* Whatever rules come, change and go, and however many wait for a reply:  *)
(* the effect of the last reply is in force, and who waits is listed.      *)
(***************************************************************************)
THEOREM PermissionsHold == PermSpec => [](LastReplyDecides /\ WaitersAreListed)
<1>1. PermSpec => []PermInv
  BY PermStart, PermStep, PTL DEF PermSpec
<1> QED
  BY <1>1, PermHolds, PTL
-----------------------------------------------------------------------------
(***************************************************************************)
(* BackgroundJobs: a job settles once.                                     *)
(***************************************************************************)
JobTypes ==
  /\ jobStatus \in [Jobs -> {"new", "pending", "running", "completed", "failed", "cancelled"}]
  /\ workerTask \in WorkerIds \cup {0} /\ stopping \in WorkerIds \cup {0}
  /\ workers \in [WorkerIds -> {"none", "top", "waiting", "handler", "over"}]
  /\ executing \in [WorkerIds -> Jobs \cup {NoJob}] /\ settled \subseteq Jobs

InHandler(j) == \E w \in WorkerIds : executing[w] = j

\* A job that was enqueued is in one place, and a worker in a handler has one.
PlacesInv ==
  /\ OneByOne(Jobs, jobQueue)
  /\ \A w \in WorkerIds : executing[w] # NoJob <=> workers[w] = "handler"
  /\ \A v, w \in WorkerIds : executing[v] # NoJob /\ executing[v] = executing[w] => v = w
  /\ \A j \in Jobs :
       /\ InLine(jobQueue, j) => ~InHandler(j)
       /\ j \in settled => ~InLine(jobQueue, j) /\ ~InHandler(j)
       /\ jobStatus[j] # "new" <=> InLine(jobQueue, j) \/ InHandler(j) \/ j \in settled
       /\ j \in settled => jobStatus[j] \in {"completed", "failed", "cancelled"}

JobInv == JobTypes /\ PlacesInv

LEMMA JobStart == JobInit => JobInv
<1> SUFFICES ASSUME JobInit PROVE JobInv
  OBVIOUS
<1>1. <<>> \in Seq(Jobs) /\ Len(<<>>) = 0
  BY EmptySeq
<1>2. JobTypes
  BY DEF JobInit, JobTypes
<1>3. \A j \in Jobs : ~InLine(jobQueue, j) /\ ~InHandler(j) /\ j \notin settled
  BY <1>1, BackgroundJobsAssumption DEF JobInit, InLine, InHandler
<1>4. OneByOne(Jobs, jobQueue)
  BY <1>1 DEF JobInit, OneByOne
<1> QED
  BY <1>2, <1>3, <1>4 DEF JobInit, JobInv, PlacesInv

\* The execution of a job ends.
LEMMA FinishHolds ==
  ASSUME JobInv, NEW w \in WorkerIds, workers[w] = "handler",
         NEW status \in {"completed", "failed", "cancelled"}, Finish(w, status),
         UNCHANGED jobQueue, workerTask' \in WorkerIds \cup {0}, stopping' \in WorkerIds \cup {0}
  PROVE  JobInv'
<1>0. JobTypes /\ PlacesInv
  BY DEF JobInv
<1> DEFINE j == executing[w]
<1>1. j \in Jobs
  BY <1>0 DEF JobTypes, PlacesInv
<1>2. /\ jobStatus' = [jobStatus EXCEPT ![j] = status] /\ settled' = settled \cup {j}
      /\ executing' = [executing EXCEPT ![w] = NoJob] /\ workers' = [workers EXCEPT ![w] = "top"]
  BY DEF Finish
<1>3. JobTypes'
  BY <1>0, <1>1, <1>2 DEF JobTypes
<1>4. /\ executing'[w] = NoJob /\ \A v \in WorkerIds \ {w} : executing'[v] = executing[v]
      /\ workers'[w] = "top" /\ \A v \in WorkerIds \ {w} : workers'[v] = workers[v]
      /\ jobStatus'[j] = status /\ \A i \in Jobs \ {j} : jobStatus'[i] = jobStatus[i]
  BY <1>0, <1>1, <1>2 DEF JobTypes
<1>5. \A i \in Jobs : InHandler(i)' <=> InHandler(i) /\ i # j
  BY <1>0, <1>1, <1>4, BackgroundJobsAssumption DEF InHandler, PlacesInv
<1>6. InHandler(j) /\ ~InLine(jobQueue, j) /\ j \notin settled
  BY <1>0, <1>1 DEF InHandler, PlacesInv
<1>7. \A v \in WorkerIds : executing'[v] # NoJob <=> workers'[v] = "handler"
  BY <1>0, <1>4 DEF PlacesInv
<1>8. \A u, v \in WorkerIds : executing'[u] # NoJob /\ executing'[u] = executing'[v] => u = v
  BY <1>0, <1>4 DEF PlacesInv
<1> HIDE DEF j
<1>9. ASSUME NEW i \in Jobs
      PROVE  /\ InLine(jobQueue, i) => ~InHandler(i)'
             /\ i \in settled' => ~InLine(jobQueue, i) /\ ~InHandler(i)'
             /\ jobStatus'[i] # "new" <=> InLine(jobQueue, i) \/ InHandler(i)' \/ i \in settled'
             /\ i \in settled' => jobStatus'[i] \in {"completed", "failed", "cancelled"}
  <2>1. /\ InLine(jobQueue, i) => ~InHandler(i)
        /\ i \in settled => ~InLine(jobQueue, i) /\ ~InHandler(i)
        /\ jobStatus[i] # "new" <=> InLine(jobQueue, i) \/ InHandler(i) \/ i \in settled
        /\ i \in settled => jobStatus[i] \in {"completed", "failed", "cancelled"}
    BY <1>0 DEF PlacesInv
  <2>2. CASE i = j
    BY <1>2, <1>4, <1>5, <1>6, <2>2
  <2>3. CASE i # j
    BY <1>2, <1>4, <1>5, <2>1, <2>3
  <2> QED
    BY <2>2, <2>3
<1> QED
  BY <1>0, <1>3, <1>7, <1>8, <1>9 DEF JobInv, PlacesInv

\* The jobs and their places stay, and workers go on that have none.
LEMMA PlacesStay ==
  ASSUME JobInv, JobTypes', UNCHANGED <<jobQueue, executing, settled>>,
         \A w \in WorkerIds : workers'[w] = "handler" <=> workers[w] = "handler",
         \A j \in Jobs : /\ jobStatus'[j] = "new" <=> jobStatus[j] = "new"
                         /\ j \in settled => jobStatus'[j] = jobStatus[j]
  PROVE  JobInv'
<1>1. \A j \in Jobs : InHandler(j)' <=> InHandler(j)
  BY DEF InHandler
<1> QED
  BY <1>1 DEF JobInv, PlacesInv

LEMMA EnqueueHolds ==
  ASSUME JobInv, NEW j \in Jobs, EnqueueJob(j)
  PROVE  JobInv'
<1>0. JobTypes /\ PlacesInv
  BY DEF JobInv
<1>1. /\ jobStatus[j] = "new" /\ jobStatus' = [jobStatus EXCEPT ![j] = "pending"]
      /\ jobQueue' = Append(jobQueue, j)
      /\ UNCHANGED <<workerTask, workers, executing, stopping, settled>>
  BY DEF EnqueueJob
<1>2. JobTypes'
  BY <1>0, <1>1 DEF JobTypes
<1>3. ~InLine(jobQueue, j) /\ ~InHandler(j) /\ j \notin settled /\ OneByOne(Jobs, jobQueue)
  BY <1>0, <1>1 DEF PlacesInv
<1>4. /\ OneByOne(Jobs, jobQueue')
      /\ \A x : InLine(jobQueue', x) <=> InLine(jobQueue, x) \/ x = j
  BY <1>1, <1>3, LineGrows
<1>5. jobStatus'[j] = "pending" /\ \A i \in Jobs \ {j} : jobStatus'[i] = jobStatus[i]
  BY <1>0, <1>1 DEF JobTypes
<1>6. \A i \in Jobs : InHandler(i)' <=> InHandler(i)
  BY <1>1 DEF InHandler
<1>7. ASSUME NEW i \in Jobs
      PROVE  /\ InLine(jobQueue', i) => ~InHandler(i)'
             /\ i \in settled' => ~InLine(jobQueue', i) /\ ~InHandler(i)'
             /\ jobStatus'[i] # "new" <=> InLine(jobQueue', i) \/ InHandler(i)' \/ i \in settled'
             /\ i \in settled' => jobStatus'[i] \in {"completed", "failed", "cancelled"}
  <2>1. /\ InLine(jobQueue, i) => ~InHandler(i)
        /\ i \in settled => ~InLine(jobQueue, i) /\ ~InHandler(i)
        /\ jobStatus[i] # "new" <=> InLine(jobQueue, i) \/ InHandler(i) \/ i \in settled
        /\ i \in settled => jobStatus[i] \in {"completed", "failed", "cancelled"}
    BY <1>0 DEF PlacesInv
  <2>2. CASE i = j
    BY <1>1, <1>3, <1>4, <1>5, <1>6, <2>2
  <2>3. CASE i # j
    BY <1>1, <1>4, <1>5, <1>6, <2>1, <2>3
  <2> QED
    BY <2>2, <2>3
<1>8. /\ \A w \in WorkerIds : executing'[w] # NoJob <=> workers'[w] = "handler"
      /\ \A v, w \in WorkerIds : executing'[v] # NoJob /\ executing'[v] = executing'[w] => v = w
  BY <1>0, <1>1 DEF PlacesInv
<1> QED
  BY <1>2, <1>4, <1>7, <1>8 DEF JobInv, PlacesInv

\* The head of the queue goes to a worker, or is settled at once.
LEMMA TakeHolds ==
  ASSUME JobInv, NEW w \in WorkerIds, TakeJob(w)
  PROVE  JobInv'
<1>0. JobTypes /\ PlacesInv
  BY DEF JobInv
<1> DEFINE j == Head(jobQueue)
<1>1. /\ workers[w] = "waiting" /\ jobQueue # <<>> /\ jobQueue' = Tail(jobQueue)
      /\ UNCHANGED <<workerTask, stopping>>
      /\ \/ /\ jobStatus' = [jobStatus EXCEPT ![j] = "running"]
            /\ executing' = [executing EXCEPT ![w] = j]
            /\ workers' = [workers EXCEPT ![w] = "handler"]
            /\ UNCHANGED settled
         \/ /\ jobStatus' = [jobStatus EXCEPT ![j] = "failed"]
            /\ settled' = settled \cup {j}
            /\ workers' = [workers EXCEPT ![w] = "top"]
            /\ UNCHANGED executing
  BY DEF TakeJob
<1>2. /\ OneByOne(Jobs, jobQueue') /\ j \in Jobs /\ InLine(jobQueue, j)
      /\ \A x : InLine(jobQueue', x) <=> InLine(jobQueue, x) /\ x # j
  BY <1>0, <1>1, HeadLeaves DEF PlacesInv
<1> HIDE DEF j
<1>3. ~InHandler(j) /\ j \notin settled /\ executing[w] = NoJob /\ j # NoJob
  BY <1>0, <1>1, <1>2, BackgroundJobsAssumption DEF PlacesInv
<1>4. JobTypes'
  BY <1>0, <1>1, <1>2 DEF JobTypes
<1>5. jobStatus'[j] \in {"running", "failed"} /\ \A i \in Jobs \ {j} : jobStatus'[i] = jobStatus[i]
  BY <1>0, <1>1, <1>2 DEF JobTypes
<1>6. \/ /\ \A i \in Jobs : InHandler(i)' <=> InHandler(i) \/ i = j
         /\ settled' = settled
         /\ executing'[w] = j /\ workers'[w] = "handler"
      \/ /\ \A i \in Jobs : InHandler(i)' <=> InHandler(i)
         /\ settled' = settled \cup {j} /\ jobStatus'[j] = "failed"
         /\ executing'[w] = NoJob /\ workers'[w] = "top"
  BY <1>0, <1>1, <1>2, <1>3, BackgroundJobsAssumption DEF JobTypes, InHandler
<1>7. \A v \in WorkerIds \ {w} : executing'[v] = executing[v] /\ workers'[v] = workers[v]
  BY <1>0, <1>1 DEF JobTypes
<1>8. /\ \A v \in WorkerIds : executing'[v] # NoJob <=> workers'[v] = "handler"
      /\ \A u, v \in WorkerIds : executing'[u] # NoJob /\ executing'[u] = executing'[v] => u = v
  <2>1. \A v \in WorkerIds : executing[v] # j
    BY <1>3 DEF InHandler
  <2> QED
    BY <1>0, <1>3, <1>6, <1>7, <2>1 DEF PlacesInv
<1>9. ASSUME NEW i \in Jobs
      PROVE  /\ InLine(jobQueue', i) => ~InHandler(i)'
             /\ i \in settled' => ~InLine(jobQueue', i) /\ ~InHandler(i)'
             /\ jobStatus'[i] # "new" <=> InLine(jobQueue', i) \/ InHandler(i)' \/ i \in settled'
             /\ i \in settled' => jobStatus'[i] \in {"completed", "failed", "cancelled"}
  <2>1. /\ InLine(jobQueue, i) => ~InHandler(i)
        /\ i \in settled => ~InLine(jobQueue, i) /\ ~InHandler(i)
        /\ jobStatus[i] # "new" <=> InLine(jobQueue, i) \/ InHandler(i) \/ i \in settled
        /\ i \in settled => jobStatus[i] \in {"completed", "failed", "cancelled"}
    BY <1>0 DEF PlacesInv
  <2>2. CASE i = j
    BY <1>2, <1>3, <1>5, <1>6, <2>2
  <2>3. CASE i # j
    BY <1>2, <1>5, <1>6, <2>1, <2>3
  <2> QED
    BY <2>2, <2>3
<1> QED
  BY <1>2, <1>4, <1>8, <1>9 DEF JobInv, PlacesInv

LEMMA JobStep == JobInv /\ [JobNext]_jobVars => JobInv'
<1> SUFFICES ASSUME JobInv, [JobNext]_jobVars PROVE JobInv'
  OBVIOUS
<1>0. JobTypes /\ PlacesInv
  BY DEF JobInv
<1>1. ASSUME NEW j \in Jobs, CancelJob(j) PROVE JobInv'
  <2>1. /\ JobTypes' /\ UNCHANGED <<jobQueue, workers, executing, settled>>
        /\ \A i \in Jobs \ {j} : jobStatus'[i] = jobStatus[i]
        /\ jobStatus[j] \in {"pending", "running"} /\ jobStatus'[j] = "cancelled"
    BY <1>0, <1>1 DEF CancelJob, JobTypes
  <2>2. j \notin settled
    BY <1>0, <2>1 DEF PlacesInv
  <2>3. \A i \in Jobs : /\ jobStatus'[i] = "new" <=> jobStatus[i] = "new"
                        /\ i \in settled => jobStatus'[i] = jobStatus[i]
    BY <2>1, <2>2
  <2> QED
    BY <2>1, <2>3, PlacesStay
<1>2. CASE StartWorker
  <2>1. /\ JobTypes' /\ UNCHANGED <<jobStatus, jobQueue, executing, settled>>
        /\ \A w \in WorkerIds : workers'[w] = "handler" <=> workers[w] = "handler"
    BY <1>0, <1>2 DEF StartWorker, JobTypes
  <2> QED
    BY <2>1, PlacesStay
<1>3. ASSUME NEW w \in WorkerIds, LookAtRunning(w) PROVE JobInv'
  <2>1. /\ JobTypes' /\ UNCHANGED <<jobStatus, jobQueue, executing, settled>>
        /\ \A v \in WorkerIds : workers'[v] = "handler" <=> workers[v] = "handler"
    BY <1>0, <1>3 DEF LookAtRunning, JobTypes
  <2> QED
    BY <2>1, PlacesStay
<1>4. ASSUME NEW w \in WorkerIds, HandlerEnds(w) PROVE JobInv'
  <2>1. PICK status \in {"completed", "failed"} : Finish(w, status)
    BY <1>4 DEF HandlerEnds
  <2>2. workers[w] = "handler" /\ UNCHANGED jobQueue
        /\ workerTask' \in WorkerIds \cup {0} /\ stopping' \in WorkerIds \cup {0}
    BY <1>0, <1>4 DEF HandlerEnds, JobTypes
  <2> QED
    BY <2>1, <2>2, FinishHolds
<1>5. CASE StopWorker
  <2>1. /\ UNCHANGED jobQueue
        /\ workerTask' \in WorkerIds \cup {0} /\ stopping' \in WorkerIds \cup {0}
    BY <1>0, <1>5 DEF StopWorker, JobTypes
  <2>2. CASE workerTask # 0 /\ workers[workerTask] = "handler"
    <3>1. workerTask \in WorkerIds /\ Finish(workerTask, "cancelled")
      BY <1>0, <1>5, <2>2 DEF StopWorker, JobTypes
    <3> QED
      BY <2>1, <2>2, <3>1, FinishHolds
  <2>3. CASE ~(workerTask # 0 /\ workers[workerTask] = "handler")
    <3>1. /\ UNCHANGED <<jobStatus, jobQueue, executing, settled>>
          /\ workers' = [w \in WorkerIds |->
               IF w = workerTask /\ workers[w] \in {"top", "waiting"} THEN "over" ELSE workers[w]]
      BY <1>5, <2>3 DEF StopWorker
    <3>2. JobTypes' /\ \A v \in WorkerIds : workers'[v] = "handler" <=> workers[v] = "handler"
      BY <1>0, <2>1, <3>1 DEF JobTypes
    <3> QED
      BY <3>1, <3>2, PlacesStay
  <2> QED
    BY <2>2, <2>3
<1>6. CASE StopReturns \/ UNCHANGED jobVars
  <2>1. JobTypes' /\ UNCHANGED <<jobStatus, jobQueue, workers, executing, settled>>
    BY <1>0, <1>6 DEF StopReturns, jobVars, JobTypes
  <2> QED
    BY <2>1, PlacesStay
<1> QED
  BY <1>1, <1>2, <1>3, <1>4, <1>5, <1>6, EnqueueHolds, TakeHolds DEF JobNext

LEMMA JobHolds == JobInv => JobsSettleOnce
<1> SUFFICES ASSUME JobInv, NEW j \in Jobs
             PROVE  /\ Cardinality({k \in DOMAIN jobQueue : jobQueue[k] = j})
                         + Cardinality({w \in WorkerIds : executing[w] = j})
                         + (IF j \in settled THEN 1 ELSE 0) = (IF jobStatus[j] = "new" THEN 0 ELSE 1)
                    /\ j \in settled => jobStatus[j] \in {"completed", "failed", "cancelled"}
  BY Zenon DEF JobsSettleOnce
<1> DEFINE places == {k \in DOMAIN jobQueue : jobQueue[k] = j}
           holders == {w \in WorkerIds : executing[w] = j}
<1>1. /\ jobQueue \in Seq(Jobs) /\ DOMAIN jobQueue = 1 .. Len(jobQueue)
      /\ \A i, k \in 1 .. Len(jobQueue) : jobQueue[i] = jobQueue[k] => i = k
  BY LenProperties DEF JobInv, PlacesInv, OneByOne
<1>2. IF InLine(jobQueue, j) THEN \E k : places = {k} ELSE places = {}
  <2>1. ASSUME NEW k \in 1 .. Len(jobQueue), jobQueue[k] = j PROVE places = {k}
    BY <1>1, <2>1
  <2>2. ASSUME ~InLine(jobQueue, j) PROVE places = {}
    BY <1>1, <2>2 DEF InLine
  <2> QED
    BY <2>1, <2>2 DEF InLine
<1>3. IF InHandler(j) THEN \E w : holders = {w} ELSE holders = {}
  <2>1. ASSUME NEW w \in WorkerIds, executing[w] = j PROVE holders = {w}
    BY <2>1, BackgroundJobsAssumption DEF JobInv, PlacesInv
  <2>2. ASSUME ~InHandler(j) PROVE holders = {}
    BY <2>2 DEF InHandler
  <2> QED
    BY <2>1, <2>2 DEF InHandler
<1> HIDE DEF places, holders
<1>4. Cardinality(places) = IF InLine(jobQueue, j) THEN 1 ELSE 0
  BY <1>2, FS_EmptySet, FS_Singleton
<1>5. Cardinality(holders) = IF InHandler(j) THEN 1 ELSE 0
  BY <1>3, FS_EmptySet, FS_Singleton
<1>6. /\ InLine(jobQueue, j) => ~InHandler(j)
      /\ j \in settled => ~InLine(jobQueue, j) /\ ~InHandler(j)
      /\ jobStatus[j] # "new" <=> InLine(jobQueue, j) \/ InHandler(j) \/ j \in settled
      /\ j \in settled => jobStatus[j] \in {"completed", "failed", "cancelled"}
  BY DEF JobInv, PlacesInv
<1>7. Cardinality(places) + Cardinality(holders) + (IF j \in settled THEN 1 ELSE 0)
        = (IF jobStatus[j] = "new" THEN 0 ELSE 1)
  BY <1>4, <1>5, <1>6
<1> QED
  BY <1>6, <1>7 DEF places, holders

(***************************************************************************)
(* A job ends once, and then stays in neither the queue nor a handler, for *)
(* any number of jobs and restarts of the worker.                          *)
(***************************************************************************)
THEOREM JobsHold == JobSpec => [](JobsSettleOnce)
<1>1. JobSpec => []JobInv
  BY JobStart, JobStep, PTL DEF JobSpec
<1> QED
  BY <1>1, JobHolds, PTL
-----------------------------------------------------------------------------
(***************************************************************************)
(* StoreSync: one-way copies.                                              *)
(***************************************************************************)
SyncTypes ==
  /\ rows \in [Stores -> Seq(Events)] /\ dropped \in [Stores -> SUBSET Events]
  /\ cursor \in Nat /\ reached \in Nat /\ page \in Seq(Events)
  /\ passes \in Seq(Stores) /\ from \in Stores \cup {"none"}

\* The passes went one way only, from this store, and none was cut short.
OneWay(s) == (\A k \in DOMAIN passes : passes[k] = s) /\ ~repeated

\* How far the store has been read: the events up to here are in the other
\* store, or their append failed.
CopiedUpTo == IF from = "none" THEN cursor ELSE reached - Len(page)

PageInv(s) ==
  /\ from \in {"none", s} /\ cursor <= Len(rows[s])
  /\ from = s => /\ reached <= Len(rows[s]) /\ cursor <= CopiedUpTo
                 /\ \A i \in 1 .. Len(page) : page[i] = rows[s][CopiedUpTo + i]

\* The store has its own events only; those up to the m-th have been copied or
\* dropped, and the copies are in their order.
Copied(s, own, copies, without, m) ==
  /\ \A k \in DOMAIN own : own[k] = [store |-> s, n |-> k]
  /\ \A k \in 1 .. m : own[k] \in without \/ \E i \in DOMAIN copies : copies[i] = own[k]
  /\ \A i \in DOMAIN copies : copies[i].store = s => copies[i].n <= m
  /\ \A i, j \in DOMAIN copies :
       i < j /\ copies[i].store = s /\ copies[j].store = s => copies[i].n < copies[j].n

CopiesInv(s) == Copied(s, rows[s], rows[Other(s)], dropped[Other(s)], CopiedUpTo)

SyncInv ==
  /\ SyncTypes
  /\ \A s \in Stores : OneWay(s) => PageInv(s) /\ CopiesInv(s)

LEMMA SyncStart == SyncInit => SyncInv
<1> SUFFICES ASSUME SyncInit PROVE SyncInv
  OBVIOUS
<1>1. <<>> \in Seq(Events) /\ <<>> \in Seq(Stores) /\ Len(<<>>) = 0 /\ DOMAIN <<>> = {}
  BY EmptySeq
<1>2. SyncTypes
  BY <1>1 DEF SyncInit, SyncTypes
<1>3. \A s \in Stores : Other(s) \in Stores
  BY DEF Other, Stores
<1>4. \A s \in Stores : PageInv(s) /\ CopiesInv(s)
  BY <1>1, <1>3 DEF SyncInit, PageInv, CopiesInv, Copied, CopiedUpTo, Stores
<1> QED
  BY <1>2, <1>4 DEF SyncInv

LEMMA OthersAre == \A s \in Stores : Other(s) \in Stores /\ Other(s) # s /\ s # "none"
BY DEF Other, Stores

LEMMA MakeHolds ==
  ASSUME SyncInv, NEW t \in Stores, MakeEvent(t)
  PROVE  SyncInv'
<1> DEFINE e == [store |-> t, n |-> Len(rows[t]) + 1]
<1>1. /\ SyncTypes /\ Len(rows[t]) < MaxRows
      /\ rows' = [rows EXCEPT ![t] = Append(rows[t], e)]
      /\ UNCHANGED <<cursor, from, page, reached, dropped, passes, repeated>>
  BY DEF MakeEvent, SyncInv
<1>2. \A s \in Stores : rows[s] \in Seq(Events) /\ Len(rows[s]) \in Nat /\ DOMAIN rows[s] = 1 .. Len(rows[s])
  BY <1>1, LenProperties DEF SyncTypes
<1>3. e \in Events /\ e.store = t /\ e.n = Len(rows[t]) + 1
  BY <1>1, <1>2, StoreSyncAssumption DEF Events
<1>4. /\ rows'[t] \in Seq(Events) /\ Len(rows'[t]) = Len(rows[t]) + 1
      /\ rows'[t][Len(rows[t]) + 1] = e
      /\ \A k \in 1 .. Len(rows[t]) : rows'[t][k] = rows[t][k]
      /\ \A s \in Stores \ {t} : rows'[s] = rows[s]
      /\ DOMAIN rows'[t] = 1 .. (Len(rows[t]) + 1)
  <2>1. rows'[t] = Append(rows[t], e) /\ \A s \in Stores \ {t} : rows'[s] = rows[s]
    BY <1>1 DEF SyncTypes
  <2> HIDE DEF e
  <2> QED
    BY <1>2, <1>3, <2>1, AppendProperties, LenProperties
<1>5. SyncTypes'
  <2> HIDE DEF e
  <2> QED
    BY <1>1, <1>2, <1>3, <1>4 DEF SyncTypes
<1>6. ASSUME NEW s \in Stores, OneWay(s)' PROVE PageInv(s)' /\ CopiesInv(s)'
  <2>1. PageInv(s) /\ CopiesInv(s) /\ CopiedUpTo' = CopiedUpTo
    BY <1>1, <1>6 DEF SyncInv, OneWay, CopiedUpTo
  <2>2. Other(s) \in Stores /\ Other(s) # s /\ s # "none"
    BY OthersAre
  <2>3. CopiedUpTo \in Int /\ CopiedUpTo <= Len(rows[s])
    BY <1>1, <1>2, <2>1, LenProperties DEF CopiedUpTo, PageInv, SyncTypes
  <2>4. Len(page) \in Nat
    BY <1>1, LenProperties DEF SyncTypes
  <2>5. CASE s = t
    <3>1. rows'[Other(s)] = rows[Other(s)]
      BY <1>4, <2>2, <2>5
    <3>2. \A k \in DOMAIN rows'[s] : rows'[s][k] = [store |-> s, n |-> k]
      <4>1. \A k \in 1 .. Len(rows[s]) : rows[s][k] = [store |-> s, n |-> k]
        BY <1>2, <2>1 DEF CopiesInv, Copied
      <4>2. rows'[s][Len(rows[s]) + 1] = [store |-> s, n |-> Len(rows[s]) + 1]
        BY <1>4, <2>5
      <4>3. Len(rows[s]) \in Nat /\ DOMAIN rows'[s] = 1 .. (Len(rows[s]) + 1)
            /\ \A k \in 1 .. Len(rows[s]) : rows'[s][k] = rows[s][k]
        BY <1>2, <1>4, <2>5
      <4> QED
        BY <4>1, <4>2, <4>3
    <3>3. \A k \in 1 .. CopiedUpTo : rows'[s][k] = rows[s][k]
      BY <1>2, <1>4, <2>3, <2>5
    <3>4. Copied(s, rows'[s], rows[Other(s)], dropped[Other(s)], CopiedUpTo)
      BY <2>1, <3>2, <3>3 DEF CopiesInv, Copied
    <3>5. CopiesInv(s)'
      BY <1>1, <2>1, <3>1, <3>4 DEF CopiesInv
    <3>6. PageInv(s)'
      <4>1. from = s => \A i \in 1 .. Len(page) : CopiedUpTo + i \in 1 .. Len(rows[s])
        <5>1. from = s => CopiedUpTo = reached - Len(page) /\ reached <= Len(rows[s]) /\ CopiedUpTo >= 0
          BY <1>1, <2>1, <2>2, <2>4 DEF PageInv, CopiedUpTo, SyncTypes
        <5> QED
          BY <1>1, <1>2, <2>4, <5>1 DEF SyncTypes
      <4>2. from = s => \A i \in 1 .. Len(page) : page[i] = rows'[s][CopiedUpTo + i]
        BY <1>4, <2>1, <2>5, <4>1 DEF PageInv
      <4>3. Len(rows'[s]) = Len(rows[s]) + 1 /\ Len(rows[s]) \in Nat
        BY <1>2, <1>4, <2>5
      <4>4. cursor <= Len(rows'[s]) /\ (from = s => reached <= Len(rows'[s]))
        BY <1>1, <2>1, <4>3 DEF PageInv, SyncTypes
      <4> QED
        BY <1>1, <2>1, <4>2, <4>4 DEF PageInv
    <3> QED
      BY <3>5, <3>6
  <2>6. CASE s # t
    <3>1. t = Other(s) /\ rows'[s] = rows[s]
      BY <1>4, <2>6 DEF Other, Stores
    <3>2. PageInv(s)'
      BY <1>1, <2>1, <3>1 DEF PageInv
    <3>3. /\ DOMAIN rows[t] = 1 .. Len(rows[t]) /\ Len(rows[t]) \in Nat
          /\ rows'[t][Len(rows[t]) + 1].store # s
          /\ DOMAIN rows'[t] = 1 .. (Len(rows[t]) + 1)
          /\ \A k \in 1 .. Len(rows[t]) : rows'[t][k] = rows[t][k]
      BY <1>2, <1>3, <1>4, <2>6
    <3>4. \A k \in DOMAIN rows'[t] : rows'[t][k].store = s => k \in DOMAIN rows[t] /\ rows'[t][k] = rows[t][k]
      BY <3>3
    <3>5. \A k \in DOMAIN rows[t] : k \in DOMAIN rows'[t] /\ rows'[t][k] = rows[t][k]
      BY <3>3
    <3>6. \A x : (\E i \in DOMAIN rows[t] : rows[t][i] = x) => \E i \in DOMAIN rows'[t] : rows'[t][i] = x
      BY <3>5
    <3>7. CopiesInv(s)'
      <4>1. \A k \in 1 .. CopiedUpTo : \/ rows[s][k] \in dropped[t]
                                    \/ \E i \in DOMAIN rows'[t] : rows'[t][i] = rows[s][k]
        BY <2>1, <3>1, <3>6 DEF CopiesInv, Copied
      <4>2. \A i \in DOMAIN rows'[t] : rows'[t][i].store = s => rows'[t][i].n <= CopiedUpTo
        BY <2>1, <3>1, <3>4 DEF CopiesInv, Copied
      <4>3. \A i, j \in DOMAIN rows'[t] :
              i < j /\ rows'[t][i].store = s /\ rows'[t][j].store = s => rows'[t][i].n < rows'[t][j].n
        BY <2>1, <3>1, <3>4 DEF CopiesInv, Copied
      <4>4. Copied(s, rows[s], rows'[t], dropped[t], CopiedUpTo)
        BY <2>1, <3>1, <4>1, <4>2, <4>3 DEF CopiesInv, Copied
      <4> QED
        BY <1>1, <2>1, <3>1, <4>4 DEF CopiesInv
    <3> QED
      BY <3>2, <3>7
  <2> QED
    BY <2>5, <2>6
<1> QED
  BY <1>5, <1>6 DEF SyncInv

\* The page that is read lies behind the cursor.
LEMMA ScanHolds ==
  ASSUME SyncInv, NEW t \in Stores, ScanPage(t)
  PROVE  SyncInv'
<1> DEFINE last == Min({cursor + SyncPage, Len(rows[t])})
<1>1. /\ from = "none" /\ cursor < last
      /\ page' = SubSeq(rows[t], cursor + 1, last) /\ reached' = last
      /\ from' = t /\ passes' = Append(passes, t)
      /\ UNCHANGED <<rows, cursor, dropped, repeated>>
  BY DEF ScanPage
<1>2. /\ SyncTypes /\ rows[t] \in Seq(Events) /\ Len(rows[t]) \in Nat /\ cursor \in Nat /\ SyncPage \in Nat
      /\ \A i \in 1 .. Len(rows[t]) : rows[t][i] \in Events
  BY LenProperties, ElementOfSeq, StoreSyncAssumption DEF SyncInv, SyncTypes
<1>3. last \in Nat /\ last <= Len(rows[t])
  <2>1. \A a, b \in Nat : Min({a, b}) \in {a, b} /\ Min({a, b}) <= b
    <3> SUFFICES ASSUME NEW a \in Nat, NEW b \in Nat PROVE Min({a, b}) \in {a, b} /\ Min({a, b}) <= b
      OBVIOUS
    <3>1. \E x \in {a, b} : \A y \in {a, b} : x <= y
      <4>1. a <= b \/ b <= a
        OBVIOUS
      <4> QED
        BY <4>1
    <3>2. Min({a, b}) \in {a, b} /\ \A y \in {a, b} : Min({a, b}) <= y
      BY <3>1 DEF Min
    <3> QED
      BY <3>2
  <2> QED
    BY <1>2, <2>1
<1> HIDE DEF last
<1>4. /\ page' \in Seq(Events) /\ Len(page') = last - cursor
      /\ \A i \in 1 .. Len(page') : page'[i] = rows[t][cursor + i]
  <2>1. \A i \in (cursor + 1) .. last : rows[t][i] \in Events
    BY <1>2, <1>3
  <2>2. cursor + 1 \in Int /\ last \in Int
    BY <1>2, <1>3
  <2>3. /\ page' \in Seq(Events)
        /\ Len(page') = IF cursor + 1 <= last THEN last - (cursor + 1) + 1 ELSE 0
        /\ \A i \in 1 .. last - (cursor + 1) + 1 : page'[i] = rows[t][(cursor + 1) + i - 1]
    BY <1>1, <2>1, <2>2, SubSeqProperties
  <2>4. Len(page') = last - cursor /\ last - (cursor + 1) + 1 = last - cursor
    BY <1>1, <1>2, <1>3, <2>3
  <2>5. \A i \in 1 .. Len(page') : i \in 1 .. last - (cursor + 1) + 1 /\ (cursor + 1) + i - 1 = cursor + i
    BY <1>2, <2>4
  <2>6. \A i \in 1 .. Len(page') : page'[i] = rows[t][cursor + i]
    <3> SUFFICES ASSUME NEW i \in 1 .. Len(page') PROVE page'[i] = rows[t][cursor + i]
      OBVIOUS
    <3>1. page'[i] = rows[t][(cursor + 1) + i - 1] /\ (cursor + 1) + i - 1 = cursor + i
      BY <2>3, <2>5
    <3> QED
      BY <3>1
  <2> QED
    BY <2>3, <2>4, <2>6
<1>5. /\ passes' \in Seq(Stores) /\ DOMAIN passes' = 1 .. (Len(passes) + 1)
      /\ passes'[Len(passes) + 1] = t
      /\ DOMAIN passes = 1 .. Len(passes) /\ Len(passes) \in Nat
      /\ \A k \in 1 .. Len(passes) : passes'[k] = passes[k]
  BY <1>1, <1>2, AppendProperties, LenProperties DEF SyncTypes
<1>6. SyncTypes'
  BY <1>1, <1>2, <1>3, <1>4, <1>5 DEF SyncTypes
<1>7. ASSUME NEW s \in Stores, OneWay(s)' PROVE PageInv(s)' /\ CopiesInv(s)'
  <2>1. s = t /\ OneWay(s)
    <3>1. \A k \in 1 .. (Len(passes) + 1) : passes'[k] = s
      BY <1>5, <1>7 DEF OneWay
    <3>2. Len(passes) + 1 \in 1 .. (Len(passes) + 1)
          /\ \A k \in 1 .. Len(passes) : k \in 1 .. (Len(passes) + 1)
      BY <1>5
    <3>3. ~repeated
      BY <1>1, <1>7 DEF OneWay
    <3> QED
      BY <1>5, <3>1, <3>2, <3>3 DEF OneWay
  <2>2. PageInv(s) /\ CopiesInv(s) /\ s # "none"
    BY <2>1, OthersAre DEF SyncInv
  <2>3. CopiedUpTo = cursor /\ CopiedUpTo' = cursor
    BY <1>1, <1>2, <1>3, <1>4, <2>1, <2>2 DEF CopiedUpTo
  <2>4. CopiesInv(s)'
    BY <1>1, <2>2, <2>3 DEF CopiesInv
  <2>5. PageInv(s)'
    BY <1>1, <1>2, <1>3, <1>4, <2>1, <2>2, <2>3 DEF PageInv
  <2> QED
    BY <2>4, <2>5
<1> QED
  BY <1>6, <1>7 DEF SyncInv

\* The event at the head of the page is the next one of the store.
LEMMA ApplyHolds ==
  ASSUME SyncInv, ApplyEvent
  PROVE  SyncInv'
<1> DEFINE o == Other(from)
           e == Head(page)
<1>1. /\ SyncTypes /\ from # "none" /\ page # <<>> /\ page' = Tail(page)
      /\ \/ rows' = [rows EXCEPT ![o] = Append(rows[o], e)] /\ UNCHANGED dropped
         \/ dropped' = [dropped EXCEPT ![o] = dropped[o] \cup {e}] /\ UNCHANGED rows
      /\ UNCHANGED <<cursor, from, reached, passes, repeated>>
  BY DEF ApplyEvent, SyncInv
<1>2. from \in Stores /\ o \in Stores /\ o # from /\ Other(o) = from
  BY <1>1 DEF SyncTypes, Other, Stores
<1>3. /\ e \in Events /\ e = page[1] /\ page' \in Seq(Events)
      /\ Len(page) \in Nat /\ Len(page) > 0 /\ Len(page') = Len(page) - 1
      /\ \A i \in 1 .. Len(page') : page'[i] = page[i + 1]
  BY <1>1, HeadTailProperties, LenProperties, EmptySeq DEF SyncTypes
<1>4. \A s \in Stores : rows[s] \in Seq(Events) /\ Len(rows[s]) \in Nat /\ DOMAIN rows[s] = 1 .. Len(rows[s])
                        /\ dropped[s] \in SUBSET Events
  BY <1>1, LenProperties DEF SyncTypes
<1> HIDE DEF o, e
<1>5. \/ /\ dropped'[o] = dropped[o]
         /\ rows'[o] \in Seq(Events) /\ Len(rows'[o]) = Len(rows[o]) + 1
         /\ rows'[o][Len(rows[o]) + 1] = e
         /\ \A k \in 1 .. Len(rows[o]) : rows'[o][k] = rows[o][k]
         /\ DOMAIN rows'[o] = 1 .. (Len(rows[o]) + 1)
      \/ rows'[o] = rows[o] /\ dropped'[o] = dropped[o] \cup {e}
  <2>1. \/ rows'[o] = Append(rows[o], e) /\ dropped'[o] = dropped[o]
        \/ rows'[o] = rows[o] /\ dropped'[o] = dropped[o] \cup {e}
    BY <1>1, <1>2 DEF SyncTypes
  <2>2. rows[o] \in Seq(Events) /\ Len(rows[o]) \in Nat
    BY <1>2, <1>4
  <2>3. LET q == Append(rows[o], e) IN
          /\ q \in Seq(Events) /\ Len(q) = Len(rows[o]) + 1 /\ q[Len(rows[o]) + 1] = e
          /\ \A k \in 1 .. Len(rows[o]) : q[k] = rows[o][k]
          /\ DOMAIN q = 1 .. (Len(rows[o]) + 1)
    BY <1>3, <2>2, AppendProperties, LenProperties
  <2> QED
    BY <2>1, <2>3
<1>6. rows'[from] = rows[from] /\ dropped'[from] = dropped[from]
  BY <1>1, <1>2 DEF SyncTypes
<1>7. SyncTypes'
  <2>1. rows'[o] \in Seq(Events) /\ dropped'[o] \in SUBSET Events
    BY <1>2, <1>3, <1>4, <1>5
  <2>2. rows' \in [Stores -> Seq(Events)] /\ dropped' \in [Stores -> SUBSET Events]
    <3>1. /\ DOMAIN rows' = Stores /\ DOMAIN dropped' = Stores
          /\ rows' = [s \in Stores |-> rows'[s]] /\ dropped' = [s \in Stores |-> dropped'[s]]
      BY <1>1, <1>2 DEF SyncTypes
    <3>2. \A s \in Stores : s = o \/ s = from
      BY <1>2 DEF Other, Stores
    <3> QED
      BY <1>4, <1>6, <2>1, <3>1, <3>2
  <2> QED
    BY <1>1, <1>3, <2>2 DEF SyncTypes
<1>8. ASSUME NEW s \in Stores, OneWay(s)' PROVE PageInv(s)' /\ CopiesInv(s)'
  <2>1. OneWay(s) /\ PageInv(s) /\ CopiesInv(s)
    BY <1>1, <1>8 DEF SyncInv, OneWay
  <2>2. s = from /\ Other(s) = o
    BY <1>1, <2>1 DEF PageInv, o
  <2> DEFINE m == CopiedUpTo
  <2>3. /\ m = reached - Len(page) /\ CopiedUpTo' = m + 1
        /\ m \in Nat /\ cursor <= m /\ m + 1 <= reached /\ reached <= Len(rows[s]) /\ reached \in Nat
        /\ cursor \in Nat
    BY <1>1, <1>3, <2>1, <2>2 DEF CopiedUpTo, PageInv, SyncTypes
  <2>4. \A i \in 1 .. Len(page) : page[i] = rows[s][m + i]
    BY <2>1, <2>2 DEF PageInv
  <2> HIDE DEF m
  <2>5. e = rows[s][m + 1]
    BY <1>3, <2>4
  <2>6. /\ \A k \in DOMAIN rows[s] : rows[s][k] = [store |-> s, n |-> k]
        /\ \A k \in 1 .. m : rows[s][k] \in dropped[o] \/ \E i \in DOMAIN rows[o] : rows[o][i] = rows[s][k]
        /\ \A i \in DOMAIN rows[o] : rows[o][i].store = s => rows[o][i].n <= m
        /\ \A i, j \in DOMAIN rows[o] :
             i < j /\ rows[o][i].store = s /\ rows[o][j].store = s => rows[o][i].n < rows[o][j].n
    BY <2>1, <2>2 DEF CopiesInv, Copied, m
  <2>7. e.store = s /\ e.n = m + 1
    <3>1. m + 1 \in DOMAIN rows[s]
      BY <1>4, <2>3
    <3>2. e = [store |-> s, n |-> m + 1]
      BY <2>5, <2>6, <3>1
    <3> QED
      BY <3>2
  <2>8. \A i \in DOMAIN rows[o] : rows[o][i] \in Events /\ rows[o][i].n \in Nat
    <3>1. \A i \in DOMAIN rows[o] : rows[o][i] \in Events
      BY <1>2, <1>4, ElementOfSeq
    <3>2. \A x \in Events : x.n \in Nat
      BY StoreSyncAssumption DEF Events
    <3> QED
      BY <3>1, <3>2
  <2>9. Copied(s, rows[s], rows'[o], dropped'[o], m + 1)
    <3>1. CASE rows'[o] = rows[o] /\ dropped'[o] = dropped[o] \cup {e}
      <4>1. \A k \in 1 .. (m + 1) : \/ rows[s][k] \in dropped'[o]
                                    \/ \E i \in DOMAIN rows'[o] : rows'[o][i] = rows[s][k]
        <5>1. \A k \in 1 .. (m + 1) : k \in 1 .. m \/ k = m + 1
          BY <2>3
        <5> QED
          BY <2>5, <2>6, <3>1, <5>1
      <4>2. \A i \in DOMAIN rows'[o] : rows'[o][i].store = s => rows'[o][i].n <= m + 1
        BY <2>3, <2>6, <2>8, <3>1
      <4> QED
        BY <2>6, <3>1, <4>1, <4>2 DEF Copied
    <3>2. CASE /\ dropped'[o] = dropped[o]
               /\ rows'[o][Len(rows[o]) + 1] = e
               /\ \A k \in 1 .. Len(rows[o]) : rows'[o][k] = rows[o][k]
               /\ DOMAIN rows'[o] = 1 .. (Len(rows[o]) + 1)
      <4> DEFINE n == Len(rows[o])
      <4>0. /\ n \in Nat /\ DOMAIN rows[o] = 1 .. n
            /\ DOMAIN rows'[o] = 1 .. (n + 1) /\ rows'[o][n + 1] = e
            /\ \A k \in 1 .. n : rows'[o][k] = rows[o][k] /\ k \in 1 .. (n + 1)
            /\ n + 1 \in 1 .. (n + 1)
        BY <1>2, <1>4, <3>2
      <4> HIDE DEF n
      <4>1. \A k \in 1 .. (m + 1) : \/ rows[s][k] \in dropped'[o]
                                    \/ \E i \in DOMAIN rows'[o] : rows'[o][i] = rows[s][k]
        <5>1. \A k \in 1 .. (m + 1) : k \in 1 .. m \/ k = m + 1
          BY <2>3
        <5>2. \A x : (\E i \in DOMAIN rows[o] : rows[o][i] = x) => \E i \in DOMAIN rows'[o] : rows'[o][i] = x
          BY <4>0
        <5> QED
          BY <2>5, <2>6, <3>2, <4>0, <5>1, <5>2
      <4>2. \A i \in 1 .. (n + 1) : i \in 1 .. n \/ i = n + 1
        BY <4>0
      <4>3. \A i \in DOMAIN rows'[o] : rows'[o][i].store = s => rows'[o][i].n <= m + 1
        BY <2>3, <2>6, <2>7, <2>8, <4>0, <4>2
      <4>4. ASSUME NEW i \in DOMAIN rows'[o], NEW j \in DOMAIN rows'[o], i < j,
                   rows'[o][i].store = s, rows'[o][j].store = s
            PROVE  rows'[o][i].n < rows'[o][j].n
        <5>1. i \in 1 .. n
          BY <4>0, <4>4
        <5>2. CASE j \in 1 .. n
          BY <2>6, <4>0, <4>4, <5>1, <5>2
        <5>3. CASE j = n + 1
          <6>1. rows'[o][i].n <= m /\ rows'[o][i].n \in Nat
            BY <2>6, <2>8, <4>0, <4>4, <5>1
          <6> QED
            BY <2>3, <2>7, <4>0, <5>3, <6>1
        <5> QED
          BY <4>0, <4>2, <5>2, <5>3
      <4> QED
        BY <2>6, <4>1, <4>3, <4>4 DEF Copied
    <3> QED
      BY <1>5, <3>1, <3>2
  <2>10. CopiesInv(s)'
    BY <1>1, <1>6, <2>2, <2>3, <2>9 DEF CopiesInv
  <2>11. PageInv(s)'
    <3>1. \A i \in 1 .. Len(page') : page'[i] = rows[s][(m + 1) + i]
      <4>1. \A i \in 1 .. Len(page') : i + 1 \in 1 .. Len(page) /\ m + (i + 1) = (m + 1) + i
        BY <1>3, <2>3
      <4> QED
        BY <1>3, <2>4, <4>1
    <3> QED
      BY <1>1, <1>6, <2>1, <2>2, <2>3, <3>1 DEF PageInv
  <2> QED
    BY <2>10, <2>11
<1> QED
  BY <1>7, <1>8 DEF SyncInv

LEMMA SyncStep == SyncInv /\ [SyncNext]_syncVars => SyncInv'
<1> SUFFICES ASSUME SyncInv, [SyncNext]_syncVars PROVE SyncInv'
  OBVIOUS
<1>0. SyncTypes
  BY DEF SyncInv
<1>1. CASE EndPass
  <2>1. /\ from # "none" /\ page = <<>> /\ cursor' = reached /\ from' = "none"
        /\ UNCHANGED <<rows, page, reached, dropped, passes, repeated>>
    BY <1>1 DEF EndPass
  <2>2. Len(page) = 0 /\ reached \in Nat
    BY <1>0, <2>1, EmptySeq DEF SyncTypes
  <2>3. SyncTypes'
    BY <1>0, <2>1 DEF SyncTypes
  <2>4. CopiedUpTo = reached /\ CopiedUpTo' = reached
    BY <2>1, <2>2 DEF CopiedUpTo
  <2>5. ASSUME NEW s \in Stores, OneWay(s)' PROVE PageInv(s)' /\ CopiesInv(s)'
    <3>1. PageInv(s) /\ CopiesInv(s) /\ s # "none"
      BY <2>1, <2>5, OthersAre DEF SyncInv, OneWay
    <3>2. CopiesInv(s)'
      BY <2>1, <2>4, <3>1 DEF CopiesInv
    <3>3. PageInv(s)'
      BY <2>1, <3>1 DEF PageInv
    <3> QED
      BY <3>2, <3>3
  <2> QED
    BY <2>3, <2>5 DEF SyncInv
<1>2. CASE CutPass \/ ResetSync
  <2>1. repeated'
    BY <1>2, Zenon DEF CutPass, ResetSync
  <2>2. <<>> \in Seq(Events)
    BY EmptySeq
  <2>3. SyncTypes'
    <3>1. CASE CutPass
      BY <1>0, <2>2, <3>1 DEF CutPass, SyncTypes
    <3>2. CASE ResetSync
      <4>1. \A c \in 0 .. (cursor - 1) : c \in Nat
        BY <1>0 DEF SyncTypes
      <4> QED
        BY <1>0, <3>2, <4>1 DEF ResetSync, SyncTypes
    <3> QED
      BY <1>2, <3>1, <3>2
  <2>4. \A s \in Stores : ~OneWay(s)'
    BY <2>1 DEF OneWay
  <2> QED
    BY <2>3, <2>4 DEF SyncInv
<1>3. CASE UNCHANGED syncVars
  BY <1>3 DEF syncVars, SyncInv, SyncTypes, OneWay, PageInv, CopiesInv, CopiedUpTo
<1> QED
  BY <1>1, <1>2, <1>3, MakeHolds, ScanHolds, ApplyHolds DEF SyncNext

LEMMA SyncHolds == SyncInv => OneWayCopies
<1> SUFFICES ASSUME SyncInv, NEW s \in Stores, Range(passes) \subseteq {s}, ~repeated
             PROVE  /\ \A k \in 1 .. cursor : rows[s][k] \in dropped[Other(s)] \cup Range(rows[Other(s)])
                    /\ \A j, k \in DOMAIN rows[Other(s)] :
                         j < k /\ rows[Other(s)][j].store = s /\ rows[Other(s)][k].store = s =>
                           rows[Other(s)][j].n < rows[Other(s)][k].n
  BY Zenon DEF OneWayCopies
<1>1. OneWay(s)
  BY DEF OneWay, Range
<1>2. PageInv(s) /\ CopiesInv(s) /\ SyncTypes
  BY <1>1 DEF SyncInv
<1>3. cursor <= CopiedUpTo /\ cursor \in Nat /\ CopiedUpTo \in Int
  BY <1>2, LenProperties DEF PageInv, CopiedUpTo, SyncTypes
<1>4. \A k \in 1 .. cursor : k \in 1 .. CopiedUpTo
  BY <1>3
<1>5. /\ \A k \in 1 .. CopiedUpTo : \/ rows[s][k] \in dropped[Other(s)]
                                 \/ \E i \in DOMAIN rows[Other(s)] : rows[Other(s)][i] = rows[s][k]
      /\ \A i, j \in DOMAIN rows[Other(s)] :
           i < j /\ rows[Other(s)][i].store = s /\ rows[Other(s)][j].store = s =>
             rows[Other(s)][i].n < rows[Other(s)][j].n
  BY <1>2 DEF CopiesInv, Copied
<1>6. \A k \in 1 .. cursor : rows[s][k] \in dropped[Other(s)] \cup Range(rows[Other(s)])
  BY <1>4, <1>5 DEF Range
<1> QED
  BY <1>5, <1>6

(***************************************************************************)
(* Copies in one direction are complete, once each and in order, for pages *)
(* and stores of any size.                                                 *)
(***************************************************************************)
THEOREM SyncHoldsAlways == SyncSpec => [](OneWayCopies)
<1>1. SyncSpec => []SyncInv
  BY SyncStart, SyncStep, PTL DEF SyncSpec
<1> QED
  BY <1>1, SyncHolds, PTL
-----------------------------------------------------------------------------
(***************************************************************************)
(* Streams of the model: calls end once, and Finish comes when all is said.*)
(***************************************************************************)

StreamEvents == [type : EventTypes, of : Int]

\* There is an event of the type about c.
Saw(es, type, c) == \E k \in 1 .. Len(es) : es[k].type = type /\ es[k].of = c

\* No call is ended twice; every call that is ended was started before.
EndedOnce(es) ==
  \A j, k \in 1 .. Len(es) :
    es[j].type = "ToolCallEnded" /\ es[k].type = "ToolCallEnded" /\ es[j].of = es[k].of => j = k

StartedFirst(es) ==
  \A k \in 1 .. Len(es) : es[k].type = "ToolCallEnded" =>
    \E j \in 1 .. k - 1 : es[j].type = "ToolCallStarted" /\ es[j].of = es[k].of

NoFinish(es)   == \A k \in 1 .. Len(es) : es[k].type # "Finish"
FinishLast(es) == \A k \in 1 .. Len(es) : es[k].type = "Finish" => k = Len(es)

\* What holds of a stream when it has finished.
AllIsSaid(es, p, n) ==
  /\ \A c \in Int : Saw(es, "ToolCallStarted", c) => Saw(es, "ToolCallEnded", c)
  /\ p # "anthropic" /\ n > 0 => Saw(es, "TextEnded", n)

StreamTypes ==
  /\ protocol \in Protocols /\ wireAt \in {"request", "open", "finished", "closed"}
  /\ chunks \in Nat /\ opened \in Nat /\ tcState \in Int /\ block \in Int
  /\ markers \in BOOLEAN /\ mixed \in BOOLEAN
  /\ events \in Seq(StreamEvents)

\* While the stream is open, the calls that were opened have been started, and
\* all but the one in the block have been ended; chat ends them with Finish.
OpenInv ==
  /\ NoFinish(events)
  /\ protocol # "legacy" /\ (protocol # "chat" => ~markers)
  /\ block \in {None, Text, opened} /\ (protocol = "chat" => block = None)
  /\ protocol = "anthropic" => tcState = opened
  /\ protocol = "anthropic" /\ ~mixed /\ block = Text => opened = 0
  /\ \A c \in Int : Saw(events, "ToolCallStarted", c) <=> c \in 1 .. opened
  /\ protocol # "chat" => \A c \in 1 .. opened : c # block => Saw(events, "ToolCallEnded", c)
  /\ ~mixed => \A c \in Int : Saw(events, "ToolCallEnded", c) =>
                 protocol # "chat" /\ c \in 1 .. opened /\ c # block
  /\ protocol = "chat" => \A c \in Int : ~Saw(events, "ToolCallEnded", c)

EndsInv == ~mixed => EndedOnce(events) /\ StartedFirst(events)

FinishInv ==
  FinishLast(events) /\ (NoFinish(events) \/ AllIsSaid(events, protocol, events[Len(events)].of))

StreamInv ==
  /\ StreamTypes /\ EndsInv /\ FinishInv
  /\ wireAt = "request" =>
       events = <<>> /\ opened = 0 /\ chunks = 0 /\ block = None /\ tcState = None /\ ~markers /\ ~mixed
  /\ wireAt = "open" => OpenInv

LEMMA NothingSaid ==
  /\ <<>> \in Seq(StreamEvents) /\ \A t, c : ~Saw(<<>>, t, c)
  /\ EndedOnce(<<>>) /\ StartedFirst(<<>>) /\ NoFinish(<<>>) /\ FinishLast(<<>>)
<1>1. Len(<<>>) = 0 /\ <<>> \in Seq(StreamEvents)
  BY EmptySeq
<1> QED
  BY <1>1 DEF Saw, EndedOnce, StartedFirst, NoFinish, FinishLast

\* One event.
LEMMA OneSaid ==
  ASSUME NEW e \in StreamEvents
  PROVE  /\ <<e>> \in Seq(StreamEvents)
         /\ \A t : \A c : Saw(<<e>>, t, c) <=> e.type = t /\ e.of = c
         /\ EndedOnce(<<e>>) /\ FinishLast(<<e>>)
         /\ e.type # "ToolCallEnded" => StartedFirst(<<e>>)
         /\ e.type # "Finish" => NoFinish(<<e>>)
<1>1. <<e>> \in Seq(StreamEvents) /\ Len(<<e>>) = 1 /\ <<e>>[1] = e
  OBVIOUS
<1> QED
  BY <1>1 DEF Saw, EndedOnce, StartedFirst, NoFinish, FinishLast

\* Events after others.
LEMMA MoreSaid ==
  ASSUME NEW a \in Seq(StreamEvents), NEW b \in Seq(StreamEvents)
  PROVE  /\ a \o b \in Seq(StreamEvents)
         /\ \A t : \A c : Saw(a \o b, t, c) <=> Saw(a, t, c) \/ Saw(b, t, c)
         /\ NoFinish(a) /\ NoFinish(b) => NoFinish(a \o b)
         /\ NoFinish(a) /\ FinishLast(b) => FinishLast(a \o b)
         /\ EndedOnce(a) /\ EndedOnce(b)
            /\ (\A c \in Int : ~(Saw(a, "ToolCallEnded", c) /\ Saw(b, "ToolCallEnded", c)))
            => EndedOnce(a \o b)
         /\ StartedFirst(a)
            /\ (StartedFirst(b) \/ \A c \in Int : Saw(b, "ToolCallEnded", c) => Saw(a, "ToolCallStarted", c))
            => StartedFirst(a \o b)
<1> DEFINE r == a \o b
           m == Len(a)
           n == Len(b)
<1>1. /\ r \in Seq(StreamEvents) /\ m \in Nat /\ n \in Nat /\ Len(r) = m + n
      /\ \A i \in 1 .. m + n : r[i] = IF i <= m THEN a[i] ELSE b[i - m]
  BY ConcatProperties, LenProperties
<1>2. /\ \A i \in 1 .. m : a[i].of \in Int
      /\ \A i \in 1 .. n : b[i].of \in Int
  <2>1. /\ \A i \in 1 .. m : a[i] \in StreamEvents
        /\ \A i \in 1 .. n : b[i] \in StreamEvents
    BY ElementOfSeq
  <2> QED
    BY <2>1 DEF StreamEvents
<1> HIDE DEF r, m, n
<1>3. /\ \A i \in 1 .. m : i \in 1 .. m + n /\ r[i] = a[i]
      /\ \A i \in 1 .. n : m + i \in 1 .. m + n /\ r[m + i] = b[i]
      /\ \A i \in 1 .. m + n : i \in 1 .. m \/ \E k \in 1 .. n : i = m + k
  <2>1. \A i \in 1 .. m : i \in 1 .. m + n /\ r[i] = a[i]
    BY <1>1
  <2>2. ASSUME NEW i \in 1 .. n PROVE m + i \in 1 .. m + n /\ r[m + i] = b[i]
    <3>1. m + i \in 1 .. m + n /\ ~(m + i <= m) /\ (m + i) - m = i
      BY <1>1
    <3> QED
      BY <1>1, <3>1
  <2>3. ASSUME NEW i \in 1 .. m + n, i \notin 1 .. m PROVE \E k \in 1 .. n : i = m + k
    <3>1. i - m \in 1 .. n /\ i = m + (i - m)
      BY <1>1, <2>3
    <3> QED
      BY <3>1
  <2> QED
    BY <2>1, <2>2, <2>3
<1>4. \A t : \A c : Saw(r, t, c) <=> Saw(a, t, c) \/ Saw(b, t, c)
  <2> SUFFICES ASSUME NEW t, NEW c PROVE Saw(r, t, c) <=> Saw(a, t, c) \/ Saw(b, t, c)
    OBVIOUS
  <2> USE DEF Saw
  <2>0. m = Len(a) /\ n = Len(b)
    BY DEF m, n
  <2>1. ASSUME Saw(a, t, c) PROVE Saw(r, t, c)
    <3>1. PICK i \in 1 .. m : a[i].type = t /\ a[i].of = c
      BY <2>0, <2>1
    <3>2. i \in 1 .. Len(r) /\ r[i] = a[i]
      BY <1>1, <1>3
    <3> QED
      BY <3>1, <3>2
  <2>3. ASSUME Saw(b, t, c) PROVE Saw(r, t, c)
    <3>1. PICK i \in 1 .. n : b[i].type = t /\ b[i].of = c
      BY <2>0, <2>3
    <3>2. m + i \in 1 .. Len(r) /\ r[m + i] = b[i]
      BY <1>1, <1>3
    <3> QED
      BY <3>1, <3>2
  <2>2. ASSUME NEW i \in 1 .. Len(r), r[i].type = t, r[i].of = c PROVE Saw(a, t, c) \/ Saw(b, t, c)
    <3>1. CASE i \in 1 .. m
      BY <1>3, <2>0, <2>2, <3>1
    <3>2. CASE \E k \in 1 .. n : i = m + k
      BY <1>3, <2>0, <2>2, <3>2
    <3> QED
      BY <1>1, <1>3, <3>1, <3>2
  <2> QED
    BY <2>1, <2>2, <2>3
<1>5. ASSUME NoFinish(a), NoFinish(b) PROVE NoFinish(r)
  <2> SUFFICES ASSUME NEW i \in 1 .. m + n PROVE r[i].type # "Finish"
    BY <1>1 DEF NoFinish
  <2>1. CASE i \in 1 .. m
    BY <1>3, <1>5, <2>1 DEF NoFinish, m
  <2>2. CASE \E k \in 1 .. n : i = m + k
    BY <1>3, <1>5, <2>2 DEF NoFinish, n
  <2> QED
    BY <1>3, <2>1, <2>2
<1>6. ASSUME NoFinish(a), FinishLast(b) PROVE FinishLast(r)
  <2> SUFFICES ASSUME NEW i \in 1 .. m + n, r[i].type = "Finish" PROVE i = m + n
    BY <1>1 DEF FinishLast
  <2>1. i \notin 1 .. m
    BY <1>3, <1>6 DEF NoFinish, m
  <2>2. PICK k \in 1 .. n : i = m + k
    BY <1>3, <2>1
  <2>3. k = n
    BY <1>3, <1>6, <2>2 DEF FinishLast, n
  <2> QED
    BY <2>2, <2>3
<1>7. ASSUME EndedOnce(a), EndedOnce(b),
             \A c \in Int : ~(Saw(a, "ToolCallEnded", c) /\ Saw(b, "ToolCallEnded", c))
      PROVE  EndedOnce(r)
  <2> DEFINE end(es, k) == es[k].type = "ToolCallEnded"
  <2>1. /\ \A j, k \in 1 .. m : end(a, j) /\ end(a, k) /\ a[j].of = a[k].of => j = k
        /\ \A j, k \in 1 .. n : end(b, j) /\ end(b, k) /\ b[j].of = b[k].of => j = k
    BY <1>7 DEF EndedOnce, m, n
  <2>2. \A j \in 1 .. m : \A k \in 1 .. n : end(a, j) /\ end(b, k) => a[j].of # b[k].of
    BY <1>2, <1>7 DEF Saw, m, n
  <2> SUFFICES ASSUME NEW i \in 1 .. m + n, NEW l \in 1 .. m + n, end(r, i), end(r, l), r[i].of = r[l].of
               PROVE  i = l
    BY <1>1 DEF EndedOnce
  <2>3. CASE i \in 1 .. m /\ l \in 1 .. m
    BY <1>3, <2>1, <2>3
  <2>4. CASE i \in 1 .. m /\ \E k \in 1 .. n : l = m + k
    BY <1>3, <2>2, <2>4
  <2>5. CASE l \in 1 .. m /\ \E k \in 1 .. n : i = m + k
    BY <1>3, <2>2, <2>5
  <2>6. CASE (\E k \in 1 .. n : i = m + k) /\ (\E k \in 1 .. n : l = m + k)
    BY <1>3, <2>1, <2>6
  <2> QED
    BY <1>3, <2>3, <2>4, <2>5, <2>6
<1>8. ASSUME StartedFirst(a),
             StartedFirst(b) \/ \A c \in Int : Saw(b, "ToolCallEnded", c) => Saw(a, "ToolCallStarted", c)
      PROVE  StartedFirst(r)
  <2> SUFFICES ASSUME NEW i \in 1 .. m + n, r[i].type = "ToolCallEnded"
               PROVE  \E j \in 1 .. i - 1 : r[j].type = "ToolCallStarted" /\ r[j].of = r[i].of
    BY <1>1 DEF StartedFirst
  <2>1. CASE i \in 1 .. m
    <3>1. PICK j \in 1 .. i - 1 : a[j].type = "ToolCallStarted" /\ a[j].of = a[i].of
      BY <1>3, <1>8, <2>1 DEF StartedFirst, m
    <3>2. j \in 1 .. m
      BY <1>1, <2>1
    <3> QED
      BY <1>3, <2>1, <3>1, <3>2
  <2>2. CASE \E k \in 1 .. n : i = m + k
    <3>1. PICK k \in 1 .. n : i = m + k
      BY <2>2
    <3>2. b[k].type = "ToolCallEnded" /\ b[k].of = r[i].of /\ b[k].of \in Int
      BY <1>2, <1>3, <3>1
    <3>3. CASE StartedFirst(b)
      <4>1. PICK j \in 1 .. k - 1 : b[j].type = "ToolCallStarted" /\ b[j].of = b[k].of
        BY <3>2, <3>3 DEF StartedFirst, n
      <4>2. j \in 1 .. n /\ m + j \in 1 .. i - 1
        BY <1>1, <3>1
      <4> QED
        BY <1>3, <3>2, <4>1, <4>2
    <3>4. CASE \A c \in Int : Saw(b, "ToolCallEnded", c) => Saw(a, "ToolCallStarted", c)
      <4>1. Saw(b, "ToolCallEnded", b[k].of)
        BY <3>2 DEF Saw, n
      <4>2. Saw(a, "ToolCallStarted", b[k].of)
        BY <3>2, <3>4, <4>1
      <4>3. PICK j \in 1 .. m : a[j].type = "ToolCallStarted" /\ a[j].of = b[k].of
        BY <4>2 DEF Saw, m
      <4>4. j \in 1 .. i - 1
        BY <1>1, <3>1
      <4> QED
        BY <1>3, <3>2, <4>3, <4>4
    <3> QED
      BY <1>8, <3>3, <3>4
  <2> QED
    BY <1>3, <2>1, <2>2
<1> QED
  BY <1>1, <1>4, <1>5, <1>6, <1>7, <1>8 DEF r

\* One more event.
LEMMA OneMoreSaid ==
  ASSUME NEW a \in Seq(StreamEvents), NEW e \in StreamEvents
  PROVE  /\ a \o <<e>> \in Seq(StreamEvents)
         /\ \A t : \A c : Saw(a \o <<e>>, t, c) <=> Saw(a, t, c) \/ (e.type = t /\ e.of = c)
         /\ NoFinish(a) /\ e.type # "Finish" => NoFinish(a \o <<e>>)
         /\ NoFinish(a) => FinishLast(a \o <<e>>)
         /\ EndedOnce(a) /\ (e.type = "ToolCallEnded" => ~Saw(a, "ToolCallEnded", e.of))
            => EndedOnce(a \o <<e>>)
         /\ StartedFirst(a) /\ (e.type = "ToolCallEnded" => Saw(a, "ToolCallStarted", e.of))
            => StartedFirst(a \o <<e>>)
<1> DEFINE b == <<e>>
<1>1. /\ b \in Seq(StreamEvents)
      /\ \A t : \A c : Saw(b, t, c) <=> e.type = t /\ e.of = c
      /\ EndedOnce(b) /\ FinishLast(b)
      /\ e.type # "ToolCallEnded" => StartedFirst(b)
      /\ e.type # "Finish" => NoFinish(b)
  BY OneSaid
<1> HIDE DEF b
<1>2. /\ a \o b \in Seq(StreamEvents)
      /\ \A t : \A c : Saw(a \o b, t, c) <=> Saw(a, t, c) \/ Saw(b, t, c)
      /\ NoFinish(a) /\ NoFinish(b) => NoFinish(a \o b)
      /\ NoFinish(a) /\ FinishLast(b) => FinishLast(a \o b)
      /\ EndedOnce(a) /\ EndedOnce(b)
         /\ (\A c \in Int : ~(Saw(a, "ToolCallEnded", c) /\ Saw(b, "ToolCallEnded", c)))
         => EndedOnce(a \o b)
      /\ StartedFirst(a)
         /\ (StartedFirst(b) \/ \A c \in Int : Saw(b, "ToolCallEnded", c) => Saw(a, "ToolCallStarted", c))
         => StartedFirst(a \o b)
  BY <1>1, MoreSaid
<1>3. EndedOnce(a) /\ (e.type = "ToolCallEnded" => ~Saw(a, "ToolCallEnded", e.of)) => EndedOnce(a \o b)
  BY <1>1, <1>2
<1>4. StartedFirst(a) /\ (e.type = "ToolCallEnded" => Saw(a, "ToolCallStarted", e.of))
      => StartedFirst(a \o b)
  BY <1>1, <1>2
<1> QED
  BY <1>1, <1>2, <1>3, <1>4 DEF b

\* Events are records of a type and what they are about.
LEMMA EventsAre ==
  ASSUME NEW t \in EventTypes, NEW c \in Int
  PROVE  LLMEvent(t, c) \in StreamEvents /\ LLMEvent(t, c).type = t /\ LLMEvent(t, c).of = c
BY DEF LLMEvent, StreamEvents

LEMMA StreamStart == StreamInit => StreamInv
<1> SUFFICES ASSUME StreamInit PROVE StreamInv
  OBVIOUS
<1>0. <<>> \in Seq(StreamEvents)
  BY NothingSaid
<1>1. StreamTypes
  <2>1. markers \in BOOLEAN /\ mixed \in BOOLEAN
    BY DEF StreamInit
  <2>2. /\ chunks \in Nat /\ opened \in Nat /\ tcState \in Int /\ block \in Int
        /\ protocol \in Protocols /\ wireAt \in {"request", "open", "finished", "closed"}
    BY DEF StreamInit, None
  <2>3. events \in Seq(StreamEvents)
    BY <1>0 DEF StreamInit
  <2> QED
    BY <2>1, <2>2, <2>3 DEF StreamTypes
<1> QED
  BY <1>1, NothingSaid DEF StreamInit, StreamInv, EndsInv, FinishInv, None

\* A stream that goes on behind its Finish: nobody takes what it yields, and
\* an anthropic text after a call only weakens what was promised.
LEMMA GoesOn ==
  ASSUME StreamInv, wireAt = "finished",
         TextBlock \/ TextChunk \/ OpenCall \/ BlockStops \/ Finished \/ HangsUp \/ Breaks
  PROVE  StreamInv'
<1>0. StreamTypes /\ EndsInv /\ FinishInv
  BY DEF StreamInv
<1>1. UNCHANGED <<protocol, events>> /\ wireAt' \in {"finished", "closed"}
  BY DEF TextBlock, TextChunk, OpenCall, BlockStops, Finished, HangsUp, Breaks, Yield
<1>2. markers' \in BOOLEAN /\ mixed' \in BOOLEAN /\ (mixed => mixed')
  BY <1>0 DEF StreamTypes, TextBlock, TextChunk, OpenCall, BlockStops, Finished, HangsUp, Breaks
<1>3. chunks' \in Nat /\ opened' \in Nat /\ tcState' \in Int /\ block' \in Int
  <2>1. chunks \in Nat /\ opened \in Nat /\ tcState \in Int /\ block \in Int
    BY <1>0 DEF StreamTypes
  <2>2. /\ chunks' \in {chunks, chunks + 1} /\ opened' \in {opened, opened + 1}
        /\ tcState' \in {tcState, opened + 1} /\ block' \in {block, None, Text, opened + 1}
    <3>1. CASE TextBlock \/ TextChunk
      BY <3>1 DEF TextBlock, TextChunk
    <3>2. CASE OpenCall
      BY <3>2 DEF OpenCall
    <3>3. CASE BlockStops \/ Finished \/ HangsUp \/ Breaks
      BY <3>3 DEF BlockStops, Finished, HangsUp, Breaks
    <3> QED
      BY <3>1, <3>2, <3>3
  <2> QED
    BY <2>1, <2>2 DEF None, Text
<1>4. StreamTypes'
  BY <1>0, <1>1, <1>2, <1>3 DEF StreamTypes
<1>5. EndsInv' /\ FinishInv'
  BY <1>0, <1>1, <1>2 DEF EndsInv, FinishInv
<1> QED
  BY <1>1, <1>4, <1>5 DEF StreamInv

\* A stream that only stops, or is told of an error.
LEMMA StopsHold ==
  ASSUME StreamInv, wireAt \in {"request", "open"}, Refused \/ HangsUp \/ Breaks
  PROVE  StreamInv'
<1> USE DEF StreamInv
<1>1. NoFinish(events)
  BY NothingSaid DEF OpenInv
<1>2. /\ wireAt' = "closed"
      /\ UNCHANGED <<protocol, chunks, markers, opened, block, tcState, mixed>>
      /\ events' = events \/ events' = events \o <<LLMEvent("Error", 0)>>
  BY DEF Refused, HangsUp, Breaks, Yield
<1>3. CASE events' = events
  BY <1>1, <1>2, <1>3 DEF StreamTypes, EndsInv, FinishInv
<1>4. CASE events' = events \o <<LLMEvent("Error", 0)>>
  <2> DEFINE e == LLMEvent("Error", 0)
  <2>1. e \in StreamEvents /\ e.type = "Error"
    BY EventsAre DEF EventTypes
  <2>2. events \in Seq(StreamEvents)
    BY DEF StreamTypes
  <2> HIDE DEF e
  <2>3. /\ events \o <<e>> \in Seq(StreamEvents)
        /\ NoFinish(events \o <<e>>) /\ FinishLast(events \o <<e>>)
        /\ EndedOnce(events) => EndedOnce(events \o <<e>>)
        /\ StartedFirst(events) => StartedFirst(events \o <<e>>)
    BY <1>1, <2>1, <2>2, OneMoreSaid
  <2>4. events' = events \o <<e>>
    BY <1>4 DEF e
  <2> QED
    BY <1>2, <2>3, <2>4 DEF StreamTypes, EndsInv, FinishInv
<1> QED
  BY <1>2, <1>3, <1>4

\* Events of text, which say nothing of a call.
TextOnly(es) ==
  /\ es \in Seq(StreamEvents) /\ NoFinish(es)
  /\ \A c : ~Saw(es, "ToolCallStarted", c) /\ ~Saw(es, "ToolCallEnded", c)

LEMMA TextSaid ==
  ASSUME NEW a \in Seq(StreamEvents), NEW b, TextOnly(b)
  PROVE  /\ a \o b \in Seq(StreamEvents)
         /\ \A c : Saw(a \o b, "ToolCallStarted", c) <=> Saw(a, "ToolCallStarted", c)
         /\ \A c : Saw(a \o b, "ToolCallEnded", c) <=> Saw(a, "ToolCallEnded", c)
         /\ NoFinish(a) => NoFinish(a \o b)
         /\ EndedOnce(a) => EndedOnce(a \o b)
         /\ StartedFirst(a) => StartedFirst(a \o b)
         /\ TextOnly(a) => TextOnly(a \o b)
<1>1. b \in Seq(StreamEvents) /\ NoFinish(b)
      /\ \A c : ~Saw(b, "ToolCallStarted", c) /\ ~Saw(b, "ToolCallEnded", c)
  BY DEF TextOnly
<1>2. EndedOnce(b)
  <2> SUFFICES ASSUME NEW j \in 1 .. Len(b), b[j].type = "ToolCallEnded" PROVE FALSE
    BY DEF EndedOnce
  <2> QED
    BY <1>1 DEF Saw
<1>3. /\ a \o b \in Seq(StreamEvents)
      /\ \A t : \A c : Saw(a \o b, t, c) <=> Saw(a, t, c) \/ Saw(b, t, c)
      /\ NoFinish(a) /\ NoFinish(b) => NoFinish(a \o b)
      /\ EndedOnce(a) /\ EndedOnce(b)
         /\ (\A c \in Int : ~(Saw(a, "ToolCallEnded", c) /\ Saw(b, "ToolCallEnded", c)))
         => EndedOnce(a \o b)
      /\ StartedFirst(a)
         /\ (StartedFirst(b) \/ \A c \in Int : Saw(b, "ToolCallEnded", c) => Saw(a, "ToolCallStarted", c))
         => StartedFirst(a \o b)
  BY <1>1, MoreSaid
<1> QED
  BY <1>1, <1>2, <1>3 DEF TextOnly

LEMMA TextIsOnly ==
  /\ TextOnly(<<>>)
  /\ \A t \in {"TextStarted", "TextDelta", "TextEnded"} : \A n \in Int : TextOnly(<<LLMEvent(t, n)>>)
<1>1. TextOnly(<<>>)
  BY NothingSaid DEF TextOnly
<1>2. ASSUME NEW t \in {"TextStarted", "TextDelta", "TextEnded"}, NEW n \in Int
      PROVE  TextOnly(<<LLMEvent(t, n)>>)
  <2> DEFINE e == LLMEvent(t, n)
  <2>1. e \in StreamEvents /\ e.type = t
    BY EventsAre DEF EventTypes
  <2> HIDE DEF e
  <2>2. /\ <<e>> \in Seq(StreamEvents)
        /\ \A u : \A c : Saw(<<e>>, u, c) <=> e.type = u /\ e.of = c
        /\ e.type # "Finish" => NoFinish(<<e>>)
    BY <2>1, OneSaid
  <2>3. TextOnly(<<e>>)
    BY <2>1, <2>2 DEF TextOnly
  <2> QED
    BY <2>3 DEF e
<1> QED
  BY <1>1, <1>2

\* The connection is made: the stream opens, and nothing but a start is said.
LEMMA ConnectedHolds == StreamInv /\ Connected => StreamInv'
<1> SUFFICES ASSUME StreamInv, Connected PROVE StreamInv'
  OBVIOUS
<1>1. /\ StreamTypes /\ events = <<>> /\ opened = 0 /\ chunks = 0 /\ block = None /\ tcState = None
      /\ ~markers /\ ~mixed
  BY DEF StreamInv, Connected
<1>2. PICK b : TextOnly(b) /\ events' = events \o b
  <2> DEFINE s == IF protocol \in {"chat", "anthropic"} THEN <<LLMEvent("TextStarted", 0)>> ELSE <<>>
  <2>1. TextOnly(<<LLMEvent("TextStarted", 0)>>) /\ TextOnly(<<>>)
    BY TextIsOnly
  <2>2. TextOnly(s)
    BY <2>1
  <2>3. events' = events \o s
    BY DEF Connected, Yield
  <2> QED
    BY <2>2, <2>3
<1>3. /\ events' \in Seq(StreamEvents) /\ NoFinish(events') /\ EndedOnce(events') /\ StartedFirst(events')
      /\ \A c : ~Saw(events', "ToolCallStarted", c) /\ ~Saw(events', "ToolCallEnded", c)
  BY <1>1, <1>2, NothingSaid, TextSaid
<1>4. /\ wireAt' = "open" /\ protocol # "legacy"
      /\ UNCHANGED <<protocol, chunks, markers, opened, block, tcState, mixed>>
  BY DEF Connected
<1>5. StreamTypes' /\ EndsInv'
  BY <1>1, <1>3, <1>4 DEF StreamTypes, EndsInv
<1>6. FinishInv'
  BY <1>3 DEF FinishInv, FinishLast, NoFinish
<1>7. OpenInv'
  BY <1>1, <1>3, <1>4 DEF OpenInv, None, Text
<1> QED
  BY <1>4, <1>5, <1>6, <1>7 DEF StreamInv

\* Text is received.
LEMMA TextHolds == StreamInv /\ wireAt = "open" /\ (TextBlock \/ TextChunk) => StreamInv'
<1> SUFFICES ASSUME StreamInv, wireAt = "open", TextBlock \/ TextChunk PROVE StreamInv'
  OBVIOUS
<1>1. /\ StreamTypes /\ EndsInv /\ OpenInv /\ wireAt = "open"
  BY DEF StreamInv, TextBlock, TextChunk
<1>2. PICK b : TextOnly(b) /\ events' = events \o b
  <2>1. CASE TextBlock
    <3>1. TextOnly(<<LLMEvent("TextDelta", 0)>>) /\ <<LLMEvent("TextDelta", 0)>> \in Seq(StreamEvents)
      BY TextIsOnly DEF TextOnly
    <3>2. TextOnly(<<LLMEvent("TextStarted", 0)>>) /\ <<LLMEvent("TextStarted", 0)>> \in Seq(StreamEvents)
      BY TextIsOnly DEF TextOnly
    <3>3. TextOnly(<<>>) /\ <<>> \in Seq(StreamEvents)
      BY TextIsOnly DEF TextOnly
    <3> DEFINE s == IF protocol = "responses" THEN <<LLMEvent("TextStarted", 0)>> ELSE <<>>
    <3>4. TextOnly(s) /\ s \in Seq(StreamEvents)
      BY <3>2, <3>3
    <3>5. events' = events \o (s \o <<LLMEvent("TextDelta", 0)>>)
      BY <2>1 DEF TextBlock, Yield
    <3> HIDE DEF s
    <3> QED
      BY <3>1, <3>4, <3>5, TextSaid
  <2>2. CASE TextChunk
    <3>1. TextOnly(<<LLMEvent("TextDelta", 0)>>)
      BY TextIsOnly
    <3>2. events' = events \o <<LLMEvent("TextDelta", 0)>>
      BY <2>2 DEF TextChunk, Yield
    <3> QED
      BY <3>1, <3>2
  <2> QED
    BY <2>1, <2>2
<1>3. /\ events' \in Seq(StreamEvents) /\ NoFinish(events')
      /\ \A c : Saw(events', "ToolCallStarted", c) <=> Saw(events, "ToolCallStarted", c)
      /\ \A c : Saw(events', "ToolCallEnded", c) <=> Saw(events, "ToolCallEnded", c)
      /\ EndedOnce(events) => EndedOnce(events')
      /\ StartedFirst(events) => StartedFirst(events')
  BY <1>1, <1>2, TextSaid DEF StreamTypes, OpenInv
<1>4. /\ wireAt' = "open" /\ UNCHANGED <<protocol, opened, tcState>>
      /\ chunks' = chunks + 1 /\ markers' \in BOOLEAN /\ mixed' \in BOOLEAN /\ block' \in Int
      /\ (mixed => mixed') /\ (protocol # "chat" => markers' \in {markers, FALSE})
      /\ (protocol = "anthropic" /\ block # Text => opened = 0 \/ mixed')
      /\ (block' = block \/ (block = None /\ block' = Text /\ protocol # "chat"))
      /\ (block' = block => mixed' = mixed)
  <2>1. CASE TextBlock
    <3>1. mixed \in BOOLEAN /\ mixed' = (mixed \/ (protocol = "anthropic" /\ opened > 0))
      BY <1>1, <2>1 DEF TextBlock, StreamTypes
    <3>2. mixed' \in BOOLEAN /\ (mixed => mixed')
      BY <3>1
    <3>3. protocol = "anthropic" => opened = 0 \/ mixed'
      <4>1. opened = 0 \/ opened > 0
        BY <1>1 DEF StreamTypes
      <4> QED
        BY <3>1, <4>1, Zenon
    <3>4. /\ wireAt' = "open" /\ UNCHANGED <<protocol, opened, tcState>>
          /\ chunks' = chunks + 1 /\ block' \in Int /\ block' # block
          /\ block = None /\ block' = Text /\ protocol # "chat"
      BY <2>1 DEF TextBlock, Text, None
    <3>5. markers' \in BOOLEAN /\ markers' \in {markers, FALSE}
      BY <1>1, <2>1 DEF TextBlock, StreamTypes
    <3>6. block' # block
      BY <3>4
    <3>7. (block' = block => mixed' = mixed)
          /\ (block' = block \/ (block = None /\ block' = Text /\ protocol # "chat"))
      BY <3>4, <3>6, Zenon
    <3>8. wireAt' = "open" /\ UNCHANGED <<protocol, opened, tcState>> /\ chunks' = chunks + 1 /\ block' \in Int
      BY <3>4
    <3> QED
      BY <3>2, <3>3, <3>5, <3>7, <3>8, Zenon
  <2>2. CASE TextChunk
    BY <1>1, <2>2 DEF TextChunk, StreamTypes, OpenInv
  <2> QED
    BY <2>1, <2>2
<1>5. StreamTypes'
  BY <1>1, <1>3, <1>4 DEF StreamTypes
<1>6. EndsInv'
  BY <1>1, <1>3, <1>4 DEF EndsInv
<1>7. FinishInv'
  BY <1>3 DEF FinishInv, FinishLast, NoFinish
<1>8. OpenInv'
  <2>1. /\ NoFinish(events') /\ protocol' # "legacy" /\ (protocol' # "chat" => ~markers')
        /\ block' \in {None, Text, opened'} /\ (protocol' = "chat" => block' = None)
        /\ (protocol' = "anthropic" => tcState' = opened')
    BY <1>1, <1>3, <1>4 DEF OpenInv
  <2>2. protocol' = "anthropic" /\ ~mixed' /\ block' = Text => opened' = 0
    BY <1>1, <1>4 DEF OpenInv, Text, None
  <2>3. \A c \in Int : Saw(events', "ToolCallStarted", c) <=> c \in 1 .. opened'
    BY <1>1, <1>3, <1>4 DEF OpenInv
  <2>4. \A c \in 1 .. opened : c # block <=> c # block'
    BY <1>1, <1>4 DEF StreamTypes, Text, None
  <2>5. protocol' # "chat" => \A c \in 1 .. opened' : c # block' => Saw(events', "ToolCallEnded", c)
    BY <1>1, <1>3, <1>4, <2>4 DEF OpenInv
  <2>6. ~mixed' => \A c \in Int : Saw(events', "ToolCallEnded", c) =>
                 protocol' # "chat" /\ c \in 1 .. opened' /\ c # block'
    BY <1>1, <1>3, <1>4, <2>4 DEF OpenInv
  <2>7. protocol' = "chat" => \A c \in Int : ~Saw(events', "ToolCallEnded", c)
    BY <1>1, <1>3, <1>4 DEF OpenInv
  <2> QED
    BY <2>1, <2>2, <2>3, <2>5, <2>6, <2>7 DEF OpenInv
<1> QED
  BY <1>4, <1>5, <1>6, <1>7, <1>8 DEF StreamInv

\* A call is opened: it gets the next number, which nobody has ended.
LEMMA OpenCallHolds == StreamInv /\ wireAt = "open" /\ OpenCall => StreamInv'
<1> SUFFICES ASSUME StreamInv, wireAt = "open", OpenCall PROVE StreamInv'
  OBVIOUS
<1> DEFINE e == LLMEvent("ToolCallStarted", opened + 1)
<1>1. StreamTypes /\ EndsInv /\ OpenInv /\ opened \in Nat /\ events \in Seq(StreamEvents)
  BY DEF StreamInv, OpenCall, StreamTypes
<1>2. e \in StreamEvents /\ e.type = "ToolCallStarted" /\ e.of = opened + 1
  BY <1>1, EventsAre DEF EventTypes
<1>3. events' = events \o <<e>>
  BY DEF OpenCall, Yield
<1> HIDE DEF e
<1>4. /\ events' \in Seq(StreamEvents) /\ NoFinish(events')
      /\ \A c : Saw(events', "ToolCallStarted", c) <=> Saw(events, "ToolCallStarted", c) \/ c = opened + 1
      /\ \A c : Saw(events', "ToolCallEnded", c) <=> Saw(events, "ToolCallEnded", c)
      /\ EndedOnce(events) => EndedOnce(events')
      /\ StartedFirst(events) => StartedFirst(events')
  <2>1. /\ events \o <<e>> \in Seq(StreamEvents)
        /\ \A t : \A c : Saw(events \o <<e>>, t, c) <=> Saw(events, t, c) \/ (e.type = t /\ e.of = c)
        /\ NoFinish(events) /\ e.type # "Finish" => NoFinish(events \o <<e>>)
        /\ EndedOnce(events) /\ (e.type = "ToolCallEnded" => ~Saw(events, "ToolCallEnded", e.of))
           => EndedOnce(events \o <<e>>)
        /\ StartedFirst(events) /\ (e.type = "ToolCallEnded" => Saw(events, "ToolCallStarted", e.of))
           => StartedFirst(events \o <<e>>)
    BY <1>1, <1>2, OneMoreSaid
  <2>2. NoFinish(events)
    BY <1>1 DEF OpenInv
  <2> QED
    BY <1>2, <1>3, <2>1, <2>2
<1>5. /\ wireAt' = "open" /\ UNCHANGED <<protocol, chunks, markers, mixed>> /\ opened' = opened + 1
      /\ (protocol = "chat" => block' = None) /\ (protocol # "chat" => block' = opened + 1 /\ block = None)
      /\ (protocol = "anthropic" => tcState' = opened + 1) /\ tcState' \in Int /\ block' \in Int
  BY <1>1 DEF OpenCall, StreamTypes, None
<1>6. StreamTypes'
  BY <1>1, <1>4, <1>5 DEF StreamTypes
<1>7. EndsInv'
  BY <1>1, <1>4, <1>5 DEF EndsInv
<1>8. FinishInv'
  BY <1>4 DEF FinishInv, FinishLast, NoFinish
<1>9. OpenInv'
  <2>0. \A c \in Int : c \in 1 .. opened + 1 <=> c \in 1 .. opened \/ c = opened + 1
    BY <1>1
  <2>1. /\ NoFinish(events') /\ protocol' # "legacy" /\ (protocol' # "chat" => ~markers')
        /\ block' \in {None, Text, opened'} /\ (protocol' = "chat" => block' = None)
        /\ (protocol' = "anthropic" => tcState' = opened')
    BY <1>1, <1>4, <1>5 DEF OpenInv
  <2>2. protocol' = "anthropic" => block' # Text
    BY <1>1, <1>5 DEF Text
  <2>3. \A c \in Int : Saw(events', "ToolCallStarted", c) <=> c \in 1 .. opened'
    BY <1>1, <1>4, <1>5, <2>0 DEF OpenInv
  <2>4. \A c \in 1 .. opened : c # None /\ c # opened + 1
    BY <1>1 DEF None
  <2>5. protocol' # "chat" => \A c \in 1 .. opened' : c # block' => Saw(events', "ToolCallEnded", c)
    BY <1>1, <1>4, <1>5, <2>0, <2>4 DEF OpenInv
  <2>6. ~mixed' => \A c \in Int : Saw(events', "ToolCallEnded", c) =>
                 protocol' # "chat" /\ c \in 1 .. opened' /\ c # block'
    BY <1>1, <1>4, <1>5, <2>0, <2>4 DEF OpenInv
  <2>7. protocol' = "chat" => \A c \in Int : ~Saw(events', "ToolCallEnded", c)
    BY <1>1, <1>4, <1>5 DEF OpenInv
  <2> QED
    BY <2>1, <2>2, <2>3, <2>5, <2>6, <2>7 DEF OpenInv
<1> QED
  BY <1>5, <1>6, <1>7, <1>8, <1>9 DEF StreamInv

\* A block ends, and with it its call; anthropic ends the last call, which is
\* the one of the block unless a text came after it.
LEMMA BlockStopsHolds == StreamInv /\ wireAt = "open" /\ BlockStops => StreamInv'
<1> SUFFICES ASSUME StreamInv, wireAt = "open", BlockStops PROVE StreamInv'
  OBVIOUS
<1>1. /\ StreamTypes /\ EndsInv /\ OpenInv /\ opened \in Nat /\ events \in Seq(StreamEvents)
      /\ protocol # "chat" /\ NoFinish(events)
  BY DEF StreamInv, BlockStops, StreamTypes, OpenInv
<1>2. /\ wireAt' = "open" /\ block' = None /\ block # None
      /\ UNCHANGED <<protocol, chunks, markers, opened, tcState, mixed>>
  BY DEF StreamInv, BlockStops
<1>3. CASE \E b : TextOnly(b) /\ events' = events \o b /\ (block = Text \/ opened = 0)
  <2>1. /\ events' \in Seq(StreamEvents) /\ NoFinish(events')
        /\ \A c : Saw(events', "ToolCallStarted", c) <=> Saw(events, "ToolCallStarted", c)
        /\ \A c : Saw(events', "ToolCallEnded", c) <=> Saw(events, "ToolCallEnded", c)
        /\ EndedOnce(events) => EndedOnce(events')
        /\ StartedFirst(events) => StartedFirst(events')
    BY <1>1, <1>3, TextSaid
  <2>2. StreamTypes' /\ EndsInv'
    BY <1>1, <1>2, <2>1 DEF StreamTypes, EndsInv, None
  <2>3. FinishInv'
    BY <2>1 DEF FinishInv, FinishLast, NoFinish
  <2>4. \A c \in 1 .. opened : c # block /\ c # None
    BY <1>1, <1>3 DEF Text, None
  <2>5. OpenInv'
    BY <1>1, <1>2, <2>1, <2>4 DEF OpenInv, Text, None
  <2> QED
    BY <1>2, <2>2, <2>3, <2>5 DEF StreamInv
<1>4. CASE /\ events' = events \o <<LLMEvent("ToolCallEnded", opened)>> /\ opened > 0
           /\ (~mixed => block = opened) /\ (block # opened => block = Text)
  <2> DEFINE e == LLMEvent("ToolCallEnded", opened)
  <2>1. e \in StreamEvents /\ e.type = "ToolCallEnded" /\ e.of = opened
    BY <1>1, EventsAre DEF EventTypes
  <2>2. events' = events \o <<e>>
    BY <1>4
  <2> HIDE DEF e
  <2>3. /\ events \o <<e>> \in Seq(StreamEvents)
        /\ \A t : \A c : Saw(events \o <<e>>, t, c) <=> Saw(events, t, c) \/ (e.type = t /\ e.of = c)
        /\ NoFinish(events) /\ e.type # "Finish" => NoFinish(events \o <<e>>)
        /\ EndedOnce(events) /\ (e.type = "ToolCallEnded" => ~Saw(events, "ToolCallEnded", e.of))
           => EndedOnce(events \o <<e>>)
        /\ StartedFirst(events) /\ (e.type = "ToolCallEnded" => Saw(events, "ToolCallStarted", e.of))
           => StartedFirst(events \o <<e>>)
    BY <1>1, <2>1, OneMoreSaid
  <2>4. /\ opened \in Int /\ opened \in 1 .. opened
        /\ Saw(events, "ToolCallStarted", opened)
        /\ (~mixed => ~Saw(events, "ToolCallEnded", opened))
    BY <1>1, <1>4 DEF OpenInv
  <2>5. /\ events' \in Seq(StreamEvents) /\ NoFinish(events')
        /\ \A c : Saw(events', "ToolCallStarted", c) <=> Saw(events, "ToolCallStarted", c)
        /\ \A c : Saw(events', "ToolCallEnded", c) <=> Saw(events, "ToolCallEnded", c) \/ c = opened
        /\ ~mixed /\ EndedOnce(events) => EndedOnce(events')
        /\ StartedFirst(events) => StartedFirst(events')
    BY <1>1, <2>1, <2>2, <2>3, <2>4
  <2>6. StreamTypes' /\ EndsInv'
    BY <1>1, <1>2, <2>5 DEF StreamTypes, EndsInv, None
  <2>7. FinishInv'
    BY <2>5 DEF FinishInv, FinishLast, NoFinish
  <2>8. \A c \in 1 .. opened : c # None /\ (c # block \/ c = opened)
    BY <1>1, <1>4 DEF Text, None
  <2>9. OpenInv'
    <3>1. /\ NoFinish(events') /\ protocol' # "legacy" /\ (protocol' # "chat" => ~markers')
          /\ block' \in {None, Text, opened'} /\ (protocol' = "chat" => block' = None)
          /\ (protocol' = "anthropic" => tcState' = opened')
          /\ block' # Text /\ protocol' # "chat"
      BY <1>1, <1>2, <2>5 DEF OpenInv, None, Text
    <3>2. \A c \in Int : Saw(events', "ToolCallStarted", c) <=> c \in 1 .. opened'
      BY <1>1, <1>2, <2>5 DEF OpenInv
    <3>3. \A c \in 1 .. opened' : c # block' => Saw(events', "ToolCallEnded", c)
      BY <1>1, <1>2, <2>5, <2>8 DEF OpenInv
    <3>4. ~mixed' => \A c \in Int : Saw(events', "ToolCallEnded", c) =>
                   c \in 1 .. opened' /\ c # block'
      BY <1>1, <1>2, <2>4, <2>5, <2>8 DEF OpenInv
    <3> QED
      BY <3>1, <3>2, <3>3, <3>4 DEF OpenInv
  <2> QED
    BY <1>2, <2>6, <2>7, <2>9 DEF StreamInv
<1>5. CASE protocol = "anthropic" /\ tcState # None
  <2>1. tcState = opened /\ opened > 0 /\ block \in {Text, opened} /\ (~mixed => block # Text)
    BY <1>1, <1>2, <1>5 DEF OpenInv, None
  <2> QED
    BY <1>4, <1>5, <2>1 DEF BlockStops, Yield
<1>6. CASE protocol = "anthropic" /\ tcState = None
  <2>1. opened = 0 /\ events' = events \o <<LLMEvent("TextEnded", 0)>>
    BY <1>1, <1>6 DEF OpenInv, None, BlockStops, Yield
  <2>2. TextOnly(<<LLMEvent("TextEnded", 0)>>)
    BY TextIsOnly
  <2> QED
    BY <1>3, <2>1, <2>2
<1>7. CASE protocol # "anthropic" /\ block # Text
  <2>1. block = opened /\ opened > 0 /\ events' = events \o <<LLMEvent("ToolCallEnded", opened)>>
    BY <1>1, <1>2, <1>7 DEF OpenInv, None, BlockStops, Yield
  <2> QED
    BY <1>4, <2>1
<1>8. CASE protocol # "anthropic" /\ block = Text
  <2>1. events' = events \o <<>>
    BY <1>8 DEF BlockStops, Yield
  <2> QED
    BY <1>3, <1>8, <2>1, TextIsOnly
<1> QED
  BY <1>5, <1>6, <1>7, <1>8

\* The calls of the chat protocol are ended together.
LEMMA EndedTogether ==
  ASSUME NEW n \in Nat
  PROVE  /\ CallsEnded(n) \in Seq(StreamEvents) /\ NoFinish(CallsEnded(n)) /\ EndedOnce(CallsEnded(n))
         /\ \A c : Saw(CallsEnded(n), "ToolCallEnded", c) <=> c \in 1 .. n
         /\ \A c : ~Saw(CallsEnded(n), "ToolCallStarted", c)
<1> DEFINE s == CallsEnded(n)
<1>1. \A i \in 1 .. n : /\ LLMEvent("ToolCallEnded", i) \in StreamEvents
                        /\ LLMEvent("ToolCallEnded", i).type = "ToolCallEnded"
                        /\ LLMEvent("ToolCallEnded", i).of = i
  BY EventsAre DEF EventTypes
<1>2. s = [i \in 1 .. n |-> LLMEvent("ToolCallEnded", i)]
  BY DEF CallsEnded
<1>3. s \in [1 .. n -> StreamEvents]
  BY <1>1, <1>2
<1>4. s \in Seq(StreamEvents) /\ Len(s) = n
  BY <1>3, SeqDef, LenProperties
<1>5. \A i \in 1 .. n : s[i].type = "ToolCallEnded" /\ s[i].of = i
  BY <1>1, <1>2
<1> HIDE DEF s
<1>6. NoFinish(s) /\ EndedOnce(s)
  BY <1>4, <1>5 DEF NoFinish, EndedOnce
<1>7. /\ \A c : Saw(s, "ToolCallEnded", c) <=> c \in 1 .. n
      /\ \A c : ~Saw(s, "ToolCallStarted", c)
  BY <1>4, <1>5 DEF Saw
<1> QED
  BY <1>4, <1>6, <1>7 DEF s

\* A Finish completes events without one.
LEMMA FinishSaid ==
  ASSUME NEW a \in Seq(StreamEvents), NoFinish(a), NEW n \in Int
  PROVE  /\ a \o <<LLMEvent("Finish", n)>> \in Seq(StreamEvents)
         /\ \A t \in EventTypes : t # "Finish" =>
              \A c : Saw(a \o <<LLMEvent("Finish", n)>>, t, c) <=> Saw(a, t, c)
         /\ FinishLast(a \o <<LLMEvent("Finish", n)>>)
         /\ EndedOnce(a) => EndedOnce(a \o <<LLMEvent("Finish", n)>>)
         /\ StartedFirst(a) => StartedFirst(a \o <<LLMEvent("Finish", n)>>)
         /\ LET b == a \o <<LLMEvent("Finish", n)>> IN b[Len(b)].of = n
<1> DEFINE e == LLMEvent("Finish", n)
<1>1. e \in StreamEvents /\ e.type = "Finish" /\ e.of = n
  BY EventsAre DEF EventTypes
<1> HIDE DEF e
<1>2. /\ a \o <<e>> \in Seq(StreamEvents)
      /\ \A t : \A c : Saw(a \o <<e>>, t, c) <=> Saw(a, t, c) \/ (e.type = t /\ e.of = c)
      /\ NoFinish(a) => FinishLast(a \o <<e>>)
      /\ EndedOnce(a) /\ (e.type = "ToolCallEnded" => ~Saw(a, "ToolCallEnded", e.of))
         => EndedOnce(a \o <<e>>)
      /\ StartedFirst(a) /\ (e.type = "ToolCallEnded" => Saw(a, "ToolCallStarted", e.of))
         => StartedFirst(a \o <<e>>)
  BY <1>1, OneMoreSaid
<1>3. /\ a \o <<e>> \in Seq(StreamEvents)
      /\ \A t \in EventTypes : t # "Finish" => \A c : Saw(a \o <<e>>, t, c) <=> Saw(a, t, c)
      /\ FinishLast(a \o <<e>>)
      /\ EndedOnce(a) => EndedOnce(a \o <<e>>)
      /\ StartedFirst(a) => StartedFirst(a \o <<e>>)
  BY <1>1, <1>2
<1>4. (a \o <<e>>)[Len(a \o <<e>>)] = e
  <2>1. Len(a) \in Nat /\ <<e>> \in Seq(StreamEvents) /\ Len(<<e>>) = 1 /\ <<e>>[1] = e
    BY <1>1, LenProperties
  <2>2. Len(a \o <<e>>) = Len(a) + 1 /\ (a \o <<e>>)[Len(a) + 1] = <<e>>[1]
    BY <2>1, ConcatProperties
  <2> QED
    BY <2>1, <2>2
<1>5. LET b == a \o <<e>> IN b[Len(b)].of = n
  BY <1>1, <1>4
<1> QED
  BY <1>3, <1>5 DEF e

\* What completes a stream before the Finish: it ends calls that were started
\* and not yet ended, all of them, and the text.
Completes(z) ==
  /\ z \in Seq(StreamEvents) /\ NoFinish(z) /\ EndedOnce(z)
  /\ \A c \in Int : Saw(events, "ToolCallStarted", c) \/ Saw(z, "ToolCallStarted", c) =>
                    Saw(events, "ToolCallEnded", c) \/ Saw(z, "ToolCallEnded", c)
  /\ protocol # "anthropic" /\ chunks > 0 => Saw(z, "TextEnded", chunks)
  /\ \A c \in Int : ~(Saw(events, "ToolCallEnded", c) /\ Saw(z, "ToolCallEnded", c))
  /\ \/ StartedFirst(z)
     \/ \A c \in Int : Saw(z, "ToolCallEnded", c) => Saw(events, "ToolCallStarted", c)

LEMMA CompletesHolds ==
  ASSUME NEW z, Completes(z), StreamTypes, EndsInv, NoFinish(events), wireAt' \in {"finished", "closed"},
         protocol' = protocol, chunks \in Nat, chunks' = chunks, markers' \in BOOLEAN, opened' \in Nat,
         block' \in Int, tcState' \in Int, mixed' = mixed,
         events' = events \o (z \o <<LLMEvent("Finish", chunks)>>)
  PROVE  StreamInv'
<1> DEFINE a == events \o z
           fin == <<LLMEvent("Finish", chunks)>>
<1>1. z \in Seq(StreamEvents) /\ events \in Seq(StreamEvents) /\ fin \in Seq(StreamEvents)
  BY EventsAre DEF Completes, StreamTypes, EventTypes
<1>2. events' = a \o fin
  BY <1>1, ConcatAssociative
<1>3. /\ a \in Seq(StreamEvents)
      /\ \A t : \A c : Saw(a, t, c) <=> Saw(events, t, c) \/ Saw(z, t, c)
      /\ NoFinish(a)
      /\ EndedOnce(events) => EndedOnce(a)
      /\ StartedFirst(events) => StartedFirst(a)
  BY <1>1, MoreSaid DEF Completes
<1> HIDE DEF a
<1>4. /\ a \o fin \in Seq(StreamEvents)
      /\ \A t \in EventTypes : t # "Finish" => \A c : Saw(a \o fin, t, c) <=> Saw(a, t, c)
      /\ FinishLast(a \o fin)
      /\ EndedOnce(a) => EndedOnce(a \o fin)
      /\ StartedFirst(a) => StartedFirst(a \o fin)
      /\ (a \o fin)[Len(a \o fin)].of = chunks
  BY <1>3, FinishSaid
<1> HIDE DEF fin
<1>5. /\ \A c : Saw(events', "ToolCallStarted", c) <=> Saw(events, "ToolCallStarted", c) \/ Saw(z, "ToolCallStarted", c)
      /\ \A c : Saw(events', "ToolCallEnded", c) <=> Saw(events, "ToolCallEnded", c) \/ Saw(z, "ToolCallEnded", c)
      /\ \A c : Saw(events', "TextEnded", c) <=> Saw(events, "TextEnded", c) \/ Saw(z, "TextEnded", c)
  <2>1. {"ToolCallStarted", "ToolCallEnded", "TextEnded"} \subseteq EventTypes
    BY DEF EventTypes
  <2>2. /\ \A c : Saw(a \o fin, "ToolCallStarted", c) <=> Saw(a, "ToolCallStarted", c)
        /\ \A c : Saw(a \o fin, "ToolCallEnded", c) <=> Saw(a, "ToolCallEnded", c)
        /\ \A c : Saw(a \o fin, "TextEnded", c) <=> Saw(a, "TextEnded", c)
    BY <1>4, <2>1
  <2> QED
    BY <1>2, <1>3, <2>2
<1>6. AllIsSaid(events', protocol', chunks) /\ events'[Len(events')].of = chunks
  BY <1>2, <1>4, <1>5 DEF AllIsSaid, Completes
<1>7. FinishInv'
  BY <1>2, <1>4, <1>6 DEF FinishInv
<1>8. EndsInv'
  BY <1>2, <1>3, <1>4 DEF EndsInv
<1>9. StreamTypes'
  BY <1>2, <1>4 DEF StreamTypes
<1> QED
  BY <1>7, <1>8, <1>9 DEF StreamInv

\* The stream finishes: what it says last completes it.
LEMMA FinishedHolds == StreamInv /\ wireAt = "open" /\ Finished => StreamInv'
<1> SUFFICES ASSUME StreamInv, wireAt = "open", Finished PROVE StreamInv'
  OBVIOUS
<1> DEFINE fin  == <<LLMEvent("Finish", chunks)>>
           full == <<LLMEvent("TextEnded", chunks)>>
<1>1. /\ StreamTypes /\ EndsInv /\ OpenInv /\ opened \in Nat /\ chunks \in Nat /\ events \in Seq(StreamEvents)
      /\ NoFinish(events) /\ block = None /\ protocol # "legacy"
  BY DEF StreamInv, Finished, StreamTypes, OpenInv
<1>2. /\ wireAt' = "finished"
      /\ UNCHANGED <<protocol, chunks, markers, opened, block, tcState, mixed>>
      /\ events' = events \o Closing
  BY DEF Finished, Yield
<1>3. SUFFICES \E z : Closing = z \o fin /\ Completes(z)
  BY <1>1, <1>2, CompletesHolds DEF StreamTypes
<1>4. /\ \A c : Saw(events, "ToolCallStarted", c) /\ c \in Int => c \in 1 .. opened
      /\ protocol # "chat" => \A c \in 1 .. opened : Saw(events, "ToolCallEnded", c)
  BY <1>1 DEF OpenInv, None
<1>5. fin \in Seq(StreamEvents) /\ full \in Seq(StreamEvents)
  BY <1>1, EventsAre DEF EventTypes
<1>6. /\ NoFinish(full) /\ EndedOnce(full) /\ Saw(full, "TextEnded", chunks)
      /\ \A c : ~Saw(full, "ToolCallStarted", c) /\ ~Saw(full, "ToolCallEnded", c)
  <2> DEFINE e == LLMEvent("TextEnded", chunks)
  <2>1. e \in StreamEvents /\ e.type = "TextEnded" /\ e.of = chunks
    BY <1>1, EventsAre DEF EventTypes
  <2> HIDE DEF e
  <2>2. /\ \A t : \A c : Saw(<<e>>, t, c) <=> e.type = t /\ e.of = c
        /\ EndedOnce(<<e>>)
        /\ e.type # "Finish" => NoFinish(<<e>>)
    BY <2>1, OneSaid
  <2>3. full = <<e>>
    BY DEF e
  <2> HIDE DEF full
  <2> QED
    BY <2>1, <2>2, <2>3
<1>7. CASE protocol # "chat" /\ ~(protocol = "responses" /\ chunks > 0)
  <2>1. Closing = fin
    BY <1>7 DEF Closing
  <2>2. <<>> \o fin = fin
    BY <1>5, ConcatEmptySeq
  <2>3. protocol # "anthropic" => ~(chunks > 0)
    BY <1>1, <1>7 DEF StreamTypes, Protocols
  <2>4. Completes(<<>>)
    BY <1>4, <1>7, <2>3, NothingSaid DEF Completes
  <2> QED
    BY <2>1, <2>2, <2>4
<1>8. CASE protocol = "responses" /\ chunks > 0
  <2>1. Closing = full \o fin
    BY <1>8 DEF Closing
  <2> HIDE DEF full
  <2>2. Completes(full)
    BY <1>4, <1>5, <1>6, <1>8 DEF Completes
  <2> QED
    BY <2>1, <2>2
<1>9. CASE protocol = "chat"
  <2> DEFINE written == IF markers /\ opened = 0
                        THEN <<LLMEvent("ToolCallStarted", 1), LLMEvent("ToolCallEnded", 1)>> ELSE <<>>
             ended   == CallsEnded(opened)
  <2>1. Closing = ((written \o full) \o ended) \o fin
    BY <1>9 DEF Closing
  <2>2. /\ ended \in Seq(StreamEvents) /\ NoFinish(ended) /\ EndedOnce(ended)
        /\ \A c : Saw(ended, "ToolCallEnded", c) <=> c \in 1 .. opened
        /\ \A c : ~Saw(ended, "ToolCallStarted", c)
    BY <1>1, EndedTogether
  <2>3. /\ written \in Seq(StreamEvents) /\ NoFinish(written) /\ EndedOnce(written) /\ StartedFirst(written)
        /\ \A c : Saw(written, "ToolCallStarted", c) <=> Saw(written, "ToolCallEnded", c)
        /\ \A c : Saw(written, "ToolCallEnded", c) => opened = 0
    <3>1. CASE ~(markers /\ opened = 0)
      BY <3>1, NothingSaid
    <3>2. CASE markers /\ opened = 0
      <4> DEFINE e == LLMEvent("ToolCallStarted", 1)
                 f == LLMEvent("ToolCallEnded", 1)
      <4>1. /\ e \in StreamEvents /\ e.type = "ToolCallStarted" /\ e.of = 1
            /\ f \in StreamEvents /\ f.type = "ToolCallEnded" /\ f.of = 1
        BY EventsAre DEF EventTypes
      <4>2. written = <<e>> \o <<f>>
        BY <3>2
      <4> HIDE DEF e, f
      <4>3. /\ <<e>> \in Seq(StreamEvents)
            /\ \A t : \A c : Saw(<<e>>, t, c) <=> e.type = t /\ e.of = c
            /\ EndedOnce(<<e>>) /\ StartedFirst(<<e>>) /\ NoFinish(<<e>>)
        BY <4>1, OneSaid
      <4>4. /\ <<e>> \o <<f>> \in Seq(StreamEvents)
            /\ \A t : \A c : Saw(<<e>> \o <<f>>, t, c) <=> Saw(<<e>>, t, c) \/ (f.type = t /\ f.of = c)
            /\ NoFinish(<<e>> \o <<f>>) /\ EndedOnce(<<e>> \o <<f>>) /\ StartedFirst(<<e>> \o <<f>>)
        BY <4>1, <4>3, OneMoreSaid
      <4>5. /\ \A c : Saw(<<e>> \o <<f>>, "ToolCallStarted", c) <=> c = 1
            /\ \A c : Saw(<<e>> \o <<f>>, "ToolCallEnded", c) <=> c = 1
        BY <4>1, <4>3, <4>4
      <4> HIDE DEF written
      <4> QED
        BY <3>2, <4>2, <4>4, <4>5
    <3> QED
      BY <3>1, <3>2
  <2> HIDE DEF written, ended, full
  <2>4. StartedFirst(full)
    BY <1>6 DEF StartedFirst, Saw
  <2> DEFINE h == written \o full
             z == h \o ended
  <2>5. /\ h \in Seq(StreamEvents) /\ NoFinish(h) /\ EndedOnce(h) /\ StartedFirst(h)
        /\ \A t : \A c : Saw(h, t, c) <=> Saw(written, t, c) \/ Saw(full, t, c)
    BY <1>5, <1>6, <2>3, <2>4, MoreSaid
  <2> HIDE DEF h
  <2>6. \A c \in Int : ~(Saw(h, "ToolCallEnded", c) /\ Saw(ended, "ToolCallEnded", c))
    BY <1>6, <2>2, <2>3, <2>5
  <2>7. /\ z \in Seq(StreamEvents) /\ NoFinish(z) /\ EndedOnce(z)
        /\ \A t : \A c : Saw(z, t, c) <=> Saw(h, t, c) \/ Saw(ended, t, c)
        /\ (StartedFirst(ended) \/ \A c \in Int : Saw(ended, "ToolCallEnded", c) => Saw(h, "ToolCallStarted", c))
           => StartedFirst(z)
    BY <2>2, <2>5, <2>6, MoreSaid
  <2> HIDE DEF z
  <2>8. /\ \A c : Saw(z, "ToolCallStarted", c) => Saw(z, "ToolCallEnded", c)
        /\ \A c \in 1 .. opened : Saw(z, "ToolCallEnded", c)
        /\ Saw(z, "TextEnded", chunks)
    BY <1>6, <2>2, <2>3, <2>5, <2>7
  <2>9. \A c \in Int : ~Saw(events, "ToolCallEnded", c)
    BY <1>1, <1>9 DEF OpenInv
  <2>10. StartedFirst(z) \/ \A c \in Int : Saw(z, "ToolCallEnded", c) => Saw(events, "ToolCallStarted", c)
    <3>1. CASE opened = 0
      <4>1. \A c : ~Saw(ended, "ToolCallEnded", c)
        BY <2>2, <3>1
      <4> QED
        BY <2>7, <4>1
    <3>2. CASE opened # 0
      BY <1>1, <1>6, <2>2, <2>3, <2>5, <2>7, <3>2 DEF OpenInv
    <3> QED
      BY <3>1, <3>2
  <2>11. Completes(z)
    BY <1>4, <2>7, <2>8, <2>9, <2>10 DEF Completes
  <2>12. Closing = z \o fin
    BY <2>1 DEF z, h
  <2> QED
    BY <2>11, <2>12
<1> QED
  BY <1>7, <1>8, <1>9

\* The calls of the legacy adapter are settled one after the other.
LEMMA SettledInTurn ==
  ASSUME NEW n \in Nat
  PROVE  /\ CallsSettled(n) \in Seq(StreamEvents) /\ NoFinish(CallsSettled(n))
         /\ EndedOnce(CallsSettled(n)) /\ StartedFirst(CallsSettled(n))
         /\ \A c : Saw(CallsSettled(n), "ToolCallStarted", c) => Saw(CallsSettled(n), "ToolCallEnded", c)
<1> DEFINE s == CallsSettled(n)
           said == <<"ToolCallStarted", "ToolCallDelta", "ToolCallEnded", "ToolResult">>
           step(i) == (i - 1) % 4
           call(i) == ((i - 1) \div 4) + 1
<1>1. \A i \in 1 .. 4 * n : /\ i \in Int /\ step(i) \in 0 .. 3 /\ call(i) \in 1 .. n
                            /\ i = 4 * (call(i) - 1) + step(i) + 1
  OBVIOUS
<1>2. /\ said[1] = "ToolCallStarted" /\ said[2] = "ToolCallDelta"
      /\ said[3] = "ToolCallEnded" /\ said[4] = "ToolResult"
  OBVIOUS
<1>3. s = [i \in 1 .. 4 * n |-> LLMEvent(said[step(i) + 1], call(i))]
  BY DEF CallsSettled
<1>4. \A c \in 1 .. n : 4 * (c - 1) + 1 \in 1 .. 4 * n /\ 4 * (c - 1) + 3 \in 1 .. 4 * n
  OBVIOUS
<1>5. \A c \in 1 .. n : /\ step(4 * (c - 1) + 1) = 0 /\ call(4 * (c - 1) + 1) = c
                        /\ step(4 * (c - 1) + 3) = 2 /\ call(4 * (c - 1) + 3) = c
  OBVIOUS
<1>6. 4 * n \in Nat
  OBVIOUS
<1> HIDE DEF said, step, call
<1>7. \A i \in 1 .. 4 * n : /\ said[step(i) + 1] \in EventTypes /\ said[step(i) + 1] # "Finish"
                            /\ said[step(i) + 1] = "ToolCallStarted" <=> step(i) = 0
                            /\ said[step(i) + 1] = "ToolCallEnded" <=> step(i) = 2
  <2> SUFFICES ASSUME NEW i \in 1 .. 4 * n
               PROVE  /\ said[step(i) + 1] \in EventTypes /\ said[step(i) + 1] # "Finish"
                      /\ said[step(i) + 1] = "ToolCallStarted" <=> step(i) = 0
                      /\ said[step(i) + 1] = "ToolCallEnded" <=> step(i) = 2
    OBVIOUS
  <2>1. step(i) \in {0, 1, 2, 3}
    BY <1>1
  <2>2. \/ step(i) = 0 /\ said[step(i) + 1] = "ToolCallStarted"
        \/ step(i) = 1 /\ said[step(i) + 1] = "ToolCallDelta"
        \/ step(i) = 2 /\ said[step(i) + 1] = "ToolCallEnded"
        \/ step(i) = 3 /\ said[step(i) + 1] = "ToolResult"
    BY <1>2, <2>1
  <2> QED
    BY <2>2 DEF EventTypes
<1>8. \A i \in 1 .. 4 * n : /\ LLMEvent(said[step(i) + 1], call(i)) \in StreamEvents
                            /\ LLMEvent(said[step(i) + 1], call(i)).type = said[step(i) + 1]
                            /\ LLMEvent(said[step(i) + 1], call(i)).of = call(i)
  BY <1>1, <1>7, EventsAre
<1>9. s \in [1 .. 4 * n -> StreamEvents]
  BY <1>3, <1>8
<1>10. s \in Seq(StreamEvents) /\ Len(s) = 4 * n
  BY <1>6, <1>9, SeqDef, LenProperties
<1>11. \A i \in 1 .. 4 * n : /\ s[i].type # "Finish" /\ s[i].of = call(i)
                             /\ s[i].type = "ToolCallStarted" <=> step(i) = 0
                             /\ s[i].type = "ToolCallEnded" <=> step(i) = 2
  BY <1>3, <1>7, <1>8
<1> HIDE DEF s
<1>12. NoFinish(s)
  BY <1>10, <1>11 DEF NoFinish
<1>13. EndedOnce(s)
  <2> SUFFICES ASSUME NEW i \in 1 .. 4 * n, NEW j \in 1 .. 4 * n, s[i].type = "ToolCallEnded",
                      s[j].type = "ToolCallEnded", s[i].of = s[j].of
               PROVE  i = j
    BY <1>10 DEF EndedOnce
  <2>1. step(i) = 2 /\ step(j) = 2 /\ call(i) = call(j)
    BY <1>11
  <2> QED
    BY <1>1, <2>1
<1>14. StartedFirst(s)
  <2> SUFFICES ASSUME NEW i \in 1 .. 4 * n, s[i].type = "ToolCallEnded"
               PROVE  \E j \in 1 .. i - 1 : s[j].type = "ToolCallStarted" /\ s[j].of = s[i].of
    BY <1>10 DEF StartedFirst
  <2> DEFINE j == 4 * (call(i) - 1) + 1
  <2>1. step(i) = 2 /\ s[i].of = call(i) /\ call(i) \in 1 .. n
    BY <1>1, <1>11
  <2>2. j \in 1 .. 4 * n /\ step(j) = 0 /\ call(j) = call(i)
    BY <1>4, <1>5, <2>1
  <2>3. i = j + 2 /\ j \in 1 .. i - 1
    BY <1>1, <2>1, <2>2
  <2> QED
    BY <1>11, <2>1, <2>2, <2>3
<1>15. ASSUME NEW c, Saw(s, "ToolCallStarted", c) PROVE Saw(s, "ToolCallEnded", c)
  <2>1. PICK i \in 1 .. 4 * n : s[i].type = "ToolCallStarted" /\ s[i].of = c
    BY <1>10, <1>15 DEF Saw
  <2>2. c \in 1 .. n
    BY <1>1, <1>11, <2>1
  <2> DEFINE j == 4 * (c - 1) + 3
  <2>3. j \in 1 .. 4 * n /\ step(j) = 2 /\ call(j) = c
    BY <1>4, <1>5, <2>2
  <2> QED
    BY <1>10, <1>11, <2>3 DEF Saw
<1> QED
  BY <1>10, <1>12, <1>13, <1>14, <1>15 DEF s

\* The whole answer at once.
LEMMA WholeAnswerHolds ==
  ASSUME StreamInv, NEW n \in Nat, NEW m \in Nat, WholeAnswer(n, m)
  PROVE  StreamInv'
<1> DEFINE said == IF n > 0 THEN <<LLMEvent("TextDelta", 0), LLMEvent("TextEnded", n)>> ELSE <<>>
           head == IF protocol = "chat" \/ n > 0 THEN <<LLMEvent("TextStarted", 0)>> ELSE <<>>
           t    == head \o said
           s    == CallsSettled(m)
           a    == t \o s
           fin  == <<LLMEvent("Finish", n)>>
<1>1. StreamTypes /\ events = <<>>
  BY DEF StreamInv, WholeAnswer
<1>2. /\ TextOnly(<<>>) /\ TextOnly(<<LLMEvent("TextStarted", 0)>>)
      /\ TextOnly(<<LLMEvent("TextDelta", 0)>>) /\ TextOnly(<<LLMEvent("TextEnded", n)>>)
  BY TextIsOnly
<1>3. TextOnly(head)
  BY <1>2
<1>4. TextOnly(said) /\ (n > 0 => Saw(said, "TextEnded", n))
  <2>1. CASE ~(n > 0)
    BY <1>2, <2>1
  <2>2. CASE n > 0
    <3> DEFINE x == <<LLMEvent("TextDelta", 0)>>
               y == <<LLMEvent("TextEnded", n)>>
    <3>1. said = x \o y
      BY <2>2
    <3>2. Saw(y, "TextEnded", n)
      <4>1. LLMEvent("TextEnded", n) \in StreamEvents /\ LLMEvent("TextEnded", n).type = "TextEnded"
            /\ LLMEvent("TextEnded", n).of = n
        BY EventsAre DEF EventTypes
      <4> QED
        BY <4>1, OneSaid
    <3> HIDE DEF x, y, said
    <3>3. x \in Seq(StreamEvents) /\ y \in Seq(StreamEvents)
      BY <1>2 DEF TextOnly, x, y
    <3>4. TextOnly(x) /\ TextOnly(y)
      BY <1>2 DEF x, y
    <3>5. TextOnly(x \o y)
      BY <3>3, <3>4, TextSaid
    <3>6. Saw(x \o y, "TextEnded", n)
      BY <3>2, <3>3, MoreSaid
    <3> QED
      BY <3>1, <3>5, <3>6
  <2> QED
    BY <2>1, <2>2
<1>5. /\ wireAt' = "closed" /\ chunks' = n /\ opened' = m
      /\ UNCHANGED <<protocol, markers, block, tcState, mixed>>
      /\ events' = <<>> \o (((head \o said) \o CallsSettled(m)) \o <<LLMEvent("Finish", n)>>)
  BY <1>1 DEF WholeAnswer, Yield
<1> HIDE DEF head, said
<1>6. head \in Seq(StreamEvents) /\ said \in Seq(StreamEvents)
  BY <1>3, <1>4 DEF TextOnly
<1>7. TextOnly(t) /\ t \in Seq(StreamEvents) /\ (n > 0 => Saw(t, "TextEnded", n))
  BY <1>3, <1>4, <1>6, TextSaid, MoreSaid
<1> HIDE DEF t
<1>8. NoFinish(t) /\ EndedOnce(t) /\ StartedFirst(t)
      /\ \A c : ~Saw(t, "ToolCallStarted", c) /\ ~Saw(t, "ToolCallEnded", c)
  BY <1>7 DEF TextOnly, EndedOnce, StartedFirst, Saw
<1>9. /\ s \in Seq(StreamEvents) /\ NoFinish(s) /\ EndedOnce(s) /\ StartedFirst(s)
      /\ \A c : Saw(s, "ToolCallStarted", c) => Saw(s, "ToolCallEnded", c)
  BY SettledInTurn
<1> HIDE DEF s
<1>10. /\ a \in Seq(StreamEvents) /\ NoFinish(a) /\ EndedOnce(a) /\ StartedFirst(a)
       /\ \A u : \A c : Saw(a, u, c) <=> Saw(t, u, c) \/ Saw(s, u, c)
  BY <1>7, <1>8, <1>9, MoreSaid
<1> HIDE DEF a
<1>11. /\ a \o fin \in Seq(StreamEvents)
       /\ \A u \in EventTypes : u # "Finish" => \A c : Saw(a \o fin, u, c) <=> Saw(a, u, c)
       /\ FinishLast(a \o fin) /\ EndedOnce(a \o fin) /\ StartedFirst(a \o fin)
       /\ (a \o fin)[Len(a \o fin)].of = n
  BY <1>10, FinishSaid
<1>12. /\ \A c : Saw(a \o fin, "ToolCallStarted", c) <=> Saw(a, "ToolCallStarted", c)
       /\ \A c : Saw(a \o fin, "ToolCallEnded", c) <=> Saw(a, "ToolCallEnded", c)
       /\ \A c : Saw(a \o fin, "TextEnded", c) <=> Saw(a, "TextEnded", c)
  <2>1. {"ToolCallStarted", "ToolCallEnded", "TextEnded"} \subseteq EventTypes
    BY DEF EventTypes
  <2> QED
    BY <1>11, <2>1
<1>13. events' = a \o fin
  <2>1. events' = <<>> \o (a \o fin)
    BY <1>5 DEF a, t, s
  <2> QED
    BY <1>11, <2>1, ConcatEmptySeq
<1> HIDE DEF fin
<1>14. AllIsSaid(events', protocol', n)
  BY <1>5, <1>7, <1>8, <1>9, <1>10, <1>12, <1>13 DEF AllIsSaid
<1>15. StreamTypes'
  BY <1>1, <1>5, <1>11, <1>13 DEF StreamTypes
<1>16. FinishInv' /\ EndsInv'
  BY <1>11, <1>13, <1>14 DEF FinishInv, EndsInv
<1> QED
  BY <1>5, <1>15, <1>16 DEF StreamInv

LEMMA StreamStep == StreamInv /\ [StreamNext]_streamVars => StreamInv'
<1> SUFFICES ASSUME StreamInv, [StreamNext]_streamVars PROVE StreamInv'
  OBVIOUS
<1>1. CASE wireAt \in {"request", "open"} /\ (Refused \/ HangsUp \/ Breaks)
  BY <1>1, StopsHold
<1>11. Refused => wireAt = "request"
  BY DEF Refused
<1>2. CASE Connected
  BY <1>2, ConnectedHolds
<1>3. CASE wireAt = "open" /\ (TextBlock \/ TextChunk)
  BY <1>3, TextHolds
<1>4. CASE wireAt = "open" /\ OpenCall
  BY <1>4, OpenCallHolds
<1>5. CASE wireAt = "open" /\ BlockStops
  BY <1>5, BlockStopsHolds
<1>6. CASE wireAt = "open" /\ Finished
  BY <1>6, FinishedHolds
<1>9. CASE wireAt = "finished" /\ (TextBlock \/ TextChunk \/ OpenCall \/ BlockStops \/ Finished \/ HangsUp \/ Breaks)
  BY <1>9, GoesOn
<1>10. TextBlock \/ TextChunk \/ OpenCall \/ BlockStops \/ Finished \/ HangsUp \/ Breaks
       => wireAt \in {"open", "finished"}
  BY DEF TextBlock, TextChunk, OpenCall, BlockStops, Finished, HangsUp, Breaks, IsSending
<1>7. CASE \E n \in 0 .. 1, c \in 0 .. MaxStreamCalls : WholeAnswer(n, c)
  <2>1. PICK n \in 0 .. 1, c \in 0 .. MaxStreamCalls : WholeAnswer(n, c)
    BY <1>7
  <2>2. n \in Nat /\ c \in Nat
    BY ModelStreamAssumption
  <2> QED
    BY <2>1, <2>2, WholeAnswerHolds
<1>8. CASE UNCHANGED streamVars
  BY <1>8 DEF streamVars, StreamInv, StreamTypes, OpenInv, EndsInv, FinishInv
<1> QED
  BY <1>1, <1>2, <1>3, <1>4, <1>5, <1>6, <1>7, <1>8, <1>9, <1>10, <1>11 DEF StreamNext

LEMMA StreamHolds == StreamInv => CallsEndOnce /\ FinishIsComplete
<1> SUFFICES ASSUME StreamInv PROVE CallsEndOnce /\ FinishIsComplete
  OBVIOUS
<1>1. /\ events \in Seq(StreamEvents) /\ EndsInv /\ FinishInv
      /\ DOMAIN events = 1 .. Len(events) /\ Len(events) \in Nat
  BY LenProperties DEF StreamInv, StreamTypes
<1>2. \A k \in 1 .. Len(events) : events[k] = LLMEvent(events[k].type, events[k].of) /\ events[k].of \in Int
  <2>1. \A k \in 1 .. Len(events) : events[k] \in StreamEvents
    BY <1>1, ElementOfSeq
  <2>2. \A e \in StreamEvents : e = LLMEvent(e.type, e.of) /\ e.of \in Int
    BY DEF StreamEvents, LLMEvent
  <2> QED
    BY <2>1, <2>2
<1>3. \A t, c : Has(t, c) # {} <=> Saw(events, t, c)
  BY <1>1 DEF Has, Saw
<1>4. CallsEndOnce
  <2> SUFFICES ASSUME ~mixed, NEW k \in 1 .. Len(events), events[k].type = "ToolCallEnded"
               PROVE  /\ \E j \in 1 .. (k - 1) : events[j] = LLMEvent("ToolCallStarted", events[k].of)
                      /\ Has("ToolCallEnded", events[k].of) = {k}
    BY <1>1 DEF CallsEndOnce
  <2>1. EndedOnce(events) /\ StartedFirst(events)
    BY <1>1 DEF EndsInv
  <2>2. PICK j \in 1 .. k - 1 : events[j].type = "ToolCallStarted" /\ events[j].of = events[k].of
    BY <2>1 DEF StartedFirst
  <2>3. j \in 1 .. Len(events)
    BY <1>1
  <2>4. events[j] = LLMEvent("ToolCallStarted", events[k].of)
    BY <1>2, <2>2, <2>3
  <2>5. Has("ToolCallEnded", events[k].of) = {k}
    BY <1>1, <2>1 DEF Has, EndedOnce
  <2> QED
    BY <2>2, <2>4, <2>5
<1>5. FinishIsComplete
  <2> SUFFICES ASSUME NEW k \in 1 .. Len(events), events[k].type = "Finish"
               PROVE  /\ k = Len(events)
                      /\ \A c \in 1 .. MaxStreamCalls :
                           Has("ToolCallStarted", c) # {} => Has("ToolCallEnded", c) # {}
                      /\ protocol # "anthropic" /\ events[k].of > 0 => Has("TextEnded", events[k].of) # {}
    BY <1>1 DEF FinishIsComplete
  <2>1. k = Len(events) /\ AllIsSaid(events, protocol, events[k].of)
    BY <1>1 DEF FinishInv, FinishLast, NoFinish
  <2>2. \A c \in 1 .. MaxStreamCalls : c \in Int
    OBVIOUS
  <2> QED
    BY <1>3, <2>1, <2>2 DEF AllIsSaid
<1> QED
  BY <1>4, <1>5

(***************************************************************************)
(* For streams of any length: until an anthropic text follows a call, every*)
(* call is ended once and after its start; and at Finish, the last event   *)
(* that a loop takes, nothing is missing that was started or sent in full, *)
(* also when the provider goes on.                                         *)
(***************************************************************************)
THEOREM StreamsHold == StreamSpec => [](CallsEndOnce /\ FinishIsComplete)
<1>1. StreamSpec => []StreamInv
  BY StreamStart, StreamStep, PTL DEF StreamSpec
<1> QED
  BY <1>1, StreamHolds, PTL
-----------------------------------------------------------------------------
(***************************************************************************)
(* The agent's turns: answers of calls, texts, marks and reports.          *)
(***************************************************************************)

AgentCalls == Nat \X Nat
Messages   == [role : {"user", "assistant", "tool"}, calls : Seq(AgentCalls)]
Endings    == {"returned", "error", "raised", "cancelled", "interrupted"}

\* The types, without the bounds of the model, and the run of an execution.
TurnShape ==
  /\ loop \in Loops /\ callback \in {"plain", "async"}
  /\ agentAt \in {"start", "admit", "ask", "stream", "streamed", "settle", "leaving", "over"}
  /\ toolRound \in Nat /\ context \in Seq(Messages) /\ calls \in Seq(AgentCalls)
  /\ text \in BOOLEAN /\ parts \in BOOLEAN
  /\ agentAt \notin {"leaving", "over"} => outcome = "none"
  /\ agentAt = "leaving" => loop = "execution" /\ outcome \in Endings
  /\ agentAt = "over" => outcome \in Endings \cup {"notAdmitted"}
  /\ RunIsMarked

\* Outside the stream of an answer, what was said is saved; an execution is one
\* text ahead in it.
TextsAgree ==
  loop \notin {"runner", "legacy"} =>
    /\ agentAt \in {"start", "admit", "ask", "settle"} \/ outcome = "returned" => saved = spoken
    /\ agentAt \in {"stream", "streamed"} =>
         spoken = saved \cup (IF text /\ loop = "execution" THEN {toolRound} ELSE {})

ResultsKnown ==
  loop \in Yields \/ callback = "plain" =>
    \A i \in DOMAIN context : context[i].role = "tool" => context[i].calls[1] \in reported

\* The i-th message of m stands right among the first n.
StandsRight(m, n, i) ==
  /\ m[i].role = "assistant" =>
       /\ i + Len(m[i].calls) <= n
       /\ \A k \in DOMAIN m[i].calls : m[i + k] = Result(m[i].calls[k])
       /\ i + Len(m[i].calls) < n => m[i + Len(m[i].calls) + 1].role # "tool"
  /\ m[i].role = "tool" => i > 1 /\ m[i - 1].role \in {"assistant", "tool"}

\* The first n messages stand right, and their results are of rounds before r.
AllSettled(m, n, r) ==
  \A i \in 1..n : StandsRight(m, n, i) /\ (m[i].role = "tool" => m[i].calls[1][1] \in 0..(r - 1))

\* The message at b has the calls, and the messages behind it answer the first ones.
UnderWay(m, b) ==
  /\ m[b] = Assistant(calls) /\ Len(m) - b <= Len(calls)
  /\ \A k \in 1..(Len(m) - b) : m[b + k] = Result(calls[k])

RoundsInv ==
  loop \in KeepsCalls =>
    /\ agentAt \in {"stream", "streamed", "settle"} => \A k \in 1..Len(calls) : calls[k] = <<toolRound, k>>
    /\ agentAt \in {"start", "admit", "ask", "stream", "streamed"} => AllSettled(context, Len(context), toolRound)
    /\ agentAt = "settle" =>
         \E b \in 1..Len(context) : AllSettled(context, b - 1, toolRound) /\ UnderWay(context, b)

AgentInv == TurnShape /\ TextsAgree /\ ResultsKnown /\ RoundsInv

LEMMA MessagesAre ==
  /\ User \in Messages /\ User.role = "user"
  /\ \A cs \in Seq(AgentCalls) : Assistant(cs) \in Messages /\ Assistant(cs).role = "assistant"
                                 /\ Assistant(cs).calls = cs
  /\ \A c \in AgentCalls : Result(c) \in Messages /\ Result(c).role = "tool" /\ Result(c).calls[1] = c
<1>1. User \in Messages /\ User.role = "user"
  BY DEF User, Messages
<1>2. ASSUME NEW cs \in Seq(AgentCalls)
      PROVE  Assistant(cs) \in Messages /\ Assistant(cs).role = "assistant" /\ Assistant(cs).calls = cs
  BY DEF Assistant, Messages
<1>3. ASSUME NEW c \in AgentCalls
      PROVE  Result(c) \in Messages /\ Result(c).role = "tool" /\ Result(c).calls[1] = c
  <2>1. <<c>> \in Seq(AgentCalls) /\ <<c>>[1] = c
    OBVIOUS
  <2> QED
    BY <2>1 DEF Result, Messages
<1> QED
  BY <1>1, <1>2, <1>3

LEMMA AgentStart == AgentInit => AgentInv
<1> SUFFICES ASSUME AgentInit PROVE AgentInv
  OBVIOUS
<1>1. context = <<User>> /\ context \in Seq(Messages) /\ Len(context) = 1 /\ context[1] = User
  BY MessagesAre DEF AgentInit
<1>2. TurnShape
  <2>1. calls \in Seq(AgentCalls) /\ toolRound \in Nat
    BY DEF AgentInit
  <2>2. text \in BOOLEAN /\ parts \in BOOLEAN
    BY Zenon DEF AgentInit
  <2>3. RunIsMarked /\ agentAt = "start" /\ outcome = "none"
    BY DEF AgentInit, RunIsMarked
  <2> QED
    BY <1>1, <2>1, <2>2, <2>3, Zenon DEF AgentInit, TurnShape
<1>3. TextsAgree /\ ResultsKnown
  BY <1>1, MessagesAre DEF AgentInit, TextsAgree, ResultsKnown
<1>4. RoundsInv
  BY <1>1, MessagesAre DEF AgentInit, RoundsInv, AllSettled, StandsRight
<1> QED
  BY <1>2, <1>3, <1>4 DEF AgentInv

\* A message that is no result settles what was before it.
LEMMA MessageFollows ==
  ASSUME NEW m \in Seq(Messages), NEW n \in Nat, n <= Len(m), NEW r \in Nat, AllSettled(m, n, r),
         NEW l \in Nat, l = n \/ (l > n /\ m[n + 1].role # "tool")
  PROVE  \A i \in 1..n : StandsRight(m, l, i)
<1> SUFFICES ASSUME NEW i \in 1..n PROVE StandsRight(m, l, i)
  OBVIOUS
<1>1. StandsRight(m, n, i)
  BY DEF AllSettled
<1>2. Len(m[i].calls) \in Nat
  <2>1. m[i] \in Messages
    OBVIOUS
  <2>2. m[i].calls \in Seq(AgentCalls)
    BY <2>1 DEF Messages
  <2> QED
    BY <2>2
<1>3. CASE l = n
  BY <1>1, <1>3
<1>4. CASE l > n /\ m[n + 1].role # "tool"
  <2>1. PICK e \in Nat : e = i + Len(m[i].calls)
    BY <1>2
  <2>2. m[i].role = "assistant" => e <= n /\ (e < l => m[e + 1].role # "tool")
    <3>1. m[i].role = "assistant" => e <= n /\ (e < n => m[e + 1].role # "tool")
      BY <1>1, <2>1 DEF StandsRight
    <3>2. e = n => m[e + 1].role # "tool"
      BY <1>4
    <3> QED
      BY <3>1, <3>2
  <2> QED
    BY <1>1, <1>2, <1>4, <2>1, <2>2 DEF StandsRight
<1> QED
  BY <1>3, <1>4

\* The first messages stand as they are, whatever comes behind them.
LEMMA PrefixSettled ==
  ASSUME NEW m \in Seq(Messages), NEW l \in Seq(Messages), NEW n \in Nat, n <= Len(m), NEW r \in Nat,
         AllSettled(m, n, r), \A i \in 1..n : l[i] = m[i]
  PROVE  AllSettled(l, n, r)
<1> SUFFICES ASSUME NEW i \in 1..n
             PROVE  StandsRight(l, n, i) /\ (l[i].role = "tool" => l[i].calls[1][1] \in 0..(r - 1))
  BY DEF AllSettled
<1>1. StandsRight(m, n, i) /\ l[i] = m[i] /\ (m[i].role = "tool" => m[i].calls[1][1] \in 0..(r - 1))
  BY DEF AllSettled
<1>2. PICK cs \in Seq(AgentCalls) : m[i].calls = cs
  <2>1. m[i] \in Messages
    OBVIOUS
  <2> QED
    BY <2>1 DEF Messages
<1>3. ASSUME m[i].role = "assistant"
      PROVE  /\ i + Len(cs) <= n
             /\ \A k \in DOMAIN cs : l[i + k] = Result(cs[k])
             /\ i + Len(cs) < n => l[i + Len(cs) + 1].role # "tool"
  <2>1. i + Len(cs) <= n /\ \A k \in DOMAIN cs : m[i + k] = Result(cs[k])
    BY <1>1, <1>2, <1>3 DEF StandsRight
  <2>2. ASSUME NEW k \in DOMAIN cs PROVE l[i + k] = Result(cs[k])
    <3>1. i + k \in 1..n
      BY <2>1
    <3> QED
      BY <2>1, <3>1
  <2>3. ASSUME i + Len(cs) < n PROVE l[i + Len(cs) + 1].role # "tool"
    <3>1. i + Len(cs) + 1 \in 1..n
      BY <2>3
    <3>2. m[i + Len(cs) + 1].role # "tool"
      BY <1>1, <1>2, <1>3, <2>3 DEF StandsRight
    <3> QED
      BY <3>1, <3>2
  <2> QED
    BY <2>1, <2>2, <2>3
<1>4. m[i].role = "tool" => i > 1 /\ l[i - 1].role \in {"assistant", "tool"}
  BY <1>1 DEF StandsRight
<1> QED
  BY <1>1, <1>2, <1>3, <1>4 DEF StandsRight

\* The end of a round: all calls are answered.
LEMMA RoundIsSettled ==
  ASSUME NEW m \in Seq(Messages), NEW b \in 1..Len(m), NEW r \in Nat, calls \in Seq(AgentCalls),
         AllSettled(m, b - 1, r), UnderWay(m, b), Len(m) - b = Len(calls),
         \A k \in 1..Len(calls) : calls[k] = <<r, k>>
  PROVE  AllSettled(m, Len(m), r + 1)
<1>1. m[b].role = "assistant" /\ m[b].calls = calls
  BY MessagesAre DEF UnderWay
<1>2. ASSUME NEW i \in 1..Len(m), i > b
      PROVE  /\ m[i].role = "tool" /\ m[i].calls[1] = <<r, i - b>>
             /\ m[i - 1].role \in {"assistant", "tool"}
  <2>1. i - b \in 1..Len(calls) /\ m[i] = Result(calls[i - b]) /\ calls[i - b] \in AgentCalls
    <3>1. i - b \in 1..Len(calls) /\ i - b \in 1..(Len(m) - b) /\ b + (i - b) = i
      BY <1>2
    <3>2. m[b + (i - b)] = Result(calls[i - b])
      BY <3>1, Zenon DEF UnderWay
    <3> QED
      BY <3>1, <3>2
  <2>4. m[i].role = "tool" /\ m[i].calls[1] = <<r, i - b>>
    <3>1. calls[i - b] = <<r, i - b>>
      BY <2>1
    <3>2. m[i].role = "tool" /\ m[i].calls[1] = calls[i - b]
      BY <2>1, MessagesAre
    <3> QED
      BY <3>1, <3>2
  <2>2. CASE i - 1 = b
    BY <1>1, <2>2, <2>4
  <2>3. CASE i - 1 > b
    <3>1. i - 1 - b \in 1..Len(calls) /\ i - 1 - b \in 1..(Len(m) - b) /\ b + (i - 1 - b) = i - 1
      BY <1>2, <2>3
    <3>4. m[b + (i - 1 - b)] = Result(calls[i - 1 - b])
      BY <3>1, Zenon DEF UnderWay
    <3>2. m[i - 1] = Result(calls[i - 1 - b]) /\ calls[i - 1 - b] \in AgentCalls
      BY <3>1, <3>4
    <3>3. m[i - 1].role = "tool"
      BY <3>2, MessagesAre
    <3> QED
      BY <2>4, <3>3
  <2> QED
    BY <1>2, <2>2, <2>3
<1>3. \A i \in 1..(b - 1) : StandsRight(m, Len(m), i) /\ (m[i].role = "tool" => m[i].calls[1][1] \in 0..r)
  <2>1. b - 1 \in Nat /\ Len(m) \in Nat /\ Len(m) > b - 1 /\ b - 1 <= Len(m)
        /\ m[(b - 1) + 1].role # "tool"
    BY <1>1
  <2>2. \A i \in 1..(b - 1) : StandsRight(m, Len(m), i)
    BY <2>1, MessageFollows
  <2>3. \A i \in 1..(b - 1) : m[i].role = "tool" => m[i].calls[1][1] \in 0..(r - 1)
    BY DEF AllSettled
  <2> QED
    BY <2>2, <2>3
<1>4. StandsRight(m, Len(m), b)
  <2>1. \A k \in DOMAIN calls : m[b + k] = Result(calls[k])
    BY DEF UnderWay
  <2> QED
    BY <1>1, <2>1 DEF StandsRight
<1>5. ASSUME NEW i \in 1..Len(m), i > b PROVE StandsRight(m, Len(m), i) /\ m[i].calls[1][1] \in 0..r
  BY <1>2, <1>5 DEF StandsRight
<1> QED
  BY <1>1, <1>3, <1>4, <1>5 DEF AllSettled

\* Neither the messages nor the calls change, and the loop goes on or leaves.
LEMMA RoundsStay ==
  ASSUME AgentInv, UNCHANGED <<agentSetup, calls, toolRound, context>>,
         \/ agentAt' = agentAt
         \/ agentAt' \in {"leaving", "over"}
         \/ agentAt \in {"start", "admit"} /\ agentAt' \in {"admit", "ask"}
         \/ agentAt = "stream" /\ agentAt' = "streamed"
  PROVE  RoundsInv'
<1>1. RoundsInv /\ UNCHANGED <<loop, calls, toolRound, context>>
  BY DEF AgentInv, agentSetup
<1>2. /\ AllSettled(context, Len(context), toolRound)' <=> AllSettled(context, Len(context), toolRound)
      /\ \A b : AllSettled(context, b - 1, toolRound)' <=> AllSettled(context, b - 1, toolRound)
      /\ \A b : UnderWay(context, b)' <=> UnderWay(context, b)
  BY <1>1, Zenon DEF AllSettled, UnderWay, StandsRight
<1>3. CASE agentAt' = agentAt
  BY <1>1, <1>2, <1>3 DEF RoundsInv
<1>4. CASE agentAt' \in {"leaving", "over"}
  BY <1>1, <1>4 DEF RoundsInv
<1>5. CASE agentAt \in {"start", "admit"} /\ agentAt' \in {"admit", "ask"}
  BY <1>1, <1>2, <1>5 DEF RoundsInv
<1>6. CASE agentAt = "stream" /\ agentAt' = "streamed"
  BY <1>1, <1>2, <1>6 DEF RoundsInv
<1> QED
  BY <1>3, <1>4, <1>5, <1>6

LEMMA ResultsStay ==
  ASSUME AgentInv, UNCHANGED <<agentSetup, context, reported>>
  PROVE  ResultsKnown'
  BY DEF AgentInv, ResultsKnown, agentSetup

LEMMA AdmitHolds == AgentInv /\ Admit => AgentInv'
<1> SUFFICES ASSUME AgentInv, Admit PROVE AgentInv'
  OBVIOUS
<1>1. TurnShape' /\ TextsAgree'
  BY DEF AgentInv, TurnShape, TextsAgree, Admit, RunIsMarked, agentSetup, answer, kept
<1>2. ResultsKnown'
  BY ResultsStay DEF Admit, kept
<1>3. RoundsInv'
  <2>1. UNCHANGED <<agentSetup, calls, toolRound, context>>
    BY DEF Admit, answer
  <2>2. agentAt' = "over" \/ (agentAt \in {"start", "admit"} /\ agentAt' \in {"admit", "ask"})
    BY DEF Admit
  <2> QED
    BY <2>1, <2>2, RoundsStay
<1> QED
  BY <1>1, <1>2, <1>3 DEF AgentInv

\* The loop is left with how.
LEMMA LeavingHolds ==
  ASSUME AgentInv, NEW how \in Endings, LeaveLoop(how),
         agentAt \in {"ask", "stream", "streamed", "settle"}, how = "returned" => agentAt = "ask",
         UNCHANGED <<agentSetup, answer, kept, runVars, toolRound, context>>
  PROVE  AgentInv'
<1>1. TurnShape'
  BY DEF AgentInv, TurnShape, RunIsMarked, LeaveLoop, agentSetup, answer, runVars, Endings
<1>2. TextsAgree'
  BY DEF AgentInv, TextsAgree, LeaveLoop, agentSetup, answer, kept
<1>3. ResultsKnown'
  BY ResultsStay DEF kept
<1>4. RoundsInv'
  BY RoundsStay DEF LeaveLoop, answer
<1> QED
  BY <1>1, <1>2, <1>3, <1>4 DEF AgentInv

LEMMA MarkHolds == AgentInv /\ MarkRun => AgentInv'
<1> SUFFICES ASSUME AgentInv, MarkRun PROVE AgentInv'
  OBVIOUS
<1>1. TurnShape'
  BY DEF AgentInv, TurnShape, RunIsMarked, MarkRun, agentSetup, answer, Endings
<1>2. TextsAgree'
  BY DEF AgentInv, TextsAgree, MarkRun, agentSetup, answer, kept
<1>3. ResultsKnown'
  BY ResultsStay DEF kept, MarkRun
<1>4. RoundsInv'
  BY RoundsStay DEF MarkRun, answer
<1> QED
  BY <1>1, <1>2, <1>3, <1>4 DEF AgentInv

LEMMA SetCancelHolds == AgentInv /\ SetCancelEvent => AgentInv'
<1> SUFFICES ASSUME AgentInv, SetCancelEvent PROVE AgentInv'
  OBVIOUS
<1>1. TurnShape' /\ TextsAgree'
  BY DEF AgentInv, TurnShape, TextsAgree, RunIsMarked, SetCancelEvent, agentSetup, answer, kept
<1>2. ResultsKnown'
  BY ResultsStay DEF kept, SetCancelEvent
<1>3. RoundsInv'
  BY RoundsStay DEF SetCancelEvent, answer
<1> QED
  BY <1>1, <1>2, <1>3 DEF AgentInv

\* Texts are told, without calls or results.
LEMMA AgentTextHolds ==
  ASSUME AgentInv, TextDelta \/ (\E full \in BOOLEAN : TextEnded(full)) \/ StreamEnds \/ Fallback
  PROVE  AgentInv'
<1>1. /\ UNCHANGED <<agentSetup, runVars, calls, toolRound, context, reported, saved, outcome>>
      /\ agentAt' = agentAt \/ (agentAt = "stream" /\ agentAt' = "streamed")
  BY DEF TextDelta, TextEnded, StreamEnds, Streaming, Fallback, answer, kept
<1>2. text' \in BOOLEAN /\ parts' \in BOOLEAN
  BY DEF AgentInv, TurnShape, TextDelta, TextEnded, StreamEnds, Fallback, answer
<1>3. TurnShape'
  BY <1>1, <1>2 DEF AgentInv, TurnShape, RunIsMarked, agentSetup, runVars
<1>4. TextsAgree'
  <2>1. CASE TextDelta
    BY <1>1, <2>1 DEF AgentInv, TurnShape, TextsAgree, TextDelta, Streaming, agentSetup
  <2>2. ASSUME NEW full \in BOOLEAN, TextEnded(full) PROVE TextsAgree'
    BY <1>1, <2>2 DEF AgentInv, TurnShape, TextsAgree, TextEnded, Streaming, agentSetup, kept
  <2>3. CASE StreamEnds
    BY <1>1, <2>3 DEF AgentInv, TurnShape, TextsAgree, StreamEnds, Streaming, agentSetup, kept, answer
  <2>4. CASE Fallback
    BY <1>1, <2>4 DEF AgentInv, TurnShape, TextsAgree, Fallback, agentSetup, kept
  <2> QED
    BY <2>1, <2>2, <2>3, <2>4
<1>5. ResultsKnown'
  BY <1>1, ResultsStay
<1>6. RoundsInv'
  BY <1>1, RoundsStay
<1> QED
  BY <1>3, <1>4, <1>5, <1>6 DEF AgentInv

LEMMA CallEndedHolds == AgentInv /\ ToolCallEnded => AgentInv'
<1> SUFFICES ASSUME AgentInv, ToolCallEnded PROVE AgentInv'
  OBVIOUS
<1> DEFINE c == <<toolRound, Len(calls) + 1>>
<1>1. /\ calls' = Append(calls, c) /\ agentAt = "stream" /\ agentAt' = "stream"
      /\ UNCHANGED <<loop, callback, spoken, saved, reported, runVars, toolRound, context, text, parts, outcome>>
  BY DEF ToolCallEnded, Streaming, agentSetup, kept
<1>2. calls \in Seq(AgentCalls) /\ c \in AgentCalls
  BY DEF AgentInv, TurnShape, AgentCalls
<1>3. /\ calls' \in Seq(AgentCalls) /\ Len(calls') = Len(calls) + 1
      /\ calls'[Len(calls) + 1] = c /\ \A k \in 1..Len(calls) : calls'[k] = calls[k]
  <2> HIDE DEF c
  <2> QED
    BY <1>1, <1>2
<1>4. TurnShape' /\ TextsAgree'
  BY <1>1, <1>3 DEF AgentInv, TurnShape, TextsAgree, RunIsMarked, runVars
<1>5. ResultsKnown'
  BY <1>1, ResultsStay DEF agentSetup
<1>6. RoundsInv'
  <2> SUFFICES ASSUME loop \in KeepsCalls
               PROVE  /\ \A k \in 1..Len(calls') : calls'[k] = <<toolRound, k>>
                      /\ AllSettled(context, Len(context), toolRound)
    BY <1>1, Zenon DEF RoundsInv, AllSettled, StandsRight
  <2>1. /\ \A k \in 1..Len(calls) : calls[k] = <<toolRound, k>>
        /\ AllSettled(context, Len(context), toolRound)
    BY <1>1 DEF AgentInv, RoundsInv
  <2> QED
    BY <1>2, <1>3, <2>1
<1> QED
  BY <1>4, <1>5, <1>6 DEF AgentInv

LEMMA AskHolds == AgentInv /\ Ask => AgentInv'
<1> SUFFICES ASSUME AgentInv, Ask PROVE AgentInv'
  OBVIOUS
<1>1. CASE agentAt' = "stream" /\ text' = FALSE /\ parts' = FALSE /\ calls' = <<>> /\ outcome' = outcome
  <2>1. agentAt = "ask" /\ UNCHANGED <<loop, callback, spoken, saved, reported, runVars, toolRound, context>>
    BY DEF Ask, agentSetup, kept
  <2>2. text' \in BOOLEAN /\ parts' \in BOOLEAN
    BY <1>1, Zenon
  <2>3. calls' \in Seq(AgentCalls) /\ Len(calls') = 0
    BY <1>1
  <2>4. TurnShape'
    BY <1>1, <2>1, <2>2, <2>3 DEF AgentInv, TurnShape, RunIsMarked, runVars
  <2>5. TextsAgree'
    BY <1>1, <2>1 DEF AgentInv, TextsAgree
  <2>6. ResultsKnown'
    BY <2>1, ResultsStay DEF agentSetup
  <2>7. RoundsInv'
    <3> SUFFICES ASSUME loop \in KeepsCalls PROVE AllSettled(context, Len(context), toolRound)
      <4>1. AllSettled(context, Len(context), toolRound)' <=> AllSettled(context, Len(context), toolRound)
        BY <2>1, Zenon DEF AllSettled, StandsRight
      <4> QED
        BY <1>1, <2>1, <2>3, <4>1 DEF RoundsInv
    <3> QED
      BY <2>1 DEF AgentInv, RoundsInv
  <2> QED
    BY <2>4, <2>5, <2>6, <2>7 DEF AgentInv
<1>2. CASE LeaveLoop("returned") /\ UNCHANGED answer
  BY <1>2, LeavingHolds DEF Ask, Endings
<1> QED
  BY <1>1, <1>2 DEF Ask

\* What Answer appends.
LEMMA AnswerIs ==
  ASSUME TurnShape, RoundsInv, agentAt = "streamed"
  PROVE  /\ AnswerMessage \in Seq(Messages) /\ context \o AnswerMessage \in Seq(Messages)
         /\ \A i \in 1..Len(context) : (context \o AnswerMessage)[i] = context[i]
         /\ \A i \in 1..Len(context \o AnswerMessage) :
              i > Len(context) => (context \o AnswerMessage)[i].role = "assistant"
         /\ loop \in KeepsCalls /\ calls # <<>> => AnswerMessage = <<Assistant(calls)>>
<1>1. /\ calls \in Seq(AgentCalls) /\ <<>> \in Seq(AgentCalls) /\ context \in Seq(Messages)
  BY DEF TurnShape
<1>2. \E cs \in Seq(AgentCalls) : AnswerMessage \in {<<>>, <<Assistant(cs)>>}
  BY <1>1 DEF AnswerMessage
<1>3. CASE AnswerMessage = <<>>
  BY <1>1, <1>3 DEF AnswerMessage
<1>4. ASSUME NEW cs \in Seq(AgentCalls), AnswerMessage = <<Assistant(cs)>>
      PROVE  /\ AnswerMessage \in Seq(Messages) /\ context \o AnswerMessage \in Seq(Messages)
             /\ \A i \in 1..Len(context) : (context \o AnswerMessage)[i] = context[i]
             /\ \A i \in 1..Len(context \o AnswerMessage) :
                  i > Len(context) => (context \o AnswerMessage)[i].role = "assistant"
  <2> DEFINE a == Assistant(cs)
  <2>1. a \in Messages /\ a.role = "assistant"
    BY MessagesAre
  <2> HIDE DEF a
  <2>2. AnswerMessage = <<a>>
    BY <1>4 DEF a
  <2> QED
    BY <1>1, <2>1, <2>2
<1>5. loop \in KeepsCalls /\ calls # <<>> => AnswerMessage = <<Assistant(calls)>>
  BY DEF AnswerMessage, KeepsCalls
<1> QED
  BY <1>2, <1>3, <1>4, <1>5

\* The first place that is not settled is the next one.
LEMMA FirstOpen ==
  ASSUME calls \in Seq(AgentCalls),
         NEW j, j = CHOOSE n \in 1..Len(calls) + 1 : n \notin Settled /\ \A k \in 1..(n - 1) : k \in Settled,
         j <= Len(calls)
  PROVE  j \in 1..Len(calls) /\ j \notin Settled /\ \A k \in 1..(j - 1) : k \in Settled
<1> DEFINE open == (1..Len(calls) + 1) \ Settled
<1>1. Len(calls) \in Nat /\ Settled \subseteq 1..Len(calls)
  BY DEF Settled
<1>2. Len(calls) + 1 \in open
  BY <1>1
<1>3. PICK n \in open : \A k \in open : n <= k
  <2>1. Len(calls) + 1 \in Nat /\ open \in SUBSET (1 .. (Len(calls) + 1)) /\ open # {}
    BY <1>1, <1>2
  <2> HIDE DEF open
  <2> QED
    BY <2>1, EndsOfPlaces
<1>4. n \in 1..Len(calls) + 1 /\ n \notin Settled /\ \A k \in 1..(n - 1) : k \in Settled
  BY <1>1, <1>3
<1>5. j \in 1..Len(calls) + 1 /\ j \notin Settled /\ \A k \in 1..(j - 1) : k \in Settled
  BY <1>4
<1> QED
  BY <1>1, <1>5

\* In the middle of a round those that have a result are the first ones.
LEMMA SettledAre ==
  ASSUME calls \in Seq(AgentCalls), context \in Seq(Messages), toolRound \in Nat, NEW b \in 1..Len(context),
         AllSettled(context, b - 1, toolRound), UnderWay(context, b),
         \A k \in 1..Len(calls) : calls[k] = <<toolRound, k>>
  PROVE  Settled = 1..(Len(context) - b)
<1>1. Len(context) - b \in Nat /\ Len(context) - b <= Len(calls)
  BY DEF UnderWay
<1>2. \A k \in 1..Len(calls) : /\ Result(calls[k]).role = "tool"
                               /\ Result(calls[k]).calls[1] = <<toolRound, k>>
  <2> SUFFICES ASSUME NEW k \in 1..Len(calls)
               PROVE  Result(calls[k]).role = "tool" /\ Result(calls[k]).calls[1] = <<toolRound, k>>
    OBVIOUS
  <2>1. calls[k] \in AgentCalls /\ calls[k] = <<toolRound, k>>
    OBVIOUS
  <2> QED
    BY <2>1, MessagesAre
<1>3. ASSUME NEW k \in 1..(Len(context) - b) PROVE k \in Settled
  <2>1. k \in DOMAIN calls /\ b + k \in DOMAIN context /\ context[b + k] = Result(calls[k])
    BY <1>1 DEF UnderWay
  <2> QED
    BY <2>1 DEF Settled
<1>4. ASSUME NEW k \in Settled PROVE k \in 1..(Len(context) - b)
  <2>1. PICK i \in 1..Len(context) : context[i] = Result(calls[k])
    BY DEF Settled
  <2>2. k \in 1..Len(calls) /\ context[i].role = "tool" /\ context[i].calls[1] = <<toolRound, k>>
    <3>1. k \in 1..Len(calls)
      BY DEF Settled
    <3> QED
      BY <1>2, <2>1, <3>1
  <2>3. context[i].calls[1][1] = toolRound
    BY <2>2
  <2>4. ~(i \in 1..(b - 1))
    <3>1. toolRound \notin 0..(toolRound - 1)
      OBVIOUS
    <3> QED
      BY <2>2, <2>3, <3>1 DEF AllSettled
  <2>5. context[b].role = "assistant"
    BY MessagesAre DEF UnderWay
  <2>6. i # b
    BY <2>2, <2>5
  <2>7. i - b \in 1..(Len(context) - b) /\ b + (i - b) = i
    BY <2>4, <2>6
  <2>8. context[b + (i - b)] = Result(calls[i - b])
    BY <2>7, Zenon DEF UnderWay
  <2>9. i - b \in 1..Len(calls)
    BY <1>1, <2>7
  <2>10. <<toolRound, i - b>> = <<toolRound, k>>
    BY <1>2, <2>2, <2>7, <2>8, <2>9
  <2> QED
    BY <2>7, <2>10
<1> QED
  BY <1>3, <1>4

LEMMA AnswerHolds == AgentInv /\ Answer => AgentInv'
<1> SUFFICES ASSUME AgentInv, Answer PROVE AgentInv'
  OBVIOUS
<1>1. /\ agentAt = "streamed" /\ TurnShape /\ RoundsInv
      /\ UNCHANGED <<loop, callback, text, parts, calls, runVars, toolRound, reported>>
      /\ context' \in {context, context \o AnswerMessage}
      /\ \/ LastAnswer /\ LeaveLoop("returned")
         \/ ~LastAnswer /\ agentAt' = "settle" /\ outcome' = outcome /\ context' = context \o AnswerMessage
  BY DEF AgentInv, Answer, agentSetup, answer
<1>2. context' \in Seq(Messages)
  BY <1>1, AnswerIs DEF TurnShape
<1>3. TurnShape'
  BY <1>1, <1>2 DEF TurnShape, RunIsMarked, LeaveLoop, Endings, runVars
<1>4. TextsAgree'
  BY <1>1 DEF AgentInv, TextsAgree, TurnShape, Answer, LeaveLoop
<1>5. ResultsKnown'
  <2> SUFFICES ASSUME loop \in Yields \/ callback = "plain", NEW i \in DOMAIN context', context'[i].role = "tool"
               PROVE  context'[i].calls[1] \in reported
    BY <1>1 DEF ResultsKnown
  <2>1. i \in 1..Len(context) /\ context'[i] = context[i]
    <3>1. CASE context' = context
      BY <1>1, <3>1 DEF TurnShape
    <3>2. CASE context' = context \o AnswerMessage
      <4>1. i \in 1..Len(context')
        BY <1>2
      <4>2. ~(i > Len(context))
        BY <1>1, <3>2, <4>1, AnswerIs
      <4>3. i \in 1..Len(context)
        BY <1>1, <4>1, <4>2 DEF TurnShape
      <4> QED
        BY <1>1, <3>2, <4>3, AnswerIs
    <3> QED
      BY <1>1, <3>1, <3>2
  <2> QED
    BY <2>1, <1>1 DEF AgentInv, ResultsKnown, TurnShape
<1>6. RoundsInv'
  <2> SUFFICES ASSUME loop \in KeepsCalls, agentAt' = "settle"
               PROVE  /\ \A k \in 1..Len(calls) : calls[k] = <<toolRound, k>>
                      /\ \E b \in 1..Len(context') : AllSettled(context', b - 1, toolRound) /\ UnderWay(context', b)
    <3>1. agentAt' \in {"settle", "leaving", "over"}
      BY <1>1 DEF LeaveLoop
    <3> QED
      BY <1>1, <3>1, Zenon DEF RoundsInv, AllSettled, UnderWay, StandsRight
  <2>1. calls # <<>> /\ context' = Append(context, Assistant(calls)) /\ context \in Seq(Messages)
    <3>1. ~LastAnswer /\ context' = context \o AnswerMessage
      BY <1>1 DEF LeaveLoop
    <3>2. calls # <<>>
      BY <3>1 DEF LastAnswer
    <3> QED
      <4>1. AnswerMessage = <<Assistant(calls)>>
        BY <1>1, <3>2, AnswerIs
      <4>2. context \in Seq(Messages) /\ Assistant(calls) \in Messages
        BY <1>1, MessagesAre DEF TurnShape
      <4> QED
        BY <3>1, <3>2, <4>1, <4>2
  <2>2. /\ \A k \in 1..Len(calls) : calls[k] = <<toolRound, k>>
        /\ AllSettled(context, Len(context), toolRound)
    BY <1>1 DEF RoundsInv
  <2> DEFINE b == Len(context) + 1
  <2>3. /\ Len(context') = b /\ b - 1 = Len(context) /\ b \in 1..Len(context')
        /\ context'[b] = Assistant(calls) /\ \A i \in 1..(b - 1) : context'[i] = context[i]
    BY <1>2, <2>1
  <2>4. UnderWay(context', b)
    BY <1>1, <2>3 DEF UnderWay, TurnShape
  <2>5. AllSettled(context', b - 1, toolRound)
    <3>1. Len(context) \in Nat /\ toolRound \in Nat
      BY <1>1, <2>1 DEF TurnShape
    <3>3. \A i \in 1..Len(context) : context'[i] = context[i]
      BY <2>3
    <3>4. Len(context) <= Len(context)
      BY <3>1
    <3> HIDE DEF b
    <3>2. AllSettled(context', Len(context), toolRound)
      BY <1>2, <2>1, <2>2, <3>1, <3>3, <3>4, PrefixSettled
    <3> QED
      BY <2>3, <3>2
  <2> QED
    BY <2>2, <2>3, <2>4, <2>5
<1> QED
  BY <1>3, <1>4, <1>5, <1>6 DEF AgentInv

LEMMA SettleHolds == AgentInv /\ SettleNext => AgentInv'
<1> SUFFICES ASSUME AgentInv, SettleNext PROVE AgentInv'
  OBVIOUS
<1>1. PICK j : /\ j = CHOOSE n \in 1..Len(calls) + 1 : n \notin Settled /\ \A k \in 1..(n - 1) : k \in Settled
               /\ agentAt = "settle" /\ j <= Len(calls)
               /\ context' = Append(context, Result(calls[j])) /\ reported' = Reported(calls[j])
               /\ UNCHANGED <<loop, callback, text, parts, calls, runVars, agentAt, toolRound, spoken, saved, outcome>>
  BY DEF SettleNext, agentSetup, answer
<1>2. j \in 1..Len(calls) /\ j \notin Settled /\ \A k \in 1..(j - 1) : k \in Settled
  BY <1>1, FirstOpen DEF AgentInv, TurnShape
<1>3. /\ calls[j] \in AgentCalls /\ calls \in Seq(AgentCalls) /\ context \in Seq(Messages) /\ toolRound \in Nat
  BY <1>2 DEF AgentInv, TurnShape
<1> DEFINE new == Result(calls[j])
<1>4. new \in Messages /\ new.role = "tool" /\ new.calls[1] = calls[j]
  BY <1>3, MessagesAre
<1>5. context' = Append(context, new)
  BY <1>1
<1> HIDE DEF new
<1>6. /\ context' \in Seq(Messages) /\ Len(context') = Len(context) + 1 /\ context'[Len(context) + 1] = new
      /\ \A i \in 1..Len(context) : context'[i] = context[i]
  BY <1>3, <1>4, <1>5
<1>7. TurnShape' /\ TextsAgree'
  BY <1>1, <1>6 DEF AgentInv, TurnShape, TextsAgree, RunIsMarked, runVars
<1>8. ResultsKnown'
  <2> SUFFICES ASSUME loop \in Yields \/ callback = "plain", NEW i \in DOMAIN context', context'[i].role = "tool"
               PROVE  context'[i].calls[1] \in reported'
    BY <1>1 DEF ResultsKnown
  <2>1. reported' = reported \cup {calls[j]}
    BY <1>1 DEF Reported
  <2>2. CASE i = Len(context) + 1
    BY <1>4, <1>6, <2>1, <2>2
  <2>3. CASE i \in 1..Len(context)
    <3>1. context[i].role = "tool" /\ i \in DOMAIN context
      BY <1>3, <1>6, <2>3
    <3>2. context[i].calls[1] \in reported
      BY <3>1 DEF AgentInv, ResultsKnown
    <3> QED
      BY <1>6, <2>1, <2>3, <3>2
  <2>4. i \in 1..(Len(context) + 1)
    BY <1>6
  <2>5. i = Len(context) + 1 \/ i \in 1..Len(context)
    BY <1>3, <2>4
  <2> QED
    BY <2>2, <2>3, <2>5
<1>9. RoundsInv'
  <2> SUFFICES ASSUME loop \in KeepsCalls
               PROVE  /\ \A k \in 1..Len(calls) : calls[k] = <<toolRound, k>>
                      /\ \E b \in 1..Len(context') : AllSettled(context', b - 1, toolRound) /\ UnderWay(context', b)
    <3>1. \A b : UnderWay(context, b)' <=> UnderWay(context', b)
      <4>1. calls' = calls
        BY <1>1
      <4> QED
        BY <4>1 DEF UnderWay
    <3>2. \A b : AllSettled(context, b - 1, toolRound)' <=> AllSettled(context', b - 1, toolRound)
      BY <1>1, Zenon DEF AllSettled, StandsRight
    <3>3. ASSUME loop \in KeepsCalls
          PROVE  /\ \A k \in 1..Len(calls) : calls[k] = <<toolRound, k>>
                 /\ \E b \in 1..Len(context') :
                      AllSettled(context, b - 1, toolRound)' /\ UnderWay(context, b)'
      BY <3>1, <3>2, <3>3
    <3> QED
      BY <1>1, <3>3, Zenon DEF RoundsInv
  <2>1. PICK b \in 1..Len(context) : AllSettled(context, b - 1, toolRound) /\ UnderWay(context, b)
    BY <1>1 DEF AgentInv, RoundsInv
  <2>2. \A k \in 1..Len(calls) : calls[k] = <<toolRound, k>>
    BY <1>1 DEF AgentInv, RoundsInv
  <2>3. Settled = 1..(Len(context) - b)
    BY <1>3, <2>1, <2>2, SettledAre
  <2>4. j = Len(context) - b + 1
    <3>1. Len(context) - b \in Nat /\ j \in Nat /\ j > 0
      BY <1>2, <1>3
    <3>2. ~(j \in 1..(Len(context) - b))
      BY <1>2, <2>3
    <3>3. j > 1 => j - 1 \in 1..(Len(context) - b)
      BY <1>2, <2>3, <3>1
    <3> QED
      BY <3>1, <3>2, <3>3
  <2>5. AllSettled(context', b - 1, toolRound)
    <3>1. b - 1 \in Nat /\ b - 1 <= Len(context) /\ \A i \in 1..(b - 1) : context'[i] = context[i]
      BY <1>3, <1>6
    <3> QED
      BY <1>3, <1>6, <2>1, <3>1, PrefixSettled
  <2>6. UnderWay(context', b)
    <3>1. context'[b] = Assistant(calls) /\ Len(context') - b <= Len(calls)
      BY <1>2, <1>3, <1>6, <2>1, <2>4 DEF UnderWay
    <3>2. ASSUME NEW k \in 1..(Len(context') - b) PROVE context'[b + k] = Result(calls[k])
      <4>1. CASE k = j
        BY <1>6, <1>3, <2>4, <4>1 DEF new
      <4>2. CASE k # j
        <5>1. k \in 1..(Len(context) - b) /\ b + k \in 1..Len(context)
          <6>1. Len(context) \in Nat /\ k \in 1..(Len(context) + 1 - b) /\ k # Len(context) - b + 1
            BY <1>3, <1>6, <2>4, <4>2
          <6> QED
            BY <6>1
        <5>2. context[b + k] = Result(calls[k])
          BY <2>1, <5>1 DEF UnderWay
        <5> QED
          BY <1>6, <5>1, <5>2
      <4> QED
        BY <4>1, <4>2
    <3> QED
      BY <3>1, <3>2 DEF UnderWay
  <2>7. b \in 1..Len(context')
    BY <1>3, <1>6
  <2> QED
    BY <2>2, <2>5, <2>6, <2>7
<1> QED
  BY <1>7, <1>8, <1>9 DEF AgentInv

LEMMA NextRoundHolds == AgentInv /\ NextRound => AgentInv'
<1> SUFFICES ASSUME AgentInv, NextRound PROVE AgentInv'
  OBVIOUS
<1>1. /\ agentAt = "settle" /\ agentAt' = "ask" /\ toolRound' = toolRound + 1 /\ Settled = DOMAIN calls
      /\ UNCHANGED <<loop, callback, text, parts, calls, spoken, saved, reported, runVars, context, outcome>>
  BY DEF NextRound, agentSetup, answer, kept
<1>2. /\ calls \in Seq(AgentCalls) /\ context \in Seq(Messages) /\ toolRound \in Nat
  BY DEF AgentInv, TurnShape
<1>3. TurnShape' /\ TextsAgree'
  BY <1>1 DEF AgentInv, TurnShape, TextsAgree, RunIsMarked, runVars
<1>4. ResultsKnown'
  BY <1>1, ResultsStay DEF agentSetup
<1>5. RoundsInv'
  <2> SUFFICES ASSUME loop \in KeepsCalls PROVE AllSettled(context, Len(context), toolRound + 1)
    BY <1>1, Zenon DEF RoundsInv, AllSettled, StandsRight
  <2>1. PICK b \in 1..Len(context) : AllSettled(context, b - 1, toolRound) /\ UnderWay(context, b)
    BY <1>1 DEF AgentInv, RoundsInv
  <2>2. \A k \in 1..Len(calls) : calls[k] = <<toolRound, k>>
    BY <1>1 DEF AgentInv, RoundsInv
  <2>3. Settled = 1..(Len(context) - b)
    BY <1>2, <2>1, <2>2, SettledAre
  <2>4. Len(context) - b = Len(calls)
    <3>3. DOMAIN calls = 1..Len(calls)
      BY <1>2
    <3>1. 1..(Len(context) - b) = 1..Len(calls)
      BY <1>1, <2>3, <3>3, Zenon
    <3>2. Len(context) - b \in Nat /\ Len(calls) \in Nat
      BY <1>2
    <3> QED
      BY <3>1, <3>2
  <2> QED
    BY <1>2, <2>1, <2>2, <2>4, RoundIsSettled
<1> QED
  BY <1>3, <1>4, <1>5 DEF AgentInv

LEMMA AgentStep == AgentInv /\ [AgentNext]_agentVars => AgentInv'
<1> SUFFICES ASSUME AgentInv, [AgentNext]_agentVars PROVE AgentInv'
  OBVIOUS
<1>1. CASE UNCHANGED agentVars
  <2>1. UNCHANGED <<agentSetup, calls, toolRound, context, reported>> /\ agentAt' = agentAt
    BY <1>1 DEF agentVars, agentSetup
  <2>2. TurnShape' /\ TextsAgree'
    BY <1>1 DEF agentVars, AgentInv, TurnShape, TextsAgree, RunIsMarked
  <2>3. ResultsKnown' /\ RoundsInv'
    BY <2>1, ResultsStay, RoundsStay
  <2> QED
    BY <2>2, <2>3 DEF AgentInv
<1>2. CASE StreamError
  BY <1>2, LeavingHolds DEF StreamError, Streaming, Endings
<1>3. CASE BreakOff
  BY <1>3, LeavingHolds DEF BreakOff, Endings
<1>4. CASE SeesCancelEvent
  BY <1>4, LeavingHolds DEF SeesCancelEvent, Endings
<1>5. CASE TextDelta \/ (\E full \in BOOLEAN : TextEnded(full)) \/ StreamEnds \/ Fallback
  BY <1>5, AgentTextHolds
<1> QED
  BY <1>1, <1>2, <1>3, <1>4, <1>5, AdmitHolds, AskHolds, AnswerHolds, SettleHolds, NextRoundHolds,
     MarkHolds, SetCancelHolds, CallEndedHolds
     DEF AgentNext, AgentAdvances

(***************************************************************************)
(* In each of the six loops every call of the model has its answer behind  *)
(* it, a turn that ends has saved the text it returns, told who yields or  *)
(* listens of every result, and marked its run, for any number of rounds   *)
(* and calls, however it is broken off.                                    *)
(***************************************************************************)
THEOREM TurnsHold == AgentSpec => [](CallsAnswered /\ TextKept /\ RunIsMarked /\ ResultsReported)
<1>1. AgentInv => CallsAnswered
  <2> SUFFICES ASSUME AgentInv, loop \in KeepsCalls, agentAt \in {"ask", "stream"}, NEW i \in DOMAIN context
               PROVE  StandsRight(context, Len(context), i)
    BY DEF CallsAnswered, StandsRight
  <2> QED
    BY DEF AgentInv, RoundsInv, AllSettled, TurnShape
<1>2. AgentInv => TextKept /\ RunIsMarked /\ ResultsReported
  BY DEF AgentInv, TextsAgree, TurnShape, TextKept, ResultsKnown, ResultsReported
<1> QED
  BY <1>1, <1>2, AgentStart, AgentStep, PTL DEF AgentSpec

-----------------------------------------------------------------------------
(***************************************************************************)
(* The requests on sessions: what the routes answer is what the events say. *)
(***************************************************************************)

-----------------------------------------------------------------------------
(***************************************************************************)
(* The projection.                                                         *)
(***************************************************************************)
IsViews(f, n, e) ==
  f = [k \in 0 .. n |-> IF k = 0 THEN NothingRead ELSE Applied(f[k - 1], e[k])]

LEMMA ViewsExist ==
  ASSUME NEW e
  PROVE  \A n \in Nat : \E f : IsViews(f, n, e)
<1> DEFINE S == {n \in Nat : \E f : IsViews(f, n, e)}
<1>1. 0 \in S
  <2> DEFINE f == [k \in 0 .. 0 |-> NothingRead]
  <2>1. \A k \in 0 .. 0 : k = 0
    OBVIOUS
  <2>2. f = [k \in 0 .. 0 |-> IF k = 0 THEN NothingRead ELSE Applied(f[k - 1], e[k])]
    BY <2>1
  <2>3. IsViews(f, 0, e)
    BY <2>2 DEF IsViews
  <2> HIDE DEF f
  <2> QED
    BY <2>3
<1>2. ASSUME NEW n \in Nat, n \in S PROVE n + 1 \in S
  <2>1. PICK f : IsViews(f, n, e)
    BY <1>2
  <2> DEFINE g == [k \in 0 .. n + 1 |-> IF k = n + 1 THEN Applied(f[n], e[n + 1]) ELSE f[k]]
  <2>2. \A k \in 0 .. n : f[k] = IF k = 0 THEN NothingRead ELSE Applied(f[k - 1], e[k])
    BY <2>1 DEF IsViews
  <2>3. \A k \in 0 .. n + 1 : g[k] = IF k = 0 THEN NothingRead ELSE Applied(g[k - 1], e[k])
    <3> SUFFICES ASSUME NEW k \in 0 .. n + 1
                 PROVE  g[k] = IF k = 0 THEN NothingRead ELSE Applied(g[k - 1], e[k])
      OBVIOUS
    <3>1. CASE k = n + 1
      <4>1. k # 0 /\ k - 1 = n /\ n \in 0 .. n + 1 /\ n # n + 1
        BY <3>1
      <4>2. g[k] = Applied(f[n], e[n + 1]) /\ g[n] = f[n]
        BY <3>1, <4>1
      <4> HIDE DEF g
      <4> QED
        BY <3>1, <4>1, <4>2
    <3>2. CASE k # n + 1
      <4>1. k \in 0 .. n /\ g[k] = f[k]
        BY <3>2
      <4>2. k # 0 => k - 1 \in 0 .. n + 1 /\ k - 1 # n + 1
        BY <4>1
      <4>3. k # 0 => g[k - 1] = f[k - 1]
        BY <4>2
      <4> HIDE DEF g
      <4> QED
        BY <2>2, <4>1, <4>3
    <3> QED
      BY <3>1, <3>2
  <2>4. g = [k \in 0 .. n + 1 |-> g[k]]
    OBVIOUS
  <2> HIDE DEF g
  <2>5. IsViews(g, n + 1, e)
    <3>1. [k \in 0 .. n + 1 |-> g[k]]
            = [k \in 0 .. n + 1 |-> IF k = 0 THEN NothingRead ELSE Applied(g[k - 1], e[k])]
      BY <2>3
    <3> QED
      BY <2>4, <3>1 DEF IsViews
  <2> QED
    BY <2>5
<1> HIDE DEF S
<1>3. \A n \in Nat : n \in S
  BY <1>1, <1>2, StepsReach
<1> QED
  BY <1>3 DEF S

LEMMA ViewsStep ==
  ASSUME NEW e, Len(e) \in Nat
  PROVE  /\ Views(e)[0] = NothingRead
         /\ \A k \in 1 .. Len(e) : Views(e)[k] = Applied(Views(e)[k - 1], e[k])
<1> DEFINE f == Views(e)
           n == Len(e)
<1>1. f = CHOOSE g : IsViews(g, n, e)
  BY DEF Views, IsViews
<1>2. \E g : IsViews(g, n, e)
  BY ViewsExist
<1> HIDE DEF f
<1>3. IsViews(f, n, e)
  BY <1>1, <1>2
<1>4. \A k \in 0 .. n : f[k] = IF k = 0 THEN NothingRead ELSE Applied(f[k - 1], e[k])
  BY <1>3 DEF IsViews
<1>5. 0 \in 0 .. n /\ \A k \in 1 .. n : k \in 0 .. n /\ k # 0
  OBVIOUS
<1> QED
  BY <1>4, <1>5 DEF f, n

EventArgs   == Nat \cup RunMarks \cup {"none", "stopped"}
NumberedKinds    == {"compaction", "reverted", "edited", "removed"}
EventKinds  == {"created", "prompt", "text", "set", "updated", "deleted", "run"} \cup NumberedKinds
RouteEvents ==
  {e \in [kind : EventKinds, arg : EventArgs, by : RouteCalls \cup {NoRouteCall}] :
     e.kind \in NumberedKinds => e.arg \in Nat}

TalkItems == [role : {"user", "assistant", "system"}, number : Nat, text : Nat]

RouteViews == [number : Nat, known : BOOLEAN, gone : BOOLEAN, broken : BOOLEAN,
               run : EventArgs \cup {"idle"}, talk : Seq(TalkItems)]

\* Messages of the first n events, in the order of their numbers.
Ordered(said, n) ==
  /\ said \in Seq(TalkItems)
  /\ \A i \in HeardIn(said) : said[i].number <= n
  /\ \A i, j \in HeardIn(said) : i < j => said[i].number < said[j].number

LEMMA TalkAdds ==
  ASSUME NEW said \in Seq(TalkItems), NEW m \in TalkItems, m.role # "system"
  PROVE  /\ Append(said, m) \in Seq(TalkItems)
         /\ Heard(Append(said, m)) = Heard(said) \cup {m}
         /\ \A n \in Nat : Ordered(said, n) /\ m.number = n + 1 => Ordered(Append(said, m), n + 1)
<1> DEFINE new == Append(said, m)
           c == Len(said)
<1>2. c \in Nat /\ DOMAIN said = 1 .. c
  BY LenProperties
<1> HIDE DEF c
<1>3. /\ new \in Seq(TalkItems) /\ DOMAIN new = 1 .. (c + 1) /\ new[c + 1] = m
      /\ \A i \in 1 .. c : new[i] = said[i]
  <2>1. new \in Seq(TalkItems) /\ Len(new) = c + 1 /\ new[c + 1] = m
        /\ \A i \in 1 .. c : new[i] = said[i]
    BY <1>2, AppendProperties DEF c
  <2> QED
    BY <2>1, LenProperties
<1> HIDE DEF new
<1>4. HeardIn(new) = HeardIn(said) \cup {c + 1} /\ \A i \in HeardIn(said) : i \in 1 .. c /\ new[i] = said[i]
  <2>1. \A i \in 1 .. (c + 1) : i = c + 1 \/ i \in 1 .. c
    BY <1>2
  <2>2. c + 1 \in 1 .. (c + 1) /\ \A i \in 1 .. c : i \in 1 .. (c + 1)
    BY <1>2
  <2> QED
    BY <1>2, <1>3, <2>1, <2>2 DEF HeardIn
<1>5. Heard(new) = Heard(said) \cup {m}
  BY <1>3, <1>4 DEF Heard
<1>6. ASSUME NEW n \in Nat, Ordered(said, n), m.number = n + 1 PROVE Ordered(new, n + 1)
  <2>1. \A i \in HeardIn(said) : said[i].number <= n /\ said[i].number \in Nat
    <3>1. \A i \in HeardIn(said) : said[i] \in TalkItems
      BY <1>4, ElementOfSeq DEF c
    <3> QED
      BY <1>6, <3>1 DEF Ordered, TalkItems
  <2>2. \A i \in HeardIn(new) : new[i].number <= n + 1
    BY <1>3, <1>4, <1>6, <2>1
  <2>3. ASSUME NEW i \in HeardIn(new), NEW j \in HeardIn(new), i < j
        PROVE  new[i].number < new[j].number
    <3>1. i \in HeardIn(said) /\ i # c + 1
      BY <1>2, <1>4, <2>3
    <3>2. CASE j = c + 1
      <4>1. said[i].number < n + 1
        BY <2>1, <3>1
      <4> QED
        BY <1>3, <1>4, <1>6, <3>1, <3>2, <4>1
    <3>3. CASE j # c + 1
      <4>1. j \in HeardIn(said) /\ said[i].number < said[j].number
        BY <1>4, <1>6, <2>3, <3>1, <3>3 DEF Ordered
      <4> QED
        BY <1>4, <3>1, <4>1
    <3> QED
      BY <3>2, <3>3
  <2> QED
    BY <1>3, <2>2, <2>3 DEF Ordered
<1> QED
  BY <1>3, <1>5, <1>6 DEF new

\* Some of the messages, in their order.
LEMMA TalkKept ==
  ASSUME NEW said \in Seq(TalkItems), NEW W \in SUBSET DOMAIN said
  PROVE  LET rest == ItemsAt(said, W) IN
         /\ rest \in Seq(TalkItems)
         /\ Heard(rest) = {said[k] : k \in HeardIn(said) \cap W}
         /\ \A n \in Nat : Ordered(said, n) => Ordered(rest, n)
<1> DEFINE rest == ItemsAt(said, W)
           c == Cardinality(W)
<1>1. /\ c \in Nat /\ rest \in Seq(TalkItems) /\ Len(rest) = c
      /\ \A i \in 1 .. c : PlaceIn(W, i) \in W /\ rest[i] = said[PlaceIn(W, i)]
      /\ \A i, j \in 1 .. c : i < j => PlaceIn(W, i) < PlaceIn(W, j)
      /\ \A k \in W : \E i \in 1 .. c : PlaceIn(W, i) = k
  <2> DEFINE T == TalkItems
  <2> HIDE DEF T
  <2>1. said \in Seq(T)
    BY DEF T
  <2> QED
    BY <2>1, KeptItems DEF T
<1> HIDE DEF rest, c
<1>2. DOMAIN rest = 1 .. c
  BY <1>1, LenProperties
<1>3. \A i \in HeardIn(rest) : /\ i \in 1 .. c /\ PlaceIn(W, i) \in HeardIn(said) \cap W
                               /\ rest[i] = said[PlaceIn(W, i)]
  BY <1>1, <1>2 DEF HeardIn
<1>4. \A k \in HeardIn(said) \cap W : \E i \in HeardIn(rest) : rest[i] = said[k]
  <2> SUFFICES ASSUME NEW k \in HeardIn(said) \cap W PROVE \E i \in HeardIn(rest) : rest[i] = said[k]
    OBVIOUS
  <2>1. PICK i \in 1 .. c : PlaceIn(W, i) = k
    BY <1>1
  <2>2. rest[i] = said[k] /\ i \in HeardIn(rest)
    BY <1>1, <1>2, <2>1 DEF HeardIn
  <2> QED
    BY <2>2
<1>5. Heard(rest) = {said[k] : k \in HeardIn(said) \cap W}
  BY <1>3, <1>4 DEF Heard
<1>6. ASSUME NEW n \in Nat, Ordered(said, n) PROVE Ordered(rest, n)
  <2>1. \A i \in HeardIn(rest) : rest[i].number <= n
    BY <1>3, <1>6 DEF Ordered
  <2>2. ASSUME NEW i \in HeardIn(rest), NEW j \in HeardIn(rest), i < j
        PROVE  rest[i].number < rest[j].number
    <3>1. PlaceIn(W, i) < PlaceIn(W, j)
      BY <1>1, <1>3, <2>2
    <3> QED
      BY <1>3, <1>6, <3>1 DEF Ordered
  <2> QED
    BY <1>1, <2>1, <2>2 DEF Ordered
<1> QED
  BY <1>1, <1>5, <1>6 DEF rest

\* A snapshot in front is not heard.
LEMMA TalkSnap ==
  ASSUME NEW rest \in Seq(TalkItems), NEW snap \in TalkItems, snap.role = "system"
  PROVE  LET new == <<snap>> \o rest IN
         /\ new \in Seq(TalkItems)
         /\ Heard(new) = Heard(rest)
         /\ \A n \in Nat : Ordered(rest, n) => Ordered(new, n)
<1> DEFINE new == <<snap>> \o rest
           c == Len(rest)
<1>1. c \in Nat /\ DOMAIN rest = 1 .. c
  BY LenProperties
<1>2. <<snap>> \in Seq(TalkItems) /\ Len(<<snap>>) = 1 /\ <<snap>>[1] = snap
  OBVIOUS
<1>3. /\ new \in Seq(TalkItems) /\ Len(new) = 1 + c
      /\ \A i \in 1 .. (1 + c) : new[i] = IF i <= 1 THEN <<snap>>[i] ELSE rest[i - 1]
  BY <1>2, ConcatProperties
<1> HIDE DEF new, c
<1>4. DOMAIN new = 1 .. (1 + c)
  BY <1>3, LenProperties
<1>5. new[1] = snap
  <2>1. 1 \in 1 .. (1 + c) /\ 1 <= 1
    BY <1>1
  <2> QED
    BY <1>2, <1>3, <2>1
<1>6. \A i \in 1 .. (1 + c) : i # 1 => i - 1 \in 1 .. c /\ new[i] = rest[i - 1]
  <2> SUFFICES ASSUME NEW i \in 1 .. (1 + c), i # 1 PROVE i - 1 \in 1 .. c /\ new[i] = rest[i - 1]
    OBVIOUS
  <2>1. i - 1 \in 1 .. c /\ ~(i <= 1)
    BY <1>1
  <2> QED
    BY <1>3, <2>1
<1>7. \A i \in HeardIn(new) : i \in Int /\ i - 1 \in HeardIn(rest) /\ new[i] = rest[i - 1]
  <2> SUFFICES ASSUME NEW i \in HeardIn(new)
               PROVE  i \in Int /\ i - 1 \in HeardIn(rest) /\ new[i] = rest[i - 1]
    OBVIOUS
  <2>1. i \in 1 .. (1 + c) /\ i # 1 /\ new[i].role # "system"
    BY <1>4, <1>5 DEF HeardIn
  <2>2. i - 1 \in 1 .. c /\ new[i] = rest[i - 1]
    BY <1>6, <2>1
  <2> QED
    BY <1>1, <2>1, <2>2 DEF HeardIn
<1>8. \A i \in HeardIn(rest) : \E k \in HeardIn(new) : new[k] = rest[i]
  <2> SUFFICES ASSUME NEW i \in HeardIn(rest) PROVE \E k \in HeardIn(new) : new[k] = rest[i]
    OBVIOUS
  <2>1. i \in 1 .. c /\ rest[i].role # "system"
    BY <1>1 DEF HeardIn
  <2>2. i + 1 \in 1 .. (1 + c) /\ i + 1 # 1 /\ (i + 1) - 1 = i
    BY <1>1, <2>1
  <2>3. new[i + 1] = rest[(i + 1) - 1]
    BY <1>6, <2>2
  <2>4. new[i + 1] = rest[i]
    BY <2>2, <2>3
  <2> QED
    BY <1>4, <2>1, <2>2, <2>4 DEF HeardIn
<1>9. Heard(new) = Heard(rest)
  BY <1>7, <1>8 DEF Heard
<1>10. ASSUME NEW n \in Nat, Ordered(rest, n) PROVE Ordered(new, n)
  <2>1. \A i \in HeardIn(new) : new[i].number <= n
    BY <1>7, <1>10 DEF Ordered
  <2>2. ASSUME NEW i \in HeardIn(new), NEW j \in HeardIn(new), i < j
        PROVE  new[i].number < new[j].number
    <3>1. i - 1 < j - 1
      BY <1>7, <2>2
    <3> QED
      BY <1>7, <1>10, <3>1 DEF Ordered
  <2> QED
    BY <1>3, <2>1, <2>2 DEF Ordered
<1> QED
  BY <1>3, <1>9, <1>10 DEF new

LEMMA TalkCompacts ==
  ASSUME NEW said \in Seq(TalkItems), NEW base \in Nat
  PROVE  /\ Compacted(said, base) \in Seq(TalkItems)
         /\ Heard(Compacted(said, base)) = {m \in Heard(said) : m.number >= base}
         /\ \A n \in Nat : Ordered(said, n) => Ordered(Compacted(said, base), n)
<1> DEFINE W == {k \in DOMAIN said : said[k].number >= base}
           rest == ItemsAt(said, W)
           snap == Spoken("system", base)
           new == Compacted(said, base)
<1>1. new = IF Len(rest) < Len(said) THEN <<snap>> \o rest ELSE rest
  BY DEF Compacted
<1>2. W \in SUBSET DOMAIN said /\ snap \in TalkItems /\ snap.role = "system"
  BY DEF Spoken, TalkItems
<1>3. {said[k] : k \in HeardIn(said) \cap W} = {m \in Heard(said) : m.number >= base}
  BY DEF Heard, HeardIn
<1> HIDE DEF W, snap, new
<1>4. /\ rest \in Seq(TalkItems)
      /\ Heard(rest) = {said[k] : k \in HeardIn(said) \cap W}
      /\ \A n \in Nat : Ordered(said, n) => Ordered(rest, n)
  BY <1>2, TalkKept
<1> HIDE DEF rest
<1>5. CASE Len(rest) < Len(said)
  <2>1. new = <<snap>> \o rest
    BY <1>1, <1>5
  <2> DEFINE t == <<snap>> \o rest
  <2>2. /\ t \in Seq(TalkItems) /\ Heard(t) = Heard(rest)
        /\ \A n \in Nat : Ordered(rest, n) => Ordered(t, n)
    BY <1>2, <1>4, TalkSnap
  <2>3. new = t
    BY <2>1
  <2> HIDE DEF t
  <2> QED
    BY <1>3, <1>4, <2>2, <2>3 DEF new
<1>6. CASE ~(Len(rest) < Len(said))
  BY <1>1, <1>3, <1>4, <1>6 DEF new
<1> QED
  BY <1>5, <1>6

LEMMA TalkReverts ==
  ASSUME NEW said \in Seq(TalkItems), NEW target \in Nat
  PROVE  /\ Reverted(said, target) \in Seq(TalkItems)
         /\ Heard(Reverted(said, target)) = {m \in Heard(said) : m.number <= target}
         /\ \A n \in Nat : Ordered(said, n) => Ordered(Reverted(said, target), n)
<1> DEFINE W == {k \in DOMAIN said : said[k].number <= target}
<1>1. {said[k] : k \in HeardIn(said) \cap W} = {m \in Heard(said) : m.number <= target}
  BY DEF Heard, HeardIn
<1>2. W \in SUBSET DOMAIN said /\ Reverted(said, target) = ItemsAt(said, W)
  BY DEF Reverted
<1> HIDE DEF W
<1> QED
  BY <1>1, <1>2, TalkKept

LEMMA TalkEdits ==
  ASSUME NEW said \in Seq(TalkItems), NEW p \in DOMAIN said, NEW t \in Nat
  PROVE  LET new == [said EXCEPT ![p].text = t] IN
         /\ new \in Seq(TalkItems) /\ Len(new) = Len(said)
         /\ \A n \in Nat : Ordered(said, n) => Ordered(new, n)
<1> DEFINE new == [said EXCEPT ![p].text = t]
           c == Len(said)
<1>1. c \in Nat /\ DOMAIN said = 1 .. c /\ said \in [1 .. c -> TalkItems]
  BY LenProperties
<1> HIDE DEF c
<1>2. /\ new \in [1 .. c -> TalkItems]
      /\ \A i \in 1 .. c : new[i].role = said[i].role /\ new[i].number = said[i].number
  BY <1>1 DEF TalkItems
<1>3. new \in Seq(TalkItems) /\ Len(new) = c
  BY <1>1, <1>2, SeqDef, LenProperties
<1> HIDE DEF new
<1>4. HeardIn(new) = HeardIn(said) /\ \A i \in HeardIn(said) : new[i].number = said[i].number
  BY <1>1, <1>2 DEF HeardIn
<1>5. ASSUME NEW n \in Nat, Ordered(said, n) PROVE Ordered(new, n)
  <2>1. \A i \in HeardIn(new) : new[i].number <= n
    BY <1>4, <1>5 DEF Ordered
  <2>2. \A i, j \in HeardIn(new) : i < j => new[i].number < new[j].number
    BY <1>4, <1>5 DEF Ordered
  <2> QED
    BY <1>3, <2>1, <2>2 DEF Ordered
<1> QED
  BY <1>3, <1>5 DEF new, c

\* The talk after an event.
LEMMA TalkGoesOn ==
  ASSUME NEW x \in RouteEvents, NEW v \in RouteViews, Ordered(v.talk, v.number)
  PROVE  TalkAfter(v, x) \in Seq(TalkItems) /\ Ordered(TalkAfter(v, x), v.number + 1)
<1> DEFINE n == v.number
           said == v.talk
           new == TalkAfter(v, x)
<1>1. n \in Nat /\ said \in Seq(TalkItems) /\ x.kind \in EventKinds /\ (x.kind \in NumberedKinds => x.arg \in Nat)
  BY DEF RouteViews, RouteEvents
<1>2. new = CASE x.kind = "prompt"     -> Append(said, Spoken("user", n + 1))
              [] x.kind = "text"       -> Append(said, Spoken("assistant", n + 1))
              [] x.kind = "compaction" -> Compacted(said, x.arg)
              [] x.kind = "reverted"   -> Reverted(said, x.arg)
              [] x.kind = "edited" /\ ~Misses(v, x)  -> [said EXCEPT ![x.arg].text = n + 1]
              [] x.kind = "removed" /\ ~Misses(v, x) -> ItemsAt(said, DOMAIN said \ {x.arg})
              [] OTHER                 -> said
  BY DEF TalkAfter
<1>3. Ordered(said, n) /\ (x.kind \in {"edited", "removed"} /\ ~Misses(v, x) => x.arg \in DOMAIN said)
  BY DEF Misses
<1> HIDE DEF n, said, new
<1>4. \A t : Ordered(t, n) => Ordered(t, n + 1)
  <2> SUFFICES ASSUME NEW t, Ordered(t, n) PROVE Ordered(t, n + 1)
    OBVIOUS
  <2>1. t \in Seq(TalkItems) /\ \A i \in HeardIn(t) : i \in 1 .. Len(t)
    BY LenProperties DEF Ordered, HeardIn
  <2>2. \A i \in HeardIn(t) : t[i] \in TalkItems
    BY <2>1, ElementOfSeq
  <2>3. \A i \in HeardIn(t) : t[i].number \in Nat /\ t[i].number <= n
    BY <2>2 DEF Ordered, TalkItems
  <2> QED
    BY <1>1, <2>3 DEF Ordered
<1>5. \A role \in {"user", "assistant"} : LET m == Spoken(role, n + 1) IN
        m \in TalkItems /\ m.role # "system" /\ m.number = n + 1
  BY <1>1 DEF Spoken, TalkItems
<1>6. ASSUME NEW role \in {"user", "assistant"}, new = Append(said, Spoken(role, n + 1))
      PROVE  Ordered(new, n + 1)
  <2> DEFINE m == Spoken(role, n + 1)
  <2>1. m \in TalkItems /\ m.role # "system" /\ m.number = n + 1 /\ new = Append(said, m)
    BY <1>5, <1>6
  <2> HIDE DEF m
  <2> QED
    BY <1>1, <1>3, <2>1, TalkAdds
<1>7. Ordered(new, n + 1)
  <2>1. CASE x.kind = "prompt"
    BY <1>2, <1>6, <2>1
  <2>2. CASE x.kind = "text"
    BY <1>2, <1>6, <2>2
  <2>3. CASE x.kind = "compaction"
    BY <1>1, <1>2, <1>3, <1>4, <2>3, TalkCompacts DEF NumberedKinds
  <2>4. CASE x.kind = "reverted"
    BY <1>1, <1>2, <1>3, <1>4, <2>4, TalkReverts DEF NumberedKinds
  <2>5. CASE x.kind = "edited" /\ ~Misses(v, x)
    <3>1. x.arg \in DOMAIN said /\ n + 1 \in Nat /\ new = [said EXCEPT ![x.arg].text = n + 1]
      BY <1>1, <1>2, <1>3, <2>5
    <3>2. Ordered([said EXCEPT ![x.arg].text = n + 1], n)
      BY <1>1, <1>3, <3>1, TalkEdits
    <3> QED
      BY <1>4, <3>1, <3>2
  <2>6. CASE x.kind = "removed" /\ ~Misses(v, x)
    <3> DEFINE W == DOMAIN said \ {x.arg}
    <3>1. W \in SUBSET DOMAIN said /\ new = ItemsAt(said, W)
      BY <1>2, <2>6
    <3> HIDE DEF W
    <3>2. Ordered(ItemsAt(said, W), n)
      BY <1>1, <1>3, <3>1, TalkKept
    <3> QED
      BY <1>4, <3>1, <3>2
  <2>7. CASE /\ x.kind \notin {"prompt", "text", "compaction", "reverted"}
             /\ ~(x.kind = "edited" /\ ~Misses(v, x)) /\ ~(x.kind = "removed" /\ ~Misses(v, x))
    <3>1. new = said
      BY <1>2, <2>7
    <3> QED
      BY <1>3, <1>4, <3>1
  <2> QED
    BY <2>1, <2>2, <2>3, <2>4, <2>5, <2>6, <2>7
<1> QED
  BY <1>7 DEF Ordered, new, n

\* The run is in the state of the last mark.
RunFits(run, e, n) ==
  \/ run = "idle" /\ \A k \in 1 .. n : e[k].kind # "run"
  \/ \E j \in 1 .. n : /\ e[j].kind = "run" /\ run = e[j].arg
                       /\ \A i \in (j + 1) .. n : e[i].kind # "run"

ViewFits(v, e, n) ==
  /\ v \in RouteViews /\ v.number = n
  /\ v.gone <=> \E k \in 1 .. n : e[k].kind = "deleted"
  /\ RunFits(v.run, e, n)
  /\ Ordered(v.talk, n)

LEMMA NothingFits ==
  ASSUME NEW e
  PROVE  ViewFits(NothingRead, e, 0)
<1>1. 1 .. 0 = {}
  OBVIOUS
<1>2. NothingRead \in RouteViews /\ NothingRead.number = 0 /\ ~NothingRead.gone
      /\ NothingRead.run = "idle" /\ NothingRead.talk = <<>>
  BY DEF NothingRead, RouteViews
<1>3. Ordered(<<>>, 0)
  <2>1. HeardIn(<<>>) = {}
    BY DEF HeardIn
  <2> QED
    BY <2>1 DEF Ordered
<1>4. RunFits("idle", e, 0)
  BY <1>1 DEF RunFits
<1> QED
  BY <1>1, <1>2, <1>3, <1>4 DEF ViewFits

LEMMA MarkStep ==
  ASSUME NEW e, NEW n \in Nat, NEW run, RunFits(run, e, n)
  PROVE  RunFits(IF e[n + 1].kind = "run" THEN e[n + 1].arg ELSE run, e, n + 1)
<1>1. /\ ((n + 1) + 1) .. (n + 1) = {} /\ n + 1 \in 1 .. (n + 1)
      /\ \A i \in 1 .. (n + 1) : i = n + 1 \/ i \in 1 .. n
      /\ \A j \in 1 .. n : j \in 1 .. (n + 1) /\ \A i \in (j + 1) .. (n + 1) : i = n + 1 \/ i \in (j + 1) .. n
  OBVIOUS
<1>2. CASE e[n + 1].kind = "run"
  BY <1>1, <1>2 DEF RunFits
<1>3. CASE e[n + 1].kind # "run"
  BY <1>1, <1>3 DEF RunFits
<1> QED
  BY <1>2, <1>3

LEMMA AppliedFits ==
  ASSUME NEW e \in Seq(RouteEvents), NEW n \in Nat, n + 1 \in 1 .. Len(e), NEW v, ViewFits(v, e, n)
  PROVE  ViewFits(Applied(v, e[n + 1]), e, n + 1)
<1> DEFINE x == e[n + 1]
           w == Applied(v, x)
           said == TalkAfter(v, x)
<1>1. /\ v \in RouteViews /\ v.number = n /\ Ordered(v.talk, n) /\ RunFits(v.run, e, n)
      /\ v.gone <=> \E k \in 1 .. n : e[k].kind = "deleted"
  BY DEF ViewFits
<1>2. x \in RouteEvents
  BY ElementOfSeq
<1>3. x.kind \in EventKinds /\ x.arg \in EventArgs
  BY <1>2 DEF RouteEvents
<1>4. w = [number |-> n + 1, known |-> v.known \/ x.kind = "created", gone |-> IsGone(v, x),
           broken |-> v.broken \/ Misses(v, x),
           run |-> IF x.kind = "run" THEN x.arg ELSE v.run, talk |-> said]
  BY <1>1 DEF Applied
<1>5. said \in Seq(TalkItems) /\ Ordered(said, n + 1)
  BY <1>1, <1>2, TalkGoesOn
<1>6. RunFits(IF x.kind = "run" THEN x.arg ELSE v.run, e, n + 1)
  BY <1>1, MarkStep
<1>7. IsGone(v, x) \in BOOLEAN /\ (IsGone(v, x) <=> \E k \in 1 .. (n + 1) : e[k].kind = "deleted")
  <2>1. /\ n + 1 \in 1 .. (n + 1) /\ \A i \in 1 .. (n + 1) : i = n + 1 \/ i \in 1 .. n
        /\ \A i \in 1 .. n : i \in 1 .. (n + 1)
    OBVIOUS
  <2>2. v.gone \in BOOLEAN
    BY <1>1 DEF RouteViews
  <2> QED
    BY <1>1, <2>1, <2>2 DEF IsGone
<1>8. /\ v.run \in EventArgs \cup {"idle"} /\ v.known \in BOOLEAN /\ v.broken \in BOOLEAN /\ n + 1 \in Nat
      /\ Misses(v, x) \in BOOLEAN
  BY <1>1 DEF RouteViews, Misses
<1> HIDE DEF said, w, x
<1>9. w \in RouteViews
  <2> DEFINE known == v.known \/ x.kind = "created"
             broken == v.broken \/ Misses(v, x)
             run == IF x.kind = "run" THEN x.arg ELSE v.run
  <2>1. known \in BOOLEAN /\ broken \in BOOLEAN /\ run \in EventArgs \cup {"idle"}
    BY <1>3, <1>8
  <2>2. w = [number |-> n + 1, known |-> known, gone |-> IsGone(v, x), broken |-> broken,
             run |-> run, talk |-> said]
    BY <1>4
  <2> HIDE DEF known, broken, run
  <2> QED
    BY <1>5, <1>7, <1>8, <2>1, <2>2 DEF RouteViews
<1>10. /\ w.number = n + 1 /\ w.gone = IsGone(v, x) /\ w.talk = said
       /\ w.run = IF x.kind = "run" THEN x.arg ELSE v.run
  BY <1>4
<1> QED
  BY <1>5, <1>6, <1>7, <1>9, <1>10 DEF ViewFits, w, x

LEMMA ViewsFit ==
  ASSUME NEW e \in Seq(RouteEvents)
  PROVE  \A n \in 0 .. Len(e) : ViewFits(Views(e)[n], e, n)
<1> DEFINE S == {n \in Nat : n <= Len(e) => ViewFits(Views(e)[n], e, n)}
<1>1. Len(e) \in Nat
  BY LenProperties
<1>2. Views(e)[0] = NothingRead
  BY <1>1, ViewsStep
<1>3. 0 \in S
  BY <1>2, NothingFits
<1>4. ASSUME NEW n \in Nat, n \in S PROVE n + 1 \in S
  <2> SUFFICES ASSUME n + 1 <= Len(e) PROVE ViewFits(Views(e)[n + 1], e, n + 1)
    OBVIOUS
  <2>1. n <= Len(e) /\ n + 1 \in 1 .. Len(e) /\ (n + 1) - 1 = n
    BY <1>1
  <2>2. ViewFits(Views(e)[n], e, n)
    BY <1>4, <2>1
  <2>3. Views(e)[n + 1] = Applied(Views(e)[(n + 1) - 1], e[n + 1])
    BY <1>1, <2>1, ViewsStep
  <2>4. Views(e)[n + 1] = Applied(Views(e)[n], e[n + 1])
    BY <2>1, <2>3
  <2> QED
    BY <2>1, <2>2, <2>4, AppliedFits
<1> HIDE DEF S
<1>5. \A n \in Nat : n \in S
  BY <1>3, <1>4, StepsReach
<1> QED
  BY <1>1, <1>5 DEF S

\* What a read takes.
LEMMA ReadOfIs ==
  ASSUME NEW e \in Seq(RouteEvents)
  PROVE  LET read == ReadOf(e) IN
         /\ read \in Seq(RouteEvents) /\ Len(read) \in Nat
         /\ Len(read) = IF Len(e) < RouteReadLimit THEN Len(e) ELSE RouteReadLimit
         /\ \A k \in 1 .. Len(read) : read[k] = e[k]
         /\ ViewFits(ViewOf(e), read, Len(read))
<1> DEFINE read == ReadOf(e)
           m == IF Len(e) < RouteReadLimit THEN Len(e) ELSE RouteReadLimit
<1>1. Len(e) \in Nat /\ m \in Nat /\ m <= Len(e) /\ read = SubSeq(e, 1, m)
  BY LenProperties, RoutesAssumption DEF ReadOf
<1> HIDE DEF m, read
<1>2. \A i \in 1 .. m : e[i] \in RouteEvents
  BY <1>1, ElementOfSeq
<1>3. /\ read \in Seq(RouteEvents) /\ Len(read) = IF 1 <= m THEN m - 1 + 1 ELSE 0
      /\ \A k \in 1 .. (m - 1 + 1) : read[k] = e[1 + k - 1]
  <2>1. 1 \in Int /\ m \in Int
    BY <1>1
  <2> DEFINE S == RouteEvents
  <2> HIDE DEF S
  <2>2. \A i \in 1 .. m : e[i] \in S
    BY <1>2 DEF S
  <2>3. /\ SubSeq(e, 1, m) \in Seq(S) /\ Len(SubSeq(e, 1, m)) = IF 1 <= m THEN m - 1 + 1 ELSE 0
        /\ \A k \in 1 .. (m - 1 + 1) : SubSeq(e, 1, m)[k] = e[1 + k - 1]
    BY <2>1, <2>2, SubSeqProperties
  <2> QED
    BY <1>1, <2>3 DEF S
<1>4. Len(read) = m /\ \A k \in 1 .. m : read[k] = e[k]
  <2>1. m - 1 + 1 = m /\ (~(1 <= m) => m = 0) /\ \A k \in 1 .. m : 1 + k - 1 = k
    BY <1>1
  <2> QED
    BY <1>3, <2>1
<1>5. ViewOf(e) = Views(read)[Len(read)]
  BY DEF ViewOf, read
<1>6. Len(read) \in 0 .. Len(read)
  BY <1>1, <1>4
<1>7. ViewFits(ViewOf(e), read, Len(read))
  BY <1>3, <1>5, <1>6, ViewsFit
<1> QED
  BY <1>1, <1>3, <1>4, <1>7 DEF read, m

\* Two lists, of which the second has the list of the first behind another.
Behind(e, f, n) ==
  /\ f[1].kind = "created"
  /\ \A k \in 1 .. n : f[k + 1].kind = e[k].kind /\ f[k + 1].arg = e[k].arg

LEMMA RunBehind ==
  ASSUME NEW n \in Nat, NEW e, NEW f, Behind(e, f, n),
         NEW r, NEW s, RunFits(r, e, n), RunFits(s, f, n + 1)
  PROVE  r = s
<1>1. ASSUME NEW i \in 1 .. (n + 1), f[i].kind = "run"
      PROVE  i - 1 \in 1 .. n /\ e[i - 1].kind = "run" /\ e[i - 1].arg = f[i].arg
  <2>1. i # 1
    BY <1>1 DEF Behind
  <2>2. i - 1 \in 1 .. n /\ (i - 1) + 1 = i
    BY <2>1
  <2>3. f[(i - 1) + 1].kind = e[i - 1].kind /\ f[(i - 1) + 1].arg = e[i - 1].arg
    BY <2>2 DEF Behind
  <2> QED
    BY <1>1, <2>2, <2>3
<1>2. ASSUME NEW i \in 1 .. n, e[i].kind = "run"
      PROVE  i + 1 \in 1 .. (n + 1) /\ f[i + 1].kind = "run" /\ f[i + 1].arg = e[i].arg
  BY <1>2 DEF Behind
<1>3. CASE r = "idle" /\ \A k \in 1 .. n : e[k].kind # "run"
  BY <1>1, <1>3 DEF RunFits
<1>4. ASSUME NEW j \in 1 .. n, e[j].kind = "run", r = e[j].arg,
             \A i \in (j + 1) .. n : e[i].kind # "run"
      PROVE  r = s
  <2>1. PICK k \in 1 .. (n + 1) : /\ f[k].kind = "run" /\ s = f[k].arg
                                  /\ \A i \in (k + 1) .. (n + 1) : f[i].kind # "run"
    BY <1>2, <1>4 DEF RunFits
  <2>2. k - 1 \in 1 .. n /\ e[k - 1].kind = "run" /\ e[k - 1].arg = f[k].arg
    BY <1>1, <2>1
  <2>3. j + 1 \in 1 .. (n + 1) /\ f[j + 1].kind = "run"
    BY <1>2, <1>4
  <2>4. k - 1 \notin (j + 1) .. n /\ j + 1 \notin (k + 1) .. (n + 1)
    BY <1>4, <2>1, <2>2, <2>3
  <2>5. k - 1 = j
    BY <2>2, <2>4
  <2> QED
    BY <1>4, <2>1, <2>2, <2>5
<1> QED
  BY <1>3, <1>4 DEF RunFits

-----------------------------------------------------------------------------
(***************************************************************************)
(* The same events in the two lists, one place apart: step by step, what   *)
(* they project to stays alike.                                            *)
(***************************************************************************)
LaterAll(msgs) == [k \in DOMAIN msgs |-> Later(msgs[k])]

LEMMA LaterOf ==
  ASSUME NEW r, NEW n \in Nat, NEW t \in Nat
  PROVE  Later([role |-> r, number |-> n, text |-> t]) = [role |-> r, number |-> n + 1, text |-> t + 1]
<1> DEFINE m == [role |-> r, number |-> n, text |-> t]
<1>1. DOMAIN m = {"role", "number", "text"} /\ m.role = r /\ m.number = n /\ m.text = t
  OBVIOUS
<1>2. Later(m) = [x \in DOMAIN m |-> IF x = "text" THEN m.text + 1
                                     ELSE IF x = "number" THEN m.number + 1 ELSE m[x]]
  BY DEF Later
<1> QED
  BY <1>1, <1>2

LEMMA LaterIs ==
  ASSUME NEW m \in TalkItems
  PROVE  /\ Later(m) \in TalkItems /\ Later(m).role = m.role /\ Later(m).number = m.number + 1
         /\ \A t \in Nat : Later([m EXCEPT !.text = t]) = [Later(m) EXCEPT !.text = t + 1]
<1>1. m = [role |-> m.role, number |-> m.number, text |-> m.text]
  BY DEF TalkItems
<1>3. /\ m.role \in {"user", "assistant", "system"} /\ m.number \in Nat /\ m.text \in Nat
      /\ m.number + 1 \in Nat /\ m.text + 1 \in Nat
  BY DEF TalkItems
<1>2. Later(m) = [role |-> m.role, number |-> m.number + 1, text |-> m.text + 1]
  BY <1>1, <1>3, LaterOf
<1>4. ASSUME NEW t \in Nat
      PROVE  Later([m EXCEPT !.text = t]) = [Later(m) EXCEPT !.text = t + 1]
  <2>1. [m EXCEPT !.text = t] = [role |-> m.role, number |-> m.number, text |-> t]
    BY <1>1
  <2>2. Later([m EXCEPT !.text = t]) = [role |-> m.role, number |-> m.number + 1, text |-> t + 1]
    BY <2>1, <1>3, LaterOf
  <2> QED
    BY <1>2, <2>2
<1>5. Later(m) \in TalkItems
  BY <1>2, <1>3 DEF TalkItems
<1> QED
  BY <1>2, <1>4, <1>5

LEMMA LaterSpoken ==
  ASSUME NEW role \in {"user", "assistant"}, NEW n \in Nat
  PROVE  Spoken(role, n) \in TalkItems /\ Later(Spoken(role, n)) = Spoken(role, n + 1)
<1>1. Spoken(role, n) = [role |-> role, number |-> n, text |-> n]
  BY DEF Spoken
<1>2. Later(Spoken(role, n)) = [role |-> role, number |-> n + 1, text |-> n + 1]
  BY <1>1, LaterOf
<1> QED
  BY <1>1, <1>2 DEF Spoken, TalkItems

LEMMA LaterTyped ==
  ASSUME NEW msgs \in Seq(TalkItems)
  PROVE  /\ LaterAll(msgs) \in Seq(TalkItems) /\ Len(LaterAll(msgs)) = Len(msgs)
         /\ DOMAIN LaterAll(msgs) = DOMAIN msgs /\ DOMAIN msgs = 1 .. Len(msgs)
         /\ \A k \in 1 .. Len(msgs) : LaterAll(msgs)[k] = Later(msgs[k]) /\ msgs[k] \in TalkItems
<1> DEFINE c == Len(msgs)
           t == LaterAll(msgs)
<1>1. c \in Nat /\ DOMAIN msgs = 1 .. c /\ \A k \in 1 .. c : msgs[k] \in TalkItems
  BY LenProperties, ElementOfSeq
<1>2. t = [k \in 1 .. c |-> Later(msgs[k])]
  BY <1>1 DEF LaterAll
<1>3. \A k \in 1 .. c : Later(msgs[k]) \in TalkItems
  BY <1>1, LaterIs
<1> HIDE DEF c, t
<1>4. t \in [1 .. c -> TalkItems]
  BY <1>2, <1>3
<1>5. t \in Seq(TalkItems) /\ Len(t) = c /\ DOMAIN t = 1 .. c
  BY <1>1, <1>4, SeqDef, LenProperties
<1> QED
  BY <1>1, <1>2, <1>5 DEF c, t

LEMMA LaterAppend ==
  ASSUME NEW msgs \in Seq(TalkItems), NEW m \in TalkItems
  PROVE  Append(LaterAll(msgs), Later(m)) = LaterAll(Append(msgs, m))
<1> DEFINE c == Len(msgs)
           old == LaterAll(msgs)
           s == Append(old, Later(m))
           u == Append(msgs, m)
           t == LaterAll(u)
<1>1. c \in Nat /\ old \in Seq(TalkItems) /\ Len(old) = c /\ \A k \in 1 .. c : old[k] = Later(msgs[k])
  BY LaterTyped, LenProperties
<1>2. Later(m) \in TalkItems
  BY LaterIs
<1> HIDE DEF c, old
<1>3. /\ s \in Seq(TalkItems) /\ Len(s) = c + 1 /\ s[c + 1] = Later(m)
      /\ \A k \in 1 .. c : s[k] = old[k]
  BY <1>1, <1>2, AppendProperties
<1>4. u \in Seq(TalkItems) /\ Len(u) = c + 1 /\ u[c + 1] = m /\ \A k \in 1 .. c : u[k] = msgs[k]
  BY <1>1, AppendProperties DEF c
<1> HIDE DEF s, u
<1>5. t \in Seq(TalkItems) /\ Len(t) = c + 1 /\ \A k \in 1 .. (c + 1) : t[k] = Later(u[k])
  BY <1>4, LaterTyped
<1> HIDE DEF t
<1>6. \A k \in 1 .. (c + 1) : k = c + 1 \/ k \in 1 .. c
  BY <1>1
<1>7. \A k \in 1 .. (c + 1) : s[k] = t[k]
  BY <1>1, <1>3, <1>4, <1>5, <1>6
<1>8. s = t
  BY <1>3, <1>5, <1>7, SeqEqual
<1> QED
  BY <1>8 DEF s, t, u, old

LEMMA LaterEdit ==
  ASSUME NEW msgs \in Seq(TalkItems), NEW p \in DOMAIN msgs, NEW n \in Nat
  PROVE  [LaterAll(msgs) EXCEPT ![p].text = n + 1] = LaterAll([msgs EXCEPT ![p].text = n])
<1> DEFINE c == Len(msgs)
           old == LaterAll(msgs)
           s == [old EXCEPT ![p].text = n + 1]
           u == [msgs EXCEPT ![p].text = n]
           t == LaterAll(u)
<1>1. /\ old \in Seq(TalkItems) /\ Len(old) = c /\ p \in 1 .. c
      /\ \A k \in 1 .. c : old[k] = Later(msgs[k]) /\ msgs[k] \in TalkItems
      /\ msgs \in [1 .. c -> TalkItems] /\ old \in [1 .. c -> TalkItems]
  BY LaterTyped, LenProperties
<1>2. /\ s = [k \in 1 .. c |-> IF k = p THEN [old[p] EXCEPT !.text = n + 1] ELSE old[k]]
      /\ u = [k \in 1 .. c |-> IF k = p THEN [msgs[p] EXCEPT !.text = n] ELSE msgs[k]]
  BY <1>1
<1>3. Later([msgs[p] EXCEPT !.text = n]) = [old[p] EXCEPT !.text = n + 1]
  BY <1>1, LaterIs
<1> HIDE DEF c, old, s, u
<1>4. DOMAIN u = 1 .. c
  BY <1>2
<1>5. t = [k \in 1 .. c |-> Later(u[k])]
  BY <1>4 DEF LaterAll
<1>6. \A k \in 1 .. c : Later(u[k]) = IF k = p THEN [old[p] EXCEPT !.text = n + 1] ELSE old[k]
  BY <1>1, <1>2, <1>3
<1>7. s = t
  BY <1>2, <1>5, <1>6
<1> QED
  BY <1>7 DEF s, t, u, old

LEMMA LaterItems ==
  ASSUME NEW msgs \in Seq(TalkItems), NEW W \in SUBSET DOMAIN msgs
  PROVE  ItemsAt(LaterAll(msgs), W) = LaterAll(ItemsAt(msgs, W))
<1> DEFINE old == LaterAll(msgs)
           s == ItemsAt(old, W)
           u == ItemsAt(msgs, W)
           t == LaterAll(u)
           c == Cardinality(W)
<1>1. /\ old \in Seq(TalkItems) /\ W \in SUBSET DOMAIN old
      /\ \A k \in W : old[k] = Later(msgs[k])
  BY LaterTyped
<1> HIDE DEF old
<1>2. /\ s \in Seq(TalkItems) /\ Len(s) = c /\ \A i \in 1 .. c : PlaceIn(W, i) \in W /\ s[i] = old[PlaceIn(W, i)]
      /\ u \in Seq(TalkItems) /\ Len(u) = c /\ \A i \in 1 .. c : u[i] = msgs[PlaceIn(W, i)]
  <2> DEFINE T == TalkItems
  <2> HIDE DEF T
  <2>1. old \in Seq(T) /\ msgs \in Seq(T)
    BY <1>1 DEF T
  <2>2. s \in Seq(T) /\ Len(s) = c /\ \A i \in 1 .. c : PlaceIn(W, i) \in W /\ s[i] = old[PlaceIn(W, i)]
    BY <1>1, <2>1, KeptItems
  <2>3. u \in Seq(T) /\ Len(u) = c /\ \A i \in 1 .. c : u[i] = msgs[PlaceIn(W, i)]
    BY <2>1, KeptItems
  <2> QED
    BY <2>2, <2>3 DEF T
<1> HIDE DEF s, u, c
<1>3. t \in Seq(TalkItems) /\ Len(t) = c /\ \A i \in 1 .. c : t[i] = Later(u[i])
  BY <1>2, LaterTyped
<1> HIDE DEF t
<1>4. \A i \in 1 .. c : s[i] = t[i]
  BY <1>1, <1>2, <1>3
<1>5. s = t
  BY <1>2, <1>3, <1>4, SeqEqual
<1> QED
  BY <1>5 DEF s, t, u, old

\* w is v, one number on.
Alike(v, w) ==
  /\ w.number = v.number + 1 /\ w.broken = v.broken /\ w.talk = LaterAll(v.talk)

LEMMA AlikeGoesOn ==
  ASSUME NEW x \in RouteEvents, NEW y \in RouteEvents, y.kind = x.kind, y.arg = x.arg,
         x.kind \notin {"compaction", "reverted"},
         NEW v \in RouteViews, NEW w \in RouteViews, Alike(v, w)
  PROVE  Alike(Applied(v, x), Applied(w, y))
<1> DEFINE n == v.number
           said == v.talk
<1>1. /\ n \in Nat /\ said \in Seq(TalkItems) /\ w.number = n + 1 /\ w.talk = LaterAll(said)
      /\ w.broken = v.broken
  BY DEF Alike, RouteViews
<1>2. DOMAIN w.talk = DOMAIN said
  BY <1>1, LaterTyped
<1>3. Misses(w, y) <=> Misses(v, x)
  BY <1>2 DEF Misses
<1>4. /\ TalkAfter(v, x) = CASE x.kind = "prompt"     -> Append(said, Spoken("user", n + 1))
              [] x.kind = "text"       -> Append(said, Spoken("assistant", n + 1))
              [] x.kind = "edited" /\ ~Misses(v, x)  -> [said EXCEPT ![x.arg].text = n + 1]
              [] x.kind = "removed" /\ ~Misses(v, x) -> ItemsAt(said, DOMAIN said \ {x.arg})
              [] OTHER                 -> said
      /\ TalkAfter(w, y) = CASE x.kind = "prompt"     -> Append(w.talk, Spoken("user", (n + 1) + 1))
              [] x.kind = "text"       -> Append(w.talk, Spoken("assistant", (n + 1) + 1))
              [] x.kind = "edited" /\ ~Misses(v, x)  -> [w.talk EXCEPT ![x.arg].text = (n + 1) + 1]
              [] x.kind = "removed" /\ ~Misses(v, x) -> ItemsAt(w.talk, DOMAIN said \ {x.arg})
              [] OTHER                 -> w.talk
  <2>1. TalkAfter(v, x) = CASE x.kind = "prompt"     -> Append(said, Spoken("user", n + 1))
              [] x.kind = "text"       -> Append(said, Spoken("assistant", n + 1))
              [] x.kind = "edited" /\ ~Misses(v, x)  -> [said EXCEPT ![x.arg].text = n + 1]
              [] x.kind = "removed" /\ ~Misses(v, x) -> ItemsAt(said, DOMAIN said \ {x.arg})
              [] OTHER                 -> said
    BY DEF TalkAfter
  <2>2. TalkAfter(w, y) = CASE x.kind = "prompt"     -> Append(w.talk, Spoken("user", (n + 1) + 1))
              [] x.kind = "text"       -> Append(w.talk, Spoken("assistant", (n + 1) + 1))
              [] x.kind = "edited" /\ ~Misses(v, x)  -> [w.talk EXCEPT ![x.arg].text = (n + 1) + 1]
              [] x.kind = "removed" /\ ~Misses(v, x) -> ItemsAt(w.talk, DOMAIN said \ {x.arg})
              [] OTHER                 -> w.talk
    BY <1>1, <1>2, <1>3 DEF TalkAfter
  <2> QED
    BY <2>1, <2>2
<1>5. x.kind \in {"edited", "removed"} /\ ~Misses(v, x) => x.arg \in DOMAIN said
  BY DEF Misses
<1>6. \A role \in {"user", "assistant"} :
        /\ Spoken(role, n + 1) \in TalkItems
        /\ Later(Spoken(role, n + 1)) = Spoken(role, (n + 1) + 1)
  <2>1. n + 1 \in Nat
    BY <1>1
  <2> QED
    BY <2>1, LaterSpoken
<1>7. /\ Applied(v, x).number = n + 1 /\ Applied(v, x).talk = TalkAfter(v, x)
      /\ Applied(v, x).broken = (v.broken \/ Misses(v, x))
      /\ Applied(w, y).number = (n + 1) + 1 /\ Applied(w, y).talk = TalkAfter(w, y)
      /\ Applied(w, y).broken = (w.broken \/ Misses(w, y))
  BY <1>1 DEF Applied
<1> HIDE DEF n, said
<1>8. TalkAfter(w, y) = LaterAll(TalkAfter(v, x))
  <2>1. ASSUME NEW role \in {"user", "assistant"}
        PROVE  Append(w.talk, Spoken(role, (n + 1) + 1)) = LaterAll(Append(said, Spoken(role, n + 1)))
    <3> DEFINE m == Spoken(role, n + 1)
    <3>1. m \in TalkItems /\ Later(m) = Spoken(role, (n + 1) + 1)
      BY <1>6
    <3> HIDE DEF m
    <3>2. Append(LaterAll(said), Later(m)) = LaterAll(Append(said, m))
      BY <1>1, <3>1, LaterAppend
    <3> QED
      BY <1>1, <3>1, <3>2 DEF m
  <2>2. CASE x.kind = "prompt"
    BY <1>4, <2>1, <2>2
  <2>3. CASE x.kind = "text"
    BY <1>4, <2>1, <2>3
  <2>4. CASE x.kind = "edited" /\ ~Misses(v, x)
    <3>1. n + 1 \in Nat /\ x.arg \in DOMAIN said
      BY <1>1, <1>5, <2>4
    <3>2. [LaterAll(said) EXCEPT ![x.arg].text = (n + 1) + 1] = LaterAll([said EXCEPT ![x.arg].text = n + 1])
      BY <1>1, <3>1, LaterEdit
    <3> QED
      BY <1>1, <1>4, <2>4, <3>2
  <2>5. CASE x.kind = "removed" /\ ~Misses(v, x)
    <3> DEFINE W == DOMAIN said \ {x.arg}
    <3>1. W \in SUBSET DOMAIN said
      OBVIOUS
    <3>2. TalkAfter(w, y) = ItemsAt(w.talk, W) /\ TalkAfter(v, x) = ItemsAt(said, W)
      BY <1>4, <2>5
    <3> HIDE DEF W
    <3>3. ItemsAt(LaterAll(said), W) = LaterAll(ItemsAt(said, W))
      BY <1>1, <3>1, LaterItems
    <3> QED
      BY <1>1, <3>2, <3>3
  <2>6. CASE /\ x.kind \notin {"prompt", "text"}
             /\ ~(x.kind = "edited" /\ ~Misses(v, x)) /\ ~(x.kind = "removed" /\ ~Misses(v, x))
    BY <1>1, <1>4, <2>6
  <2> QED
    BY <2>2, <2>3, <2>4, <2>5, <2>6
<1> QED
  BY <1>1, <1>3, <1>7, <1>8 DEF Alike

\* What is heard after an event that is no edit and no removal.
LEMMA HeardAfter ==
  ASSUME NEW x \in RouteEvents, x.kind \notin {"edited", "removed"}, NEW v \in RouteViews
  PROVE  Heard(Applied(v, x).talk) =
           CASE x.kind = "prompt"     -> Heard(v.talk) \cup {Spoken("user", v.number + 1)}
             [] x.kind = "text"       -> Heard(v.talk) \cup {Spoken("assistant", v.number + 1)}
             [] x.kind = "compaction" -> {m \in Heard(v.talk) : m.number >= x.arg}
             [] x.kind = "reverted"   -> {m \in Heard(v.talk) : m.number <= x.arg}
             [] OTHER                 -> Heard(v.talk)
<1> DEFINE n == v.number
           said == v.talk
           new == TalkAfter(v, x)
<1>1. n \in Nat /\ said \in Seq(TalkItems) /\ (x.kind \in NumberedKinds => x.arg \in Nat)
  BY DEF RouteViews, RouteEvents
<1>2. new = CASE x.kind = "prompt"     -> Append(said, Spoken("user", n + 1))
              [] x.kind = "text"       -> Append(said, Spoken("assistant", n + 1))
              [] x.kind = "compaction" -> Compacted(said, x.arg)
              [] x.kind = "reverted"   -> Reverted(said, x.arg)
              [] OTHER                 -> said
  BY DEF TalkAfter
<1>3. Applied(v, x).talk = new
  BY DEF Applied
<1> HIDE DEF n, said, new
<1>4. ASSUME NEW role \in {"user", "assistant"}
      PROVE  Heard(Append(said, Spoken(role, n + 1))) = Heard(said) \cup {Spoken(role, n + 1)}
  <2> DEFINE m == Spoken(role, n + 1)
  <2>1. m \in TalkItems /\ m.role # "system"
    BY <1>1 DEF Spoken, TalkItems
  <2> HIDE DEF m
  <2>2. Heard(Append(said, m)) = Heard(said) \cup {m}
    BY <1>1, <2>1, TalkAdds
  <2> QED
    BY <2>2 DEF m
<1>5. CASE x.kind = "prompt"
  BY <1>2, <1>3, <1>4, <1>5 DEF n, said
<1>6. CASE x.kind = "text"
  BY <1>2, <1>3, <1>4, <1>6 DEF n, said
<1>7. CASE x.kind = "compaction"
  <2>1. new = Compacted(said, x.arg) /\ x.arg \in Nat
    BY <1>1, <1>2, <1>7 DEF NumberedKinds
  <2>2. Heard(Compacted(said, x.arg)) = {m \in Heard(said) : m.number >= x.arg}
    BY <1>1, <2>1, TalkCompacts
  <2> QED
    BY <1>3, <1>7, <2>1, <2>2 DEF said
<1>8. CASE x.kind = "reverted"
  <2>1. new = Reverted(said, x.arg) /\ x.arg \in Nat
    BY <1>1, <1>2, <1>8 DEF NumberedKinds
  <2>2. Heard(Reverted(said, x.arg)) = {m \in Heard(said) : m.number <= x.arg}
    BY <1>1, <2>1, TalkReverts
  <2> QED
    BY <1>3, <1>8, <2>1, <2>2 DEF said
<1>9. CASE x.kind \notin {"prompt", "text", "compaction", "reverted"}
  BY <1>2, <1>3, <1>9 DEF said
<1> QED
  BY <1>5, <1>6, <1>7, <1>8, <1>9

\* What v and w have not in common lies at the cuts among the first n events.
Cut(e, n, kind, arg) == \E k \in 1 .. n : e[k].kind = kind /\ e[k].arg = arg

Same(v) == {Later(m) : m \in Heard(v.talk)}

CloseTo(v, w, e, n) ==
  /\ w.number = v.number + 1
  /\ \A m \in Same(v) : m \in Heard(w.talk) \/ Cut(e, n, "reverted", m.number - 1)
  /\ \A m \in Heard(w.talk) : m \in Same(v) \/ Cut(e, n, "compaction", m.number)

LEMMA CloseGoesOn ==
  ASSUME NEW e \in Seq(RouteEvents), NEW n \in Nat, n + 1 \in 1 .. Len(e),
         NEW y \in RouteEvents, y.kind = e[n + 1].kind, y.arg = e[n + 1].arg,
         y.kind \notin {"edited", "removed"},
         NEW v \in RouteViews, NEW w \in RouteViews, CloseTo(v, w, e, n)
  PROVE  CloseTo(Applied(v, e[n + 1]), Applied(w, y), e, n + 1)
<1> DEFINE x == e[n + 1]
           c == v.number
           V == Heard(v.talk)
           W == Heard(w.talk)
           S == Same(v)
           newV == Heard(Applied(v, x).talk)
           newW == Heard(Applied(w, y).talk)
           newS == Same(Applied(v, x))
           Lacks(m) == Cut(e, n, "reverted", m.number - 1)
           Extra(m) == Cut(e, n, "compaction", m.number)
           LacksNow(m) == Cut(e, n + 1, "reverted", m.number - 1)
           ExtraNow(m) == Cut(e, n + 1, "compaction", m.number)
<1>1. /\ x \in RouteEvents /\ c \in Nat /\ w.number = c + 1
      /\ v.talk \in Seq(TalkItems) /\ w.talk \in Seq(TalkItems)
      /\ (x.kind \in NumberedKinds => x.arg \in Nat)
  <2>1. x \in RouteEvents
    BY ElementOfSeq
  <2> QED
    BY <2>1 DEF CloseTo, RouteViews, RouteEvents
<1>2. \A t \in Seq(TalkItems) : \A m \in Heard(t) : m \in TalkItems
  <2> SUFFICES ASSUME NEW t \in Seq(TalkItems), NEW k \in HeardIn(t) PROVE t[k] \in TalkItems
    BY DEF Heard
  <2>1. k \in 1 .. Len(t)
    BY LenProperties DEF HeardIn
  <2> QED
    BY <2>1, ElementOfSeq
<1>3. /\ \A m \in V : m \in TalkItems /\ m.number \in Nat /\ Later(m).number = m.number + 1
      /\ \A m \in W : m \in TalkItems /\ m.number \in Nat
  <2>1. \A m \in V : m \in TalkItems
    BY <1>1, <1>2
  <2>2. \A m \in W : m \in TalkItems
    BY <1>1, <1>2
  <2> HIDE DEF V, W
  <2>3. \A m \in TalkItems : m.number \in Nat
    BY DEF TalkItems
  <2> QED
    BY <2>1, <2>2, <2>3, LaterIs
<1>4. /\ S = {Later(m) : m \in V} /\ newS = {Later(m) : m \in newV}
      /\ \A m \in S : m \in W \/ Lacks(m)
      /\ \A m \in W : m \in S \/ Extra(m)
  BY DEF CloseTo, Same
<1>5. /\ \A kind, arg : Cut(e, n, kind, arg) => Cut(e, n + 1, kind, arg)
      /\ Cut(e, n + 1, x.kind, x.arg)
  <2>1. n + 1 \in 1 .. (n + 1) /\ \A k \in 1 .. n : k \in 1 .. (n + 1)
    OBVIOUS
  <2> QED
    BY <2>1 DEF Cut
<1>6. newV = CASE x.kind = "prompt"     -> V \cup {Spoken("user", c + 1)}
               [] x.kind = "text"       -> V \cup {Spoken("assistant", c + 1)}
               [] x.kind = "compaction" -> {m \in V : m.number >= x.arg}
               [] x.kind = "reverted"   -> {m \in V : m.number <= x.arg}
               [] OTHER                 -> V
  BY <1>1, HeardAfter
<1>7. newW = CASE x.kind = "prompt"     -> W \cup {Spoken("user", (c + 1) + 1)}
               [] x.kind = "text"       -> W \cup {Spoken("assistant", (c + 1) + 1)}
               [] x.kind = "compaction" -> {m \in W : m.number >= x.arg}
               [] x.kind = "reverted"   -> {m \in W : m.number <= x.arg}
               [] OTHER                 -> W
  <2>1. newW = CASE y.kind = "prompt"     -> W \cup {Spoken("user", w.number + 1)}
               [] y.kind = "text"       -> W \cup {Spoken("assistant", w.number + 1)}
               [] y.kind = "compaction" -> {m \in W : m.number >= y.arg}
               [] y.kind = "reverted"   -> {m \in W : m.number <= y.arg}
               [] OTHER                 -> W
    BY HeardAfter
  <2>2. y.kind = x.kind /\ y.arg = x.arg
    OBVIOUS
  <2> HIDE DEF newW, W, x, c
  <2> QED
    BY <1>1, <2>1, <2>2
<1>8. \A role \in {"user", "assistant"} : Later(Spoken(role, c + 1)) = Spoken(role, (c + 1) + 1)
  <2>1. c + 1 \in Nat
    BY <1>1
  <2> QED
    BY <2>1, LaterSpoken
<1>9. Applied(w, y).number = Applied(v, x).number + 1
  BY <1>1 DEF Applied
<1>10. /\ \A m : Lacks(m) => LacksNow(m)
       /\ \A m : Extra(m) => ExtraNow(m)
       /\ x.kind = "reverted" => \A m : x.arg = m.number - 1 => LacksNow(m)
       /\ x.kind = "compaction" => \A m : x.arg = m.number => ExtraNow(m)
  BY <1>5
<1> HIDE DEF x, c, V, W, S, newV, newW, newS, Lacks, Extra, LacksNow, ExtraNow
<1>11. /\ \A m \in newS : m \in newW \/ LacksNow(m)
       /\ \A m \in newW : m \in newS \/ ExtraNow(m)
  <2>1. ASSUME NEW role \in {"user", "assistant"},
               newV = V \cup {Spoken(role, c + 1)}, newW = W \cup {Spoken(role, (c + 1) + 1)}
        PROVE  /\ \A m \in newS : m \in newW \/ LacksNow(m)
               /\ \A m \in newW : m \in newS \/ ExtraNow(m)
    <3>1. newS = S \cup {Spoken(role, (c + 1) + 1)}
      BY <1>4, <1>8, <2>1
    <3> QED
      BY <1>4, <1>10, <2>1, <3>1
  <2>2. CASE x.kind = "prompt"
    BY <1>6, <1>7, <2>1, <2>2
  <2>3. CASE x.kind = "text"
    BY <1>6, <1>7, <2>1, <2>3
  <2>4. CASE x.kind = "compaction"
    <3>1. newV = {m \in V : m.number >= x.arg} /\ newW = {m \in W : m.number >= x.arg} /\ x.arg \in Nat
      BY <1>1, <1>6, <1>7, <2>4 DEF NumberedKinds
    <3>2. ASSUME NEW m \in newS PROVE m \in newW \/ LacksNow(m)
      <4>1. PICK l \in newV : m = Later(l)
        BY <1>4
      <4>2. l \in V /\ l.number >= x.arg /\ m.number = l.number + 1 /\ l.number \in Nat /\ m \in S
        BY <1>3, <1>4, <3>1, <4>1
      <4>3. m.number >= x.arg
        BY <3>1, <4>2
      <4> QED
        BY <1>4, <1>10, <3>1, <4>2, <4>3
    <3>3. ASSUME NEW m \in newW PROVE m \in newS \/ ExtraNow(m)
      <4>1. m \in W /\ m.number >= x.arg
        BY <3>1
      <4>2. CASE Extra(m)
        BY <1>10, <4>2
      <4>3. CASE m \in S
        <5>1. PICK l \in V : m = Later(l)
          BY <1>4, <4>3
        <5>2. m.number = l.number + 1 /\ l.number \in Nat
          BY <1>3, <5>1
        <5>3. CASE l.number >= x.arg
          BY <1>4, <3>1, <5>1, <5>3
        <5>4. CASE ~(l.number >= x.arg)
          <6>1. x.arg = m.number
            BY <3>1, <4>1, <5>2, <5>4
          <6> QED
            BY <1>10, <2>4, <6>1
        <5> QED
          BY <5>3, <5>4
      <4> QED
        BY <1>4, <4>1, <4>2, <4>3
    <3> QED
      BY <3>2, <3>3
  <2>5. CASE x.kind = "reverted"
    <3>1. newV = {m \in V : m.number <= x.arg} /\ newW = {m \in W : m.number <= x.arg} /\ x.arg \in Nat
      BY <1>1, <1>6, <1>7, <2>5 DEF NumberedKinds
    <3>2. ASSUME NEW m \in newS PROVE m \in newW \/ LacksNow(m)
      <4>1. PICK l \in newV : m = Later(l)
        BY <1>4
      <4>2. l \in V /\ l.number <= x.arg /\ m.number = l.number + 1 /\ l.number \in Nat /\ m \in S
        BY <1>3, <1>4, <3>1, <4>1
      <4>3. CASE Lacks(m)
        BY <1>10, <4>3
      <4>4. CASE m \in W /\ m.number <= x.arg
        BY <3>1, <4>4
      <4>5. CASE ~(m.number <= x.arg)
        <5>1. x.arg = m.number - 1
          BY <3>1, <4>2, <4>5
        <5> QED
          BY <1>10, <2>5, <5>1
      <4> QED
        BY <1>4, <4>2, <4>3, <4>4, <4>5
    <3>3. ASSUME NEW m \in newW PROVE m \in newS \/ ExtraNow(m)
      <4>1. m \in W /\ m.number <= x.arg
        BY <3>1
      <4>2. CASE Extra(m)
        BY <1>10, <4>2
      <4>3. CASE m \in S
        <5>1. PICK l \in V : m = Later(l)
          BY <1>4, <4>3
        <5>2. m.number = l.number + 1 /\ l.number \in Nat
          BY <1>3, <5>1
        <5>3. l.number <= x.arg
          BY <3>1, <4>1, <5>2
        <5> QED
          BY <1>4, <3>1, <5>1, <5>3
      <4> QED
        BY <1>4, <4>1, <4>2, <4>3
    <3> QED
      BY <3>2, <3>3
  <2>6. CASE x.kind \notin {"prompt", "text", "compaction", "reverted"}
    <3>1. newV = V /\ newW = W /\ newS = S
      BY <1>4, <1>6, <1>7, <2>6
    <3> QED
      BY <1>4, <1>10, <3>1
  <2> QED
    BY <2>2, <2>3, <2>4, <2>5, <2>6
<1> QED
  BY <1>9, <1>11 DEF CloseTo, newS, newW, LacksNow, ExtraNow, x

LEMMA StandAlike ==
  ASSUME NEW e \in Seq(RouteEvents), NEW f \in Seq(RouteEvents), Len(f) = Len(e) + 1, Behind(e, f, Len(e))
  PROVE  /\ (\A k \in 1 .. Len(e) : e[k].kind \notin {"compaction", "reverted"}) =>
              Alike(Views(e)[Len(e)], Views(f)[Len(f)])
         /\ (\A k \in 1 .. Len(e) : e[k].kind \notin {"edited", "removed"}) =>
              CloseTo(Views(e)[Len(e)], Views(f)[Len(f)], e, Len(e))
<1> DEFINE c == Len(e)
           V(k) == Views(e)[k]
           W(k) == Views(f)[k + 1]
<1>1. c \in Nat /\ Len(f) = c + 1 /\ Len(f) \in Nat
  BY LenProperties
<1>2. /\ V(0) = NothingRead /\ W(0) = Applied(NothingRead, f[1])
      /\ \A k \in Nat : k + 1 <= c => V(k + 1) = Applied(V(k), e[k + 1]) /\ W(k + 1) = Applied(W(k), f[(k + 1) + 1])
  <2>1. Views(f)[1] = Applied(Views(f)[0], f[1]) /\ Views(f)[0] = NothingRead /\ Views(e)[0] = NothingRead
    <3>1. 1 \in 1 .. Len(f) /\ 1 - 1 = 0
      BY <1>1
    <3>2. Views(f)[1] = Applied(Views(f)[1 - 1], f[1]) /\ Views(f)[0] = NothingRead /\ Views(e)[0] = NothingRead
      BY <1>1, <3>1, ViewsStep
    <3> QED
      BY <3>1, <3>2
  <2>2. ASSUME NEW k \in Nat, k + 1 <= c
        PROVE  V(k + 1) = Applied(V(k), e[k + 1]) /\ W(k + 1) = Applied(W(k), f[(k + 1) + 1])
    <3>1. /\ k + 1 \in 1 .. Len(e) /\ (k + 1) - 1 = k
          /\ (k + 1) + 1 \in 1 .. Len(f) /\ ((k + 1) + 1) - 1 = k + 1
      BY <1>1, <2>2
    <3>2. Views(e)[k + 1] = Applied(Views(e)[(k + 1) - 1], e[k + 1])
      BY <1>1, <3>1, ViewsStep
    <3>3. Views(f)[(k + 1) + 1] = Applied(Views(f)[((k + 1) + 1) - 1], f[(k + 1) + 1])
      BY <1>1, <3>1, ViewsStep
    <3> QED
      BY <3>1, <3>2, <3>3
  <2>3. W(0) = Views(f)[1] /\ V(0) = Views(e)[0]
    OBVIOUS
  <2> QED
    BY <2>1, <2>2, <2>3
<1>3. \A k \in Nat : k <= c => V(k) \in RouteViews /\ W(k) \in RouteViews
  <2> SUFFICES ASSUME NEW k \in Nat, k <= c PROVE V(k) \in RouteViews /\ W(k) \in RouteViews
    OBVIOUS
  <2>1. k \in 0 .. Len(e) /\ k + 1 \in 0 .. Len(f)
    BY <1>1
  <2> QED
    BY <2>1, ViewsFit DEF ViewFits
<1>4. \A k \in Nat : k + 1 <= c =>
        /\ k + 1 \in 1 .. c /\ e[k + 1] \in RouteEvents /\ f[(k + 1) + 1] \in RouteEvents
        /\ f[(k + 1) + 1].kind = e[k + 1].kind /\ f[(k + 1) + 1].arg = e[k + 1].arg
  <2> SUFFICES ASSUME NEW k \in Nat, k + 1 <= c
               PROVE  /\ k + 1 \in 1 .. c /\ e[k + 1] \in RouteEvents /\ f[(k + 1) + 1] \in RouteEvents
                      /\ f[(k + 1) + 1].kind = e[k + 1].kind /\ f[(k + 1) + 1].arg = e[k + 1].arg
    OBVIOUS
  <2>1. k + 1 \in 1 .. c /\ (k + 1) + 1 \in 1 .. Len(f)
    BY <1>1
  <2> QED
    BY <2>1, ElementOfSeq DEF Behind
<1>5. /\ NothingRead.number = 0 /\ NothingRead.talk = <<>> /\ NothingRead.broken = FALSE
      /\ Applied(NothingRead, f[1]).number = 1 /\ Applied(NothingRead, f[1]).talk = <<>>
      /\ Applied(NothingRead, f[1]).broken = FALSE
  <2>1. /\ NothingRead.number = 0 /\ NothingRead.talk = <<>> /\ NothingRead.broken = FALSE
    BY DEF NothingRead
  <2>2. f[1].kind = "created"
    BY DEF Behind
  <2>3. TalkAfter(NothingRead, f[1]) = <<>> /\ ~Misses(NothingRead, f[1])
    BY <2>1, <2>2 DEF TalkAfter, Misses
  <2>4. /\ Applied(NothingRead, f[1]).number = 0 + 1
        /\ Applied(NothingRead, f[1]).talk = TalkAfter(NothingRead, f[1])
        /\ Applied(NothingRead, f[1]).broken = (FALSE \/ Misses(NothingRead, f[1]))
    BY <2>1 DEF Applied
  <2>5. Applied(NothingRead, f[1]).broken = FALSE
    <3>1. (FALSE \/ Misses(NothingRead, f[1])) = FALSE
      BY <2>3
    <3> QED
      BY <2>4, <3>1
  <2>6. Applied(NothingRead, f[1]).number = 1 /\ Applied(NothingRead, f[1]).talk = <<>>
    BY <2>3, <2>4
  <2> QED
    BY <2>1, <2>5, <2>6
<1>6. LaterAll(<<>>) = <<>> /\ Heard(<<>>) = {}
  <2>1. DOMAIN <<>> = {} /\ <<>> \in Seq(TalkItems)
    OBVIOUS
  <2>2. Len(<<>>) = 0 /\ LaterAll(<<>>) \in Seq(TalkItems) /\ Len(LaterAll(<<>>)) = Len(<<>>)
    BY <2>1, LaterTyped
  <2>3. LaterAll(<<>>) = <<>>
    BY <2>1, <2>2, SeqEqual
  <2> QED
    BY <2>1, <2>3 DEF Heard, HeardIn
<1> HIDE DEF V, W, c
<1>7. ASSUME \A k \in 1 .. c : e[k].kind \notin {"compaction", "reverted"}
      PROVE  Alike(V(c), W(c))
  <2> DEFINE P == {k \in Nat : k <= c => Alike(V(k), W(k))}
  <2>1. 0 \in P
    <3>1. W(0).number = V(0).number + 1 /\ W(0).talk = LaterAll(V(0).talk)
      BY <1>2, <1>5, <1>6
    <3>2. W(0).broken = V(0).broken
      BY <1>2, <1>5
    <3> QED
      BY <3>1, <3>2 DEF Alike
  <2>2. ASSUME NEW k \in Nat, k \in P PROVE k + 1 \in P
    <3> SUFFICES ASSUME k + 1 <= c PROVE Alike(V(k + 1), W(k + 1))
      OBVIOUS
    <3>1. k <= c /\ Alike(V(k), W(k)) /\ V(k) \in RouteViews /\ W(k) \in RouteViews
      BY <1>1, <1>3, <2>2
    <3>2. e[k + 1].kind \notin {"compaction", "reverted"}
      BY <1>4, <1>7
    <3>3. Alike(Applied(V(k), e[k + 1]), Applied(W(k), f[(k + 1) + 1]))
      BY <1>4, <3>1, <3>2, AlikeGoesOn
    <3> QED
      BY <1>2, <3>3
  <2> HIDE DEF P
  <2>3. \A k \in Nat : k \in P
    BY <2>1, <2>2, StepsReach
  <2> QED
    BY <1>1, <2>3 DEF P
<1>8. ASSUME \A k \in 1 .. c : e[k].kind \notin {"edited", "removed"}
      PROVE  CloseTo(V(c), W(c), e, c)
  <2> DEFINE P == {k \in Nat : k <= c => CloseTo(V(k), W(k), e, k)}
  <2>1. 0 \in P
    BY <1>2, <1>5, <1>6 DEF CloseTo, Same
  <2>2. ASSUME NEW k \in Nat, k \in P PROVE k + 1 \in P
    <3> SUFFICES ASSUME k + 1 <= c PROVE CloseTo(V(k + 1), W(k + 1), e, k + 1)
      OBVIOUS
    <3>1. k <= c /\ CloseTo(V(k), W(k), e, k) /\ V(k) \in RouteViews /\ W(k) \in RouteViews
      BY <1>1, <1>3, <2>2
    <3>2. f[(k + 1) + 1].kind \notin {"edited", "removed"} /\ k + 1 \in 1 .. Len(e)
      BY <1>4, <1>8 DEF c
    <3>3. CloseTo(Applied(V(k), e[k + 1]), Applied(W(k), f[(k + 1) + 1]), e, k + 1)
      BY <1>4, <3>1, <3>2, CloseGoesOn
    <3> QED
      BY <1>2, <3>3
  <2> HIDE DEF P
  <2>3. \A k \in Nat : k \in P
    BY <2>1, <2>2, StepsReach
  <2> QED
    BY <1>1, <2>3 DEF P
<1> QED
  BY <1>1, <1>7, <1>8 DEF V, W, c

\* What a fork shows of a source that it has read.
LEMMA ForkShows ==
  ASSUME NEW body \in Seq(RouteEvents), NEW mine \in Seq(RouteEvents),
         Len(body) < RouteReadLimit, Len(mine) = Len(body) + 1, Behind(body, mine, Len(body))
  PROVE  LET source  == ViewOf(body)
             to      == ViewOf(mine)
             same    == {Later(m) : m \in Heard(source.talk)}
             seen    == Heard(to.talk) IN
         /\ to.gone = source.gone /\ to.run = source.run
         /\ \A i, j \in HeardIn(to.talk) : i < j => to.talk[i].number < to.talk[j].number
         /\ (\A k \in DOMAIN body : body[k].kind \notin {"compaction", "reverted"}) =>
              /\ to.talk = [k \in DOMAIN source.talk |-> Later(source.talk[k])]
              /\ to.broken = source.broken
         /\ (\A k \in DOMAIN body : body[k].kind \notin {"edited", "removed"}) =>
              /\ \A m \in same \ seen : \E k \in DOMAIN body : body[k].kind = "reverted" /\ body[k].arg = m.number - 1
              /\ \A m \in seen \ same : \E k \in DOMAIN body : body[k].kind = "compaction" /\ body[k].arg = m.number
<1> DEFINE n     == Len(body)
           e     == ReadOf(body)
           f     == ReadOf(mine)
           source  == ViewOf(body)
           to    == ViewOf(mine)
           same  == {Later(m) : m \in Heard(source.talk)}
           seen == Heard(to.talk)
<1>1. n \in Nat /\ DOMAIN body = 1 .. n /\ RouteReadLimit \in Nat /\ n < RouteReadLimit
  BY LenProperties, RoutesAssumption
<1>2. /\ Len(e) = n /\ (\A k \in 1 .. n : e[k] = body[k]) /\ e \in Seq(RouteEvents)
      /\ ViewFits(source, e, n) /\ source = Views(e)[n]
  <2>1. Len(e) = IF n < RouteReadLimit THEN n ELSE RouteReadLimit
    BY ReadOfIs
  <2>2. Len(e) = n
    BY <1>1, <2>1
  <2> QED
    BY <2>2, ReadOfIs DEF ViewOf
<1>3. /\ Len(f) = n + 1 /\ (\A k \in 1 .. (n + 1) : f[k] = mine[k]) /\ f \in Seq(RouteEvents)
      /\ ViewFits(to, f, n + 1) /\ to = Views(f)[n + 1]
  <2>1. Len(f) = IF n + 1 < RouteReadLimit THEN n + 1 ELSE RouteReadLimit
    BY ReadOfIs
  <2>2. Len(f) = n + 1
    BY <1>1, <2>1
  <2> QED
    BY <2>2, ReadOfIs DEF ViewOf
<1> HIDE DEF e, f, source, to, n
<1>4. Behind(e, f, n)
  <2>1. 1 \in 1 .. (n + 1) /\ \A k \in 1 .. n : k + 1 \in 1 .. (n + 1)
    BY <1>1
  <2> QED
    BY <1>2, <1>3, <2>1 DEF Behind, n
<1>5. /\ (\A k \in 1 .. n : e[k].kind \notin {"compaction", "reverted"}) => Alike(source, to)
      /\ (\A k \in 1 .. n : e[k].kind \notin {"edited", "removed"}) => CloseTo(source, to, e, n)
  <2>1. Len(f) = Len(e) + 1 /\ Behind(e, f, Len(e))
    BY <1>2, <1>3, <1>4
  <2>2. /\ (\A k \in 1 .. Len(e) : e[k].kind \notin {"compaction", "reverted"}) =>
             Alike(Views(e)[Len(e)], Views(f)[Len(f)])
        /\ (\A k \in 1 .. Len(e) : e[k].kind \notin {"edited", "removed"}) =>
             CloseTo(Views(e)[Len(e)], Views(f)[Len(f)], e, Len(e))
    BY <1>2, <1>3, <2>1, StandAlike
  <2> QED
    BY <1>2, <1>3, <2>2
<1>6. \A kind, arg : Cut(e, n, kind, arg) => \E k \in DOMAIN body : body[k].kind = kind /\ body[k].arg = arg
  BY <1>1, <1>2 DEF Cut
<1>7. (\A k \in DOMAIN body : body[k].kind \notin {"compaction", "reverted"}) =>
        /\ to.talk = [k \in DOMAIN source.talk |-> Later(source.talk[k])]
        /\ to.broken = source.broken
  BY <1>1, <1>2, <1>5 DEF Alike, LaterAll
<1>8. (\A k \in DOMAIN body : body[k].kind \notin {"edited", "removed"}) =>
        /\ \A m \in same \ seen : \E k \in DOMAIN body : body[k].kind = "reverted" /\ body[k].arg = m.number - 1
        /\ \A m \in seen \ same : \E k \in DOMAIN body : body[k].kind = "compaction" /\ body[k].arg = m.number
  <2> SUFFICES ASSUME \A k \in DOMAIN body : body[k].kind \notin {"edited", "removed"}
               PROVE  /\ \A m \in same \ seen : \E k \in DOMAIN body : body[k].kind = "reverted" /\ body[k].arg = m.number - 1
                      /\ \A m \in seen \ same : \E k \in DOMAIN body : body[k].kind = "compaction" /\ body[k].arg = m.number
    OBVIOUS
  <2>1. CloseTo(source, to, e, n)
    BY <1>1, <1>2, <1>5
  <2>2. same = Same(source)
    BY DEF Same
  <2> HIDE DEF same, seen
  <2>3. /\ \A m \in same : m \in seen \/ Cut(e, n, "reverted", m.number - 1)
        /\ \A m \in seen : m \in same \/ Cut(e, n, "compaction", m.number)
    BY <2>1, <2>2 DEF CloseTo, seen
  <2> QED
    BY <1>6, <2>3
<1>14. \A i, j \in HeardIn(to.talk) : i < j => to.talk[i].number < to.talk[j].number
  BY <1>3 DEF ViewFits, Ordered
<1>15. to.gone = source.gone
  <2>1. (\E k \in 1 .. (n + 1) : f[k].kind = "deleted") <=> \E k \in 1 .. n : e[k].kind = "deleted"
    <3>1. ASSUME NEW k \in 1 .. (n + 1), f[k].kind = "deleted"
          PROVE  \E i \in 1 .. n : e[i].kind = "deleted"
      <4>1. k # 1
        BY <1>4, <3>1 DEF Behind
      <4>2. k - 1 \in 1 .. n /\ (k - 1) + 1 = k
        BY <1>1, <4>1
      <4>3. f[(k - 1) + 1].kind = e[k - 1].kind
        BY <1>4, <4>2 DEF Behind
      <4> QED
        BY <3>1, <4>2, <4>3
    <3>2. ASSUME NEW k \in 1 .. n, e[k].kind = "deleted"
          PROVE  k + 1 \in 1 .. (n + 1) /\ f[k + 1].kind = "deleted"
      BY <1>1, <1>4, <3>2 DEF Behind
    <3> QED
      BY <3>1, <3>2
  <2>2. to.gone \in BOOLEAN /\ source.gone \in BOOLEAN
    BY <1>2, <1>3 DEF ViewFits, RouteViews
  <2> QED
    BY <1>2, <1>3, <2>1, <2>2 DEF ViewFits
<1>16. to.run = source.run
  BY <1>1, <1>2, <1>3, <1>4, RunBehind DEF ViewFits
<1> QED
  BY <1>7, <1>8, <1>14, <1>15, <1>16 DEF same, seen, source, to, n

-----------------------------------------------------------------------------
(***************************************************************************)
(* The requests.                                                           *)
(***************************************************************************)
RouteAnswers == {"none", "200", "400", "404", "500", "idle"} \cup EventArgs

RouteRequests ==
  [at : {"idle", "loaded", "wrote", "read", "forked", "done"}, op : Operations \cup {"none"},
   on : RouteSessions, view : RouteViews, arg : RunMarks \cup {"none"} \cup Nat,
   body : Seq(TalkItems) \cup Seq(RouteEvents), sent : Nat, answer : RouteAnswers]

RouteStreams == [RouteSessions -> Seq(RouteEvents)]

OwnAt(list, q) == {k \in 1 .. Len(list) : list[k].by = q}

NothingBy(q, ss) == \A s \in RouteSessions : OwnAt(ss[s], q) = {}

\* The mark is there, and the answer is not older than the mark.
MarkFits(q, r, list) ==
  \E k \in 1 .. Len(list) :
    /\ list[k] = EventBy("run", r.arg, q)
    /\ r.at = "done" /\ r.answer # "500" /\ k <= RouteReadLimit =>
         \E j \in k .. Len(list) : list[j].kind = "run" /\ list[j].arg = r.answer

SpokenTo(body, n) == {k \in 1 .. n : body[k].role # "system"}

CarriedTo(list, body, n, q) ==
  LET mine  == ItemsAt(list, OwnAt(list, q))
      told == ItemsAt(body, SpokenTo(body, n)) IN
  /\ 1 \in OwnAt(list, q) /\ list[1] = EventBy("created", 0, q) /\ mine[1] = list[1]
  /\ Len(mine) = Len(told) + 1
  /\ \A k \in 1 .. Len(told) :
       mine[k + 1].kind = IF told[k].role = "user" THEN "prompt" ELSE "text"

ImportFits(q, r, list) ==
  /\ r.body \in Seq(TalkItems) /\ r.sent <= Len(r.body) /\ (r.at = "done" => r.sent = Len(r.body))
  /\ CarriedTo(list, r.body, r.sent, q)

CreatedBy(q, list) == OwnAt(list, q) = {1} /\ list[1].kind = "created"

\* The list of the body are together, somewhere behind the creation.
ReplayedBy(q, body, list) ==
  /\ list[1].kind = "created"
  /\ \E p \in Nat \ {0} :
       /\ OwnAt(list, q) = {1} \cup ((p + 1) .. (p + Len(body))) /\ p + Len(body) <= Len(list)
       /\ \A k \in 1 .. Len(body) :
            list[p + k].kind = body[k].kind /\ list[p + k].arg = body[k].arg

RequestFits(q, r, ss) ==
  /\ r.at = "idle" \/ (r.op = "fork" /\ r.at \in {"loaded", "read"}) => NothingBy(q, ss)
  /\ r.at = "loaded" => r.op \in Operations \ {"get"}
  /\ r.at = "loaded" /\ r.op \in Edits => r.arg \in Nat
  /\ r.at = "wrote" => r.op = "mark"
  /\ r.at \in {"read", "forked"} => r.op = "fork"
  /\ r.op # "import" => r.sent = 0
  /\ r.op = "mark" /\ r.at \in {"wrote", "done"} => MarkFits(q, r, ss[r.on])
  /\ r.op = "import" => ImportFits(q, r, ss[r.on])
  /\ r.op = "fork" => r.body \in Seq(RouteEvents)
  /\ r.op = "fork" /\ r.at = "forked" => CreatedBy(q, ss[r.on])
  /\ r.op = "fork" /\ r.at = "done" => ReplayedBy(q, r.body, ss[r.on])

RoutesInv ==
  /\ streams \in RouteStreams /\ request \in [RouteCalls -> RouteRequests] /\ exported \in Seq(TalkItems)
  /\ \A q \in RouteCalls : RequestFits(q, request[q], streams)

\* What was there stays, and what comes behind it is by b.
Extends(old, new, b) ==
  /\ Len(old) <= Len(new) /\ \A k \in 1 .. Len(old) : new[k] = old[k]
  /\ \A k \in (Len(old) + 1) .. Len(new) : new[k].by = b

LEMMA OwnStays ==
  ASSUME NEW old \in Seq(RouteEvents), NEW new \in Seq(RouteEvents), NEW b, NEW q, b # q,
         Extends(old, new, b)
  PROVE  OwnAt(new, q) = OwnAt(old, q)
<1>1. Len(old) \in Nat /\ Len(new) \in Nat /\ Len(old) <= Len(new)
  BY LenProperties DEF Extends
<1>2. ASSUME NEW k \in OwnAt(new, q) PROVE k \in OwnAt(old, q)
  <2>1. k \in 1 .. Len(new) /\ new[k].by = q
    BY DEF OwnAt
  <2>2. k \notin (Len(old) + 1) .. Len(new)
    BY <2>1 DEF Extends
  <2>3. k \in 1 .. Len(old)
    BY <1>1, <2>1, <2>2
  <2> QED
    BY <2>1, <2>3 DEF OwnAt, Extends
<1>3. ASSUME NEW k \in OwnAt(old, q) PROVE k \in OwnAt(new, q)
  <2>1. k \in 1 .. Len(old) /\ k \in 1 .. Len(new) /\ new[k] = old[k] /\ old[k].by = q
    BY <1>1 DEF OwnAt, Extends
  <2> QED
    BY <2>1 DEF OwnAt
<1> QED
  BY <1>2, <1>3

LEMMA CarriedStays ==
  ASSUME NEW old \in Seq(RouteEvents), NEW new \in Seq(RouteEvents), NEW b, NEW q, b # q,
         Extends(old, new, b), NEW body, NEW n, CarriedTo(old, body, n, q)
  PROVE  CarriedTo(new, body, n, q)
<1> DEFINE W == OwnAt(old, q)
<1>1. OwnAt(new, q) = W
  BY OwnStays
<1>2. /\ Len(old) \in Nat /\ Len(new) \in Nat /\ Len(old) <= Len(new)
      /\ DOMAIN old = 1 .. Len(old) /\ DOMAIN new = 1 .. Len(new)
  BY LenProperties DEF Extends
<1>3. W \in SUBSET DOMAIN old /\ W \in SUBSET DOMAIN new /\ \A k \in W : new[k] = old[k]
  BY <1>2 DEF OwnAt, Extends
<1> HIDE DEF W
<1>4. ItemsAt(new, W) = ItemsAt(old, W)
  <2> DEFINE T == RouteEvents
  <2> HIDE DEF T
  <2>1. old \in Seq(T) /\ new \in Seq(T)
    BY DEF T
  <2> QED
    BY <1>3, <2>1, ItemsSame
<1>5. 1 \in W /\ new[1] = old[1]
  BY <1>3 DEF CarriedTo, W
<1> QED
  BY <1>1, <1>4, <1>5 DEF CarriedTo, W

\* What others append disturbs nobody.
LEMMA FitsStill ==
  ASSUME NEW q, NEW b, b # q, NEW ss \in RouteStreams, NEW tt \in RouteStreams,
         \A s \in RouteSessions : Extends(ss[s], tt[s], b),
         NEW r \in RouteRequests, RequestFits(q, r, ss)
  PROVE  RequestFits(q, r, tt)
<1> DEFINE old == ss[r.on]
           new == tt[r.on]
<1>1. /\ r.on \in RouteSessions /\ old \in Seq(RouteEvents) /\ new \in Seq(RouteEvents)
      /\ Extends(old, new, b)
  BY DEF RouteRequests, RouteStreams
<1>2. ASSUME NEW s \in RouteSessions PROVE OwnAt(tt[s], q) = OwnAt(ss[s], q)
  <2>1. ss[s] \in Seq(RouteEvents) /\ tt[s] \in Seq(RouteEvents) /\ Extends(ss[s], tt[s], b)
    BY DEF RouteStreams
  <2> QED
    BY <2>1, OwnStays
<1>3. NothingBy(q, ss) => NothingBy(q, tt)
  BY <1>2 DEF NothingBy
<1>4. OwnAt(new, q) = OwnAt(old, q)
  BY <1>1, <1>2
<1> HIDE DEF old, new
<1>5. /\ Len(old) \in Nat /\ Len(new) \in Nat /\ Len(old) <= Len(new)
      /\ \A k \in 1 .. Len(old) : k \in 1 .. Len(new) /\ new[k] = old[k]
  BY <1>1, LenProperties DEF Extends
<1>6. MarkFits(q, r, old) => MarkFits(q, r, new)
  <2> SUFFICES ASSUME MarkFits(q, r, old) PROVE MarkFits(q, r, new)
    OBVIOUS
  <2>1. PICK k \in 1 .. Len(old) :
          /\ old[k] = EventBy("run", r.arg, q)
          /\ r.at = "done" /\ r.answer # "500" /\ k <= RouteReadLimit =>
               \E j \in k .. Len(old) : old[j].kind = "run" /\ old[j].arg = r.answer
    BY DEF MarkFits
  <2>2. k \in 1 .. Len(new) /\ new[k] = EventBy("run", r.arg, q)
    BY <1>5, <2>1
  <2>3. ASSUME r.at = "done", r.answer # "500", k <= RouteReadLimit
        PROVE  \E j \in k .. Len(new) : new[j].kind = "run" /\ new[j].arg = r.answer
    <3>1. PICK j \in k .. Len(old) : old[j].kind = "run" /\ old[j].arg = r.answer
      BY <2>1, <2>3
    <3>2. j \in 1 .. Len(old) /\ j \in k .. Len(new)
      BY <1>5
    <3> QED
      BY <1>5, <3>1, <3>2
  <2> QED
    BY <2>2, <2>3 DEF MarkFits
<1>7. ImportFits(q, r, old) => ImportFits(q, r, new)
  BY <1>1, CarriedStays DEF ImportFits
<1>8. CreatedBy(q, old) => CreatedBy(q, new)
  <2> SUFFICES ASSUME CreatedBy(q, old) PROVE CreatedBy(q, new)
    OBVIOUS
  <2>1. 1 \in OwnAt(old, q)
    BY DEF CreatedBy
  <2>2. 1 \in 1 .. Len(old)
    BY <2>1 DEF OwnAt
  <2> QED
    BY <1>4, <1>5, <2>2 DEF CreatedBy
<1>9. ReplayedBy(q, r.body, old) => ReplayedBy(q, r.body, new)
  <2> SUFFICES ASSUME ReplayedBy(q, r.body, old) PROVE ReplayedBy(q, r.body, new)
    OBVIOUS
  <2> DEFINE n == Len(r.body)
  <2>1. PICK p \in Nat \ {0} :
          /\ OwnAt(old, q) = {1} \cup ((p + 1) .. (p + n)) /\ p + n <= Len(old)
          /\ \A k \in 1 .. n : old[p + k].kind = r.body[k].kind /\ old[p + k].arg = r.body[k].arg
    BY DEF ReplayedBy
  <2>2. n \in Nat
    <3>1. r.body \in Seq(TalkItems) \/ r.body \in Seq(RouteEvents)
      BY DEF RouteRequests
    <3> QED
      BY <3>1, LenProperties
  <2> HIDE DEF n
  <2>3. p + n <= Len(new) /\ 1 \in 1 .. Len(old) /\ \A k \in 1 .. n : p + k \in 1 .. Len(old)
    BY <1>5, <2>1, <2>2
  <2>4. old[1].kind = "created" /\ new[1] = old[1]
    BY <1>5, <2>3 DEF ReplayedBy
  <2>5. \A k \in 1 .. n : new[p + k].kind = r.body[k].kind /\ new[p + k].arg = r.body[k].arg
    BY <1>5, <2>1, <2>3
  <2> QED
    BY <1>4, <2>1, <2>3, <2>4, <2>5 DEF ReplayedBy, n
<1> QED
  BY <1>3, <1>6, <1>7, <1>8, <1>9 DEF RequestFits, old, new

\* One request moves; what it appends is by it.
LEMMA OneMoves ==
  ASSUME RoutesInv, NEW q \in RouteCalls, NEW held \in RouteRequests,
         request' = [request EXCEPT ![q] = held],
         streams' \in RouteStreams, \A s \in RouteSessions : Extends(streams[s], streams'[s], q),
         exported' \in Seq(TalkItems), RequestFits(q, held, streams')
  PROVE  RoutesInv'
<1>1. request \in [RouteCalls -> RouteRequests] /\ streams \in RouteStreams
  BY DEF RoutesInv
<1>2. request' \in [RouteCalls -> RouteRequests] /\ request'[q] = held
  BY <1>1
<1>3. ASSUME NEW p \in RouteCalls PROVE RequestFits(p, request'[p], streams')
  <2>1. CASE p = q
    BY <1>2, <2>1
  <2>2. CASE p # q
    <3>1. request'[p] = request[p] /\ request[p] \in RouteRequests /\ RequestFits(p, request[p], streams)
      BY <1>1, <2>2 DEF RoutesInv
    <3>2. RequestFits(p, request[p], streams')
      <4> DEFINE ss == streams
                 tt == streams'
      <4>1. ss \in RouteStreams /\ tt \in RouteStreams /\ \A s \in RouteSessions : Extends(ss[s], tt[s], q)
        BY <1>1
      <4>2. RequestFits(p, request[p], ss)
        BY <3>1
      <4> HIDE DEF ss, tt
      <4>3. RequestFits(p, request[p], tt)
        BY <2>2, <3>1, <4>1, <4>2, FitsStill
      <4> QED
        BY <4>3 DEF tt
    <3> QED
      BY <3>1, <3>2
  <2> QED
    BY <2>1, <2>2
<1> QED
  BY <1>2, <1>3 DEF RoutesInv

\* A request that is answered.
LEMMA AnswerMade ==
  ASSUME NEW r \in RouteRequests, NEW ans \in RouteAnswers
  PROVE  LET h == [r EXCEPT !.at = "done", !.answer = ans] IN
         /\ h \in RouteRequests /\ h.at = "done" /\ h.answer = ans /\ h.op = r.op /\ h.on = r.on
         /\ h.arg = r.arg /\ h.body = r.body /\ h.sent = r.sent
<1> DEFINE B == Seq(TalkItems) \cup Seq(RouteEvents)
           O == Operations \cup {"none"}
           M == RunMarks \cup {"none"} \cup Nat
<1>1. RouteRequests = [at : {"idle", "loaded", "wrote", "read", "forked", "done"}, op : O,
                       on : RouteSessions, view : RouteViews, arg : M, body : B, sent : Nat,
                       answer : RouteAnswers]
  BY DEF RouteRequests
<1> HIDE DEF B, O, M
<1> QED
  BY <1>1

LEMMA RequestMade ==
  ASSUME NEW r \in RouteRequests
  PROVE  /\ LET h == [r EXCEPT !.at = "wrote"] IN
              /\ h \in RouteRequests /\ h.at = "wrote" /\ h.op = r.op /\ h.on = r.on
              /\ h.arg = r.arg /\ h.sent = r.sent
         /\ LET h == [r EXCEPT !.sent = @ + 1] IN
              /\ h \in RouteRequests /\ h.at = r.at /\ h.op = r.op /\ h.on = r.on
              /\ h.body = r.body /\ h.sent = r.sent + 1
<1> DEFINE B == Seq(TalkItems) \cup Seq(RouteEvents)
           O == Operations \cup {"none"}
           M == RunMarks \cup {"none"} \cup Nat
<1>1. /\ RouteRequests = [at : {"idle", "loaded", "wrote", "read", "forked", "done"}, op : O,
                          on : RouteSessions, view : RouteViews, arg : M, body : B, sent : Nat,
                          answer : RouteAnswers]
      /\ Seq(RouteEvents) \subseteq B
  BY DEF RouteRequests
<1> HIDE DEF B, O, M
<1>3. LET h == [r EXCEPT !.at = "wrote"] IN
              /\ h \in RouteRequests /\ h.at = "wrote" /\ h.op = r.op /\ h.on = r.on
              /\ h.arg = r.arg /\ h.sent = r.sent
  BY <1>1
<1>4. LET h == [r EXCEPT !.sent = @ + 1] IN
              /\ h \in RouteRequests /\ h.at = r.at /\ h.op = r.op /\ h.on = r.on
              /\ h.body = r.body /\ h.sent = r.sent + 1
  BY <1>1
<1> QED
  BY <1>3, <1>4, Zenon

LEMMA UnusedIs ==
  /\ Unused \in RouteRequests /\ Unused.at = "idle" /\ Unused.op = "none" /\ Unused.sent = 0
  /\ Unused.body = <<>>
<1>1. NothingRead \in RouteViews
  BY DEF NothingRead, RouteViews
<1>2. <<>> \in Seq(TalkItems) \cup Seq(RouteEvents) /\ "none" \in RouteAnswers
      /\ "none" \in RunMarks \cup {"none"} \cup Nat /\ "none" \in Operations \cup {"none"} /\ UsedSession \in RouteSessions
  BY RoutesAssumption DEF RouteAnswers
<1> QED
  BY <1>1, <1>2 DEF Unused, RouteRequests

\* How a request is answered.
HasAnswer(r, ans) ==
  IF r.op \in {"mark", "import", "fork"} THEN [r EXCEPT !.at = "done", !.answer = ans]
                                         ELSE [Unused EXCEPT !.at = "done", !.answer = ans]

LEMMA AnsweredIs ==
  ASSUME NEW r \in RouteRequests, NEW ans \in RouteAnswers
  PROVE  LET h == HasAnswer(r, ans) IN
         /\ h \in RouteRequests /\ h.at = "done"
         /\ r.op \in {"mark", "import", "fork"} =>
              /\ h.op = r.op /\ h.on = r.on /\ h.arg = r.arg /\ h.body = r.body /\ h.sent = r.sent
              /\ h.answer = ans
         /\ r.op \notin {"mark", "import", "fork"} => h.op = "none" /\ h.sent = 0
<1>1. CASE r.op \in {"mark", "import", "fork"}
  <2>1. HasAnswer(r, ans) = [r EXCEPT !.at = "done", !.answer = ans]
    BY <1>1 DEF HasAnswer
  <2> DEFINE h == [r EXCEPT !.at = "done", !.answer = ans]
  <2>2. /\ h \in RouteRequests /\ h.at = "done" /\ h.answer = ans /\ h.op = r.op /\ h.on = r.on
        /\ h.arg = r.arg /\ h.body = r.body /\ h.sent = r.sent
    BY AnswerMade
  <2>3. HasAnswer(r, ans) = h
    BY <2>1
  <2> HIDE DEF h
  <2> QED
    BY <1>1, <2>2, <2>3
<1>2. CASE r.op \notin {"mark", "import", "fork"}
  <2>1. HasAnswer(r, ans) = [Unused EXCEPT !.at = "done", !.answer = ans]
    BY <1>2 DEF HasAnswer
  <2> DEFINE h == [Unused EXCEPT !.at = "done", !.answer = ans]
  <2>2. h \in RouteRequests /\ h.at = "done" /\ h.op = Unused.op /\ h.sent = Unused.sent
    BY UnusedIs, AnswerMade
  <2>3. HasAnswer(r, ans) = h
    BY <2>1
  <2> HIDE DEF h
  <2> QED
    BY <1>2, <2>2, <2>3, UnusedIs
<1> QED
  BY <1>1, <1>2

\* A request that is answered and forgotten fits whatever there is.
LEMMA ForgottenFits ==
  ASSUME NEW q, NEW ss, NEW h, h.at = "done", h.op = "none", h.sent = 0
  PROVE  RequestFits(q, h, ss)
BY DEF RequestFits

LEMMA SameExtends ==
  ASSUME NEW ss \in RouteStreams, NEW b
  PROVE  \A s \in RouteSessions : Extends(ss[s], ss[s], b)
<1> SUFFICES ASSUME NEW s \in RouteSessions PROVE Extends(ss[s], ss[s], b)
  OBVIOUS
<1>1. Len(ss[s]) \in Nat
  BY LenProperties DEF RouteStreams
<1>2. Len(ss[s]) <= Len(ss[s]) /\ (Len(ss[s]) + 1) .. Len(ss[s]) = {}
  BY <1>1
<1> QED
  BY <1>2 DEF Extends

\* One event more in a stream.
LEMMA StreamGrows ==
  ASSUME streams \in RouteStreams, NEW s \in RouteSessions, NEW e \in RouteEvents, AppendTo(s, e)
  PROVE  /\ streams' \in RouteStreams /\ \A t \in RouteSessions : Extends(streams[t], streams'[t], e.by)
         /\ Len(streams[s]) \in Nat /\ Len(streams'[s]) = Len(streams[s]) + 1
         /\ streams'[s][Len(streams[s]) + 1] = e
         /\ \A k \in 1 .. Len(streams[s]) : streams'[s][k] = streams[s][k]
<1> DEFINE ss == streams
           tt == streams'
           T == RouteEvents
<1>0. tt = [ss EXCEPT ![s] = Append(ss[s], e)]
  BY DEF AppendTo
<1> HIDE DEF ss, tt, T
<1>1. ss \in [RouteSessions -> Seq(T)] /\ e \in T
  BY DEF RouteStreams, T, ss
<1>2. /\ Append(ss[s], e) \in Seq(T) /\ Len(Append(ss[s], e)) = Len(ss[s]) + 1 /\ Len(ss[s]) \in Nat
      /\ \A i \in 1 .. Len(ss[s]) : Append(ss[s], e)[i] = ss[s][i]
      /\ Append(ss[s], e)[Len(ss[s]) + 1] = e
  BY <1>1, AppendProperties, LenProperties
<1>3. tt \in [RouteSessions -> Seq(T)] /\ tt[s] = Append(ss[s], e)
      /\ \A t \in RouteSessions : t # s => tt[t] = ss[t]
  BY <1>0, <1>1, <1>2
<1>4. ASSUME NEW t \in RouteSessions PROVE Extends(ss[t], tt[t], e.by)
  <2>1. CASE t = s
    <3>1. /\ Len(ss[s]) <= Len(tt[s])
          /\ \A k \in (Len(ss[s]) + 1) .. Len(tt[s]) : k = Len(ss[s]) + 1
      BY <1>2, <1>3
    <3> QED
      BY <1>2, <1>3, <2>1, <3>1 DEF Extends
  <2>2. CASE t # s
    <3>1. ss \in RouteStreams
      BY <1>1 DEF RouteStreams, T
    <3> QED
      BY <1>3, <2>2, <3>1, SameExtends
  <2> QED
    BY <2>1, <2>2
<1>5. tt \in RouteStreams
  BY <1>3 DEF RouteStreams, T
<1> QED
  BY <1>2, <1>3, <1>4, <1>5 DEF ss, tt

LEMMA EventTyped ==
  ASSUME NEW kind \in EventKinds \ NumberedKinds, NEW arg \in EventArgs, NEW q \in RouteCalls \cup {NoRouteCall}
  PROVE  EventBy(kind, arg, q) \in RouteEvents /\ EventBy(kind, arg, q).by = q
         /\ EventBy(kind, arg, q).kind = kind /\ EventBy(kind, arg, q).arg = arg
BY DEF EventBy, RouteEvents, EventKinds
-----------------------------------------------------------------------------
LEMMA LoadSessionHolds ==
  ASSUME RoutesInv, NEW q \in RouteCalls, LoadSession(q)
  PROVE  RoutesInv'
<1>1. /\ request \in [RouteCalls -> RouteRequests] /\ streams \in RouteStreams
      /\ exported \in Seq(TalkItems) /\ RequestFits(q, request[q], streams)
  BY DEF RoutesInv
<1>2. request[q].at = "idle" /\ streams' = streams /\ exported' = exported
  BY DEF LoadSession, Comes
<1>3. PICK op \in Operations \ {"import"}, s \in RouteSessions : \E arg \in Asked(op, ViewOf(streams[s])) :
        request' = [request EXCEPT ![q] =
                      IF Refusal(op, ViewOf(streams[s]), arg) = "none" THEN LoadedBy(op, s, arg)
                      ELSE [Unused EXCEPT !.at = "done", !.answer = Refusal(op, ViewOf(streams[s]), arg)]]
  BY DEF LoadSession
<1>30. PICK arg \in Asked(op, ViewOf(streams[s])) :
        request' = [request EXCEPT ![q] =
                      IF Refusal(op, ViewOf(streams[s]), arg) = "none" THEN LoadedBy(op, s, arg)
                      ELSE [Unused EXCEPT !.at = "done", !.answer = Refusal(op, ViewOf(streams[s]), arg)]]
  BY <1>3
<1>31. ViewOf(streams[s]) \in RouteViews
  <2>1. streams[s] \in Seq(RouteEvents)
    BY <1>1 DEF RouteStreams
  <2> QED
    BY <2>1, ReadOfIs DEF ViewFits
<1>32. arg \in RunMarks \cup {"none"} \cup Nat /\ (op \in Edits => arg \in Nat)
  <2> DEFINE v == ViewOf(streams[s])
  <2>1. v.number \in Nat /\ \A k \in DOMAIN v.talk : k \in Nat
    <3>1. v.number \in Nat /\ v.talk \in Seq(TalkItems)
      BY <1>31 DEF RouteViews
    <3>2. DOMAIN v.talk = 1 .. Len(v.talk) /\ Len(v.talk) \in Nat
      BY <3>1, LenProperties
    <3> QED
      BY <3>1, <3>2
  <2>2. arg \in Asked(op, v)
    OBVIOUS
  <2> HIDE DEF v
  <2>3. CASE op = "mark"
    BY <2>2, <2>3 DEF Asked, Edits
  <2>4. CASE op = "revert"
    BY <2>1, <2>2, <2>4 DEF Asked
  <2>5. CASE op \in {"edit", "remove"}
    BY <2>1, <2>2, <2>5 DEF Asked
  <2>6. CASE op \notin {"mark", "revert", "edit", "remove"}
    BY <2>2, <2>6 DEF Asked, Edits
  <2> QED
    BY <2>3, <2>4, <2>5, <2>6
<1> DEFINE refusal == Refusal(op, ViewOf(streams[s]), arg)
           held == IF refusal = "none" THEN LoadedBy(op, s, arg)
                   ELSE [Unused EXCEPT !.at = "done", !.answer = refusal]
<1>4. refusal \in {"none", "200", "400", "404", "500"} /\ (op = "get" => refusal # "none")
  BY DEF Refusal, Checked
<1>5. request' = [request EXCEPT ![q] = held]
  BY <1>30
<1> HIDE DEF refusal
<1>6. held \in RouteRequests /\ RequestFits(q, held, streams)
  <2>1. CASE refusal # "none"
    <3> DEFINE h == [Unused EXCEPT !.at = "done", !.answer = refusal]
    <3>0. refusal \in RouteAnswers
      BY <1>4 DEF RouteAnswers
    <3>1. h \in RouteRequests /\ h.at = "done" /\ h.op = Unused.op /\ h.sent = Unused.sent
      BY <3>0, UnusedIs, AnswerMade
    <3>2. held = h
      BY <2>1
    <3> HIDE DEF held, h
    <3> QED
      BY <3>1, <3>2, UnusedIs, ForgottenFits
  <2>2. CASE refusal = "none"
    <3> DEFINE looked == IF op = "compact" THEN ViewOf(streams[s]) ELSE NothingRead
    <3>1. looked \in RouteViews
      <4>1. NothingRead \in RouteViews
        BY DEF NothingRead, RouteViews
      <4> QED
        BY <1>31, <4>1, Zenon
    <3>2. held = [Unused EXCEPT !.at = "loaded", !.op = op, !.on = s, !.arg = arg, !.view = looked]
      BY <2>2 DEF LoadedBy
    <3> HIDE DEF looked
    <3>3. held = [at |-> "loaded", op |-> op, on |-> s, view |-> looked, arg |-> arg,
                  body |-> <<>>, sent |-> 0, answer |-> "none"]
      BY <3>2 DEF Unused
    <3> HIDE DEF held
    <3>4. <<>> \in Seq(TalkItems) \cup Seq(RouteEvents) /\ "none" \in RouteAnswers /\ <<>> \in Seq(RouteEvents)
          /\ op \in Operations \cup {"none"} /\ arg \in RunMarks \cup {"none"} \cup Nat
      BY <1>32 DEF RouteAnswers
    <3>5. held \in RouteRequests
      BY <3>1, <3>3, <3>4 DEF RouteRequests
    <3>6. NothingBy(q, streams)
      BY <1>1, <1>2 DEF RequestFits
    <3>7. held.at = "loaded" /\ held.op = op /\ held.sent = 0 /\ held.body = <<>> /\ held.arg = arg
      BY <3>3
    <3>8. op # "import" /\ op \in Operations \ {"get"}
      BY <1>4, <2>2
    <3> QED
      BY <1>32, <3>4, <3>5, <3>6, <3>7, <3>8 DEF RequestFits
  <2> QED
    BY <2>1, <2>2
<1> HIDE DEF held
<1>7. \A t \in RouteSessions : Extends(streams[t], streams'[t], q)
  BY <1>1, <1>2, SameExtends
<1>8. streams' \in RouteStreams /\ exported' \in Seq(TalkItems) /\ RequestFits(q, held, streams')
  BY <1>1, <1>2, <1>6
<1> QED
  BY <1>5, <1>6, <1>7, <1>8, OneMoves

\* The event of a request.
LEMMA EventForIs ==
  ASSUME RoutesInv, NEW q \in RouteCalls, request[q].at = "loaded",
         request[q].op \notin {"export", "import", "fork"}
  PROVE  /\ EventFor(q) \in RouteEvents /\ EventFor(q).by = q
         /\ request[q].op = "mark" => EventFor(q) = EventBy("run", request[q].arg, q)
<1> DEFINE r == request[q]
<1>1. r \in RouteRequests /\ RequestFits(q, r, streams)
  BY DEF RoutesInv
<1>2. /\ r.op \in Operations \ {"get"} /\ r.arg \in RunMarks \cup {"none"} \cup Nat /\ r.view \in RouteViews
      /\ (r.op \in Edits => r.arg \in Nat)
  BY <1>1 DEF RequestFits, RouteRequests
<1>3. r.op \in {"set", "patch", "delete", "stop", "mark", "retry"} \cup {"compact", "revert", "edit", "remove"}
  BY <1>2 DEF Operations, Checked, Unchecked, Edits
<1>4. r.arg \in EventArgs /\ "stopped" \in EventArgs /\ 0 \in EventArgs /\ r.view.number \in Nat
  BY <1>2 DEF EventArgs, RouteViews
<1> HIDE DEF r
<1>5. EventFor(q) =
        CASE r.op = "set"     -> EventBy("set", 0, q)
          [] r.op = "patch"   -> EventBy("updated", 0, q)
          [] r.op = "delete"  -> EventBy("deleted", 0, q)
          [] r.op = "stop"    -> EventBy("run", "stopped", q)
          [] r.op = "mark"    -> EventBy("run", r.arg, q)
          [] r.op = "retry"   -> EventBy("prompt", 0, q)
          [] r.op = "compact" -> EventBy("compaction", r.view.number, q)
          [] r.op = "revert"  -> EventBy("reverted", r.arg, q)
          [] r.op = "edit"    -> EventBy("edited", r.arg, q)
          [] r.op = "remove"  -> EventBy("removed", r.arg, q)
  BY DEF EventFor, r
<1>6. {"set", "updated", "deleted", "run", "prompt"} \subseteq EventKinds \ NumberedKinds
  BY DEF EventKinds, NumberedKinds
<1>7. CASE r.op \in {"compact", "revert", "edit", "remove"}
  <2>1. \E kind \in NumberedKinds, arg \in Nat : EventFor(q) = EventBy(kind, arg, q)
    <3>1. CASE r.op = "compact"
      BY <1>4, <1>5, <3>1 DEF NumberedKinds
    <3>2. CASE r.op = "revert"
      BY <1>2, <1>5, <3>2 DEF NumberedKinds, Edits
    <3>3. CASE r.op = "edit"
      BY <1>2, <1>5, <3>3 DEF NumberedKinds, Edits
    <3>4. CASE r.op = "remove"
      BY <1>2, <1>5, <3>4 DEF NumberedKinds, Edits
    <3> QED
      BY <1>7, <3>1, <3>2, <3>3, <3>4
  <2>2. PICK kind \in NumberedKinds, arg \in Nat : EventFor(q) = EventBy(kind, arg, q)
    BY <2>1
  <2>3. EventBy(kind, arg, q) \in RouteEvents /\ EventBy(kind, arg, q).by = q
    BY DEF EventBy, RouteEvents, EventKinds, EventArgs
  <2> QED
    BY <1>7, <2>2, <2>3 DEF r
<1>8. CASE r.op \notin {"compact", "revert", "edit", "remove"}
  <2>1. \E kind \in {"set", "updated", "deleted", "run", "prompt"}, arg \in {0, "stopped", r.arg} :
          EventFor(q) = EventBy(kind, arg, q) /\ (r.op = "mark" => kind = "run" /\ arg = r.arg)
    <3>1. CASE r.op = "set"
      BY <1>5, <3>1
    <3>2. CASE r.op = "patch"
      BY <1>5, <3>2
    <3>3. CASE r.op = "delete"
      BY <1>5, <3>3
    <3>4. CASE r.op = "stop"
      BY <1>5, <3>4
    <3>5. CASE r.op = "mark"
      BY <1>5, <3>5
    <3>6. CASE r.op = "retry"
      BY <1>5, <3>6
    <3> QED
      BY <1>3, <1>8, <3>1, <3>2, <3>3, <3>4, <3>5, <3>6
  <2>2. PICK kind \in {"set", "updated", "deleted", "run", "prompt"}, arg \in {0, "stopped", r.arg} :
          EventFor(q) = EventBy(kind, arg, q) /\ (r.op = "mark" => kind = "run" /\ arg = r.arg)
    BY <2>1
  <2>3. kind \in EventKinds \ NumberedKinds /\ arg \in EventArgs
    BY <1>4, <1>6
  <2> QED
    BY <2>2, <2>3, EventTyped DEF r
<1> QED
  BY <1>7, <1>8

LEMMA RequestAppendHolds ==
  ASSUME RoutesInv, NEW q \in RouteCalls, AppendEvent(q)
  PROVE  RoutesInv'
<1> DEFINE r == request[q]
           s == r.on
           e == EventFor(q)
           ans == IF ViewOf(Append(streams[s], e)).broken THEN "500" ELSE "200"
<1>1. /\ request \in [RouteCalls -> RouteRequests] /\ streams \in RouteStreams
      /\ exported \in Seq(TalkItems) /\ r \in RouteRequests /\ RequestFits(q, r, streams)
  BY DEF RoutesInv
<1>2. /\ r.at = "loaded" /\ r.op \notin {"export", "import", "fork"} /\ exported' = exported
      /\ AppendTo(s, e)
      /\ request' = [request EXCEPT ![q] = IF r.op = "mark" THEN [r EXCEPT !.at = "wrote"]
                                           ELSE HasAnswer(r, ans)]
  BY DEF AppendEvent, AnswerTo, HasAnswer
<1>3. e \in RouteEvents /\ e.by = q /\ (r.op = "mark" => e = EventBy("run", r.arg, q))
  BY <1>2, EventForIs
<1>4. s \in RouteSessions /\ r.sent = 0
  BY <1>1, <1>2 DEF RouteRequests, RequestFits
<1> DEFINE held == IF r.op = "mark" THEN [r EXCEPT !.at = "wrote"] ELSE HasAnswer(r, ans)
<1> HIDE DEF r, s, e, ans
<1>5. /\ streams' \in RouteStreams /\ \A t \in RouteSessions : Extends(streams[t], streams'[t], q)
      /\ Len(streams[s]) \in Nat /\ Len(streams'[s]) = Len(streams[s]) + 1
      /\ streams'[s][Len(streams[s]) + 1] = e
  BY <1>1, <1>2, <1>3, <1>4, StreamGrows
<1>6. held \in RouteRequests /\ RequestFits(q, held, streams')
  <2>1. CASE r.op = "mark"
    <3>1. held = [r EXCEPT !.at = "wrote"]
      BY <2>1
    <3> HIDE DEF held
    <3>2. /\ held \in RouteRequests /\ held.at = "wrote" /\ held.op = "mark" /\ held.on = s
          /\ held.arg = r.arg /\ held.sent = 0
      BY <1>1, <1>4, <2>1, <3>1, RequestMade DEF s
    <3>3. Len(streams[s]) + 1 \in 1 .. Len(streams'[s])
      BY <1>5
    <3>4. MarkFits(q, held, streams'[s])
      BY <1>3, <1>5, <2>1, <3>2, <3>3 DEF MarkFits
    <3> QED
      BY <3>2, <3>4 DEF RequestFits
  <2>2. CASE r.op # "mark"
    <3>1. held = HasAnswer(r, ans) /\ ans \in RouteAnswers
      BY <2>2 DEF RouteAnswers, ans
    <3> HIDE DEF held
    <3>2. held \in RouteRequests /\ held.at = "done" /\ held.op = "none" /\ held.sent = 0
      BY <1>1, <1>2, <2>2, <3>1, AnsweredIs
    <3> QED
      BY <3>2, ForgottenFits
  <2> QED
    BY <2>1, <2>2
<1>7. request' = [request EXCEPT ![q] = held]
  BY <1>2
<1> HIDE DEF held
<1>8. exported' \in Seq(TalkItems)
  BY <1>1, <1>2
<1> QED
  BY <1>5, <1>6, <1>7, <1>8, OneMoves

LEMMA OwnGrows ==
  ASSUME NEW old \in Seq(RouteEvents), NEW new \in Seq(RouteEvents), NEW q,
         Len(new) = Len(old) + 1, \A k \in 1 .. Len(old) : new[k] = old[k], new[Len(old) + 1].by = q
  PROVE  OwnAt(new, q) = OwnAt(old, q) \cup {Len(old) + 1}
<1>1. Len(old) \in Nat
  BY LenProperties
<1>2. /\ \A k \in 1 .. (Len(old) + 1) : k = Len(old) + 1 \/ k \in 1 .. Len(old)
      /\ \A k \in 1 .. Len(old) : k \in 1 .. (Len(old) + 1)
      /\ Len(old) + 1 \in 1 .. (Len(old) + 1)
  BY <1>1
<1> QED
  BY <1>2 DEF OwnAt

\* Nothing is carried yet.
LEMMA CarriedFromStart ==
  ASSUME NEW q \in RouteCalls, NEW body \in Seq(TalkItems), NEW list \in Seq(RouteEvents),
         Len(list) = 1, list[1] = EventBy("created", 0, q)
  PROVE  CarriedTo(list, body, 0, q)
<1> DEFINE T == RouteEvents
           I == TalkItems
<1>0. list \in Seq(T) /\ body \in Seq(I) /\ <<>> \in Seq(T) /\ Cardinality({}) = 0
  BY FS_EmptySet
<1> HIDE DEF T, I
<1>1. OwnAt(list, q) = {1}
  <2>1. 1 .. 1 = {1}
    OBVIOUS
  <2> QED
    BY <2>1 DEF OwnAt, EventBy
<1>2. SpokenTo(body, 0) = {}
  BY DEF SpokenTo
<1>3. Len(ItemsAt(body, {})) = 0
  <2>1. {} \in SUBSET DOMAIN body
    OBVIOUS
  <2> QED
    BY <1>0, <2>1, KeptItems
<1>4. Len(ItemsAt(<<>>, {})) = 0
  <2>1. {} \in SUBSET DOMAIN <<>>
    OBVIOUS
  <2> QED
    BY <1>0, <2>1, KeptItems
<1>5. /\ Len(ItemsAt(list, {1})) = 0 + 1
      /\ ItemsAt(list, {1})[0 + 1] = list[1]
  <2> DEFINE W == {}
             V == {1}
             m == 1
             none == <<>>
  <2>1. OnePlaceMore(none, W, list, V, m)
    <3>1. DOMAIN list = 1 .. 1
      BY <1>0, LenProperties
    <3> QED
      BY <3>1 DEF OnePlaceMore
  <2>2. none \in Seq(T)
    BY <1>0
  <2> HIDE DEF W, V, m, none
  <2>3. OneItemMore(ItemsAt(none, W), ItemsAt(list, V), list[m])
    BY <1>0, <2>1, <2>2, ItemsAdded
  <2> QED
    BY <1>4, <2>3 DEF OneItemMore, V, W, m, none
<1>6. ItemsAt(list, OwnAt(list, q))[1] = list[1] /\ Len(ItemsAt(list, OwnAt(list, q))) = 1
  <2>1. 0 + 1 = 1
    OBVIOUS
  <2> QED
    BY <1>1, <1>5, <2>1
<1>7. Len(ItemsAt(body, SpokenTo(body, 0))) = 0
  BY <1>2, <1>3
<1>8. 1 .. 0 = {} /\ 1 = 0 + 1 /\ 1 \in OwnAt(list, q)
  BY <1>1
<1> QED
  BY <1>6, <1>7, <1>8 DEF CarriedTo

\* A message of the user or of the assistant is carried over.
LEMMA CarriesOne ==
  ASSUME NEW q, NEW body \in Seq(TalkItems), NEW n \in Nat, n + 1 \in 1 .. Len(body),
         NEW old \in Seq(RouteEvents), NEW new \in Seq(RouteEvents), CarriedTo(old, body, n, q),
         Len(new) = Len(old) + 1, \A k \in 1 .. Len(old) : new[k] = old[k], new[Len(old) + 1].by = q,
         body[n + 1].role # "system",
         new[Len(old) + 1].kind = IF body[n + 1].role = "user" THEN "prompt" ELSE "text"
  PROVE  CarriedTo(new, body, n + 1, q)
<1> DEFINE W  == OwnAt(old, q)
           V  == SpokenTo(body, n)
           mine  == ItemsAt(old, W)
           told == ItemsAt(body, V)
           mine2  == ItemsAt(new, W \cup {Len(old) + 1})
           heard2 == ItemsAt(body, V \cup {n + 1})
<1>1. /\ Len(old) \in Nat /\ DOMAIN old = 1 .. Len(old) /\ DOMAIN new = 1 .. (Len(old) + 1)
      /\ Len(body) \in Nat /\ DOMAIN body = 1 .. Len(body)
  BY LenProperties
<1>2. OwnAt(new, q) = W \cup {Len(old) + 1}
  BY OwnGrows
<1>3. SpokenTo(body, n + 1) = V \cup {n + 1}
  <2>1. /\ \A k \in 1 .. (n + 1) : k = n + 1 \/ k \in 1 .. n
        /\ \A k \in 1 .. n : k \in 1 .. (n + 1)
        /\ n + 1 \in 1 .. (n + 1)
    OBVIOUS
  <2> QED
    BY <2>1 DEF SpokenTo
<1>4. /\ 1 \in W /\ old[1] = EventBy("created", 0, q) /\ mine[1] = old[1]
      /\ Len(mine) = Len(told) + 1
      /\ \A k \in 1 .. Len(told) : mine[k + 1].kind = IF told[k].role = "user" THEN "prompt" ELSE "text"
  BY DEF CarriedTo
<1>5. /\ \A k \in W : k \in 1 .. Len(old) /\ k < Len(old) + 1 /\ k \in 1 .. (Len(old) + 1)
      /\ \A k \in V : k \in 1 .. Len(body) /\ k < n + 1
  BY <1>1 DEF OwnAt, SpokenTo
<1> HIDE DEF W, V
<1>6. OneItemMore(mine, mine2, new[Len(old) + 1])
  <2> DEFINE T == RouteEvents
             m == Len(old) + 1
             X == W \cup {m}
  <2>1. OnePlaceMore(old, W, new, X, m)
    BY <1>1, <1>5 DEF OnePlaceMore
  <2>2. old \in Seq(T) /\ new \in Seq(T)
    OBVIOUS
  <2> HIDE DEF T, m, X
  <2>3. OneItemMore(ItemsAt(old, W), ItemsAt(new, X), new[m])
    BY <2>1, <2>2, ItemsAdded
  <2> QED
    BY <2>3 DEF X, m
<1>7. OneItemMore(told, heard2, body[n + 1])
  <2> DEFINE T == TalkItems
             m == n + 1
             X == V \cup {m}
  <2>1. OnePlaceMore(body, V, body, X, m)
    BY <1>1, <1>5 DEF OnePlaceMore
  <2>2. body \in Seq(T)
    OBVIOUS
  <2> HIDE DEF T, m, X
  <2>3. OneItemMore(ItemsAt(body, V), ItemsAt(body, X), body[m])
    BY <2>1, <2>2, ItemsAdded
  <2> QED
    BY <2>3 DEF X, m
<1>8. new[1] = old[1] /\ 1 \in W \cup {Len(old) + 1}
  BY <1>4, <1>5
<1>12. new[Len(old) + 1].kind = IF body[n + 1].role = "user" THEN "prompt" ELSE "text"
  OBVIOUS
<1> HIDE DEF mine, mine2, told, heard2
<1> USE DEF OneItemMore
<1>13. Len(told) \in Nat /\ Len(heard2) = Len(told) + 1 /\ Len(mine) = Len(told) + 1
  BY <1>4, <1>7
<1>9. mine2[1] = new[1]
  <2>1. 1 \in 1 .. Len(mine)
    BY <1>4, <1>7
  <2> QED
    BY <1>4, <1>6, <1>8, <2>1
<1>10. ASSUME NEW k \in 1 .. Len(heard2)
       PROVE  mine2[k + 1].kind = IF heard2[k].role = "user" THEN "prompt" ELSE "text"
  <2>1. CASE k = Len(told) + 1
    <3>1. k + 1 = Len(mine) + 1
      BY <1>4, <1>7, <2>1
    <3>2. mine2[k + 1] = new[Len(old) + 1] /\ heard2[k] = body[n + 1]
      BY <1>6, <1>7, <2>1, <3>1
    <3> QED
      BY <1>12, <3>2
  <2>2. CASE k # Len(told) + 1
    <3>1. k \in 1 .. Len(told) /\ k + 1 \in 1 .. Len(mine)
      BY <1>13, <2>2
    <3>2. mine2[k + 1] = mine[k + 1] /\ heard2[k] = told[k]
      BY <1>6, <1>7, <3>1
    <3> QED
      BY <1>4, <3>1, <3>2
  <2> QED
    BY <2>1, <2>2
<1>11. Len(mine2) = Len(heard2) + 1
  BY <1>4, <1>6, <1>7
<1> QED
  BY <1>2, <1>3, <1>4, <1>8, <1>9, <1>10, <1>11 DEF CarriedTo, mine2, heard2
-----------------------------------------------------------------------------
LEMMA ReportRunHolds ==
  ASSUME RoutesInv, NEW q \in RouteCalls, ReportRun(q)
  PROVE  RoutesInv'
<1> DEFINE r == request[q]
           list == streams[r.on]
           ans == ReportedRun(q)
           held == HasAnswer(r, ans)
<1>1. /\ request \in [RouteCalls -> RouteRequests] /\ streams \in RouteStreams
      /\ exported \in Seq(TalkItems) /\ r \in RouteRequests /\ RequestFits(q, r, streams)
  BY DEF RoutesInv
<1>2. /\ r.at = "wrote" /\ streams' = streams /\ exported' = exported
      /\ request' = [request EXCEPT ![q] = held]
  BY DEF ReportRun, AnswerTo, HasAnswer
<1>3. r.op = "mark" /\ MarkFits(q, r, list) /\ r.on \in RouteSessions /\ r.sent = 0
  BY <1>1, <1>2 DEF RequestFits, RouteRequests
<1>4. list \in Seq(RouteEvents) /\ (ans = "500" \/ ans = ViewOf(list).run)
  BY <1>1, <1>3 DEF RouteStreams, ReportedRun
<1> HIDE DEF r, list, ans, held
<1> DEFINE read == ReadOf(list)
           m == Len(read)
<1>5. /\ m \in Nat /\ Len(list) \in Nat
      /\ m = IF Len(list) < RouteReadLimit THEN Len(list) ELSE RouteReadLimit
      /\ \A k \in 1 .. m : read[k] = list[k]
      /\ ViewFits(ViewOf(list), read, m)
  BY <1>4, ReadOfIs, LenProperties
<1>6. ans # "500" => RunFits(ans, read, m) /\ ans \in EventArgs \cup {"idle"}
  BY <1>4, <1>5 DEF ViewFits, RouteViews
<1>7. ans \in RouteAnswers
  BY <1>6 DEF RouteAnswers
<1>8. /\ held \in RouteRequests /\ held.at = "done" /\ held.op = "mark" /\ held.on = r.on
      /\ held.arg = r.arg /\ held.sent = 0 /\ held.answer = ans
  BY <1>1, <1>3, <1>7, AnsweredIs DEF held
<1> HIDE DEF read, m
<1>9. m <= Len(list) /\ \A k \in 1 .. Len(list) : k <= RouteReadLimit => k \in 1 .. m
  BY <1>5, RoutesAssumption
<1>10. MarkFits(q, held, list)
  <2>1. PICK k \in 1 .. Len(list) : list[k] = EventBy("run", r.arg, q)
    BY <1>3 DEF MarkFits
  <2>2. ASSUME ans # "500", k <= RouteReadLimit
        PROVE  \E j \in k .. Len(list) : list[j].kind = "run" /\ list[j].arg = ans
    <3>1. k \in 1 .. m /\ read[k].kind = "run"
      BY <1>5, <1>9, <2>1, <2>2 DEF EventBy
    <3>2. PICK j \in 1 .. m : /\ read[j].kind = "run" /\ ans = read[j].arg
                              /\ \A i \in (j + 1) .. m : read[i].kind # "run"
      BY <1>6, <2>2, <3>1 DEF RunFits
    <3>3. j \in k .. Len(list)
      <4>1. k \notin (j + 1) .. m
        BY <3>1, <3>2
      <4> QED
        BY <1>5, <1>9, <3>1, <4>1
    <3> QED
      BY <1>5, <3>2, <3>3
  <2> QED
    BY <1>8, <2>1, <2>2 DEF MarkFits
<1>11. RequestFits(q, held, streams)
  BY <1>8, <1>10 DEF RequestFits, list
<1>12. /\ streams' \in RouteStreams /\ (\A t \in RouteSessions : Extends(streams[t], streams'[t], q))
       /\ exported' \in Seq(TalkItems) /\ RequestFits(q, held, streams')
  BY <1>1, <1>2, <1>11, SameExtends
<1> QED
  BY <1>2, <1>8, <1>12, OneMoves

LEMMA ExportHolds ==
  ASSUME RoutesInv, NEW q \in RouteCalls, Export(q)
  PROVE  RoutesInv'
<1> DEFINE r == request[q]
           v == ViewOf(streams[r.on])
           ans == IF v.broken THEN "500" ELSE "200"
           held == HasAnswer(r, ans)
<1>1. /\ request \in [RouteCalls -> RouteRequests] /\ streams \in RouteStreams
      /\ r \in RouteRequests /\ exported \in Seq(TalkItems)
  BY DEF RoutesInv
<1>2. /\ r.op = "export" /\ streams' = streams /\ exported' = (IF v.broken THEN exported ELSE v.talk)
      /\ request' = [request EXCEPT ![q] = held]
  BY DEF Export, AnswerTo, HasAnswer
<1>3. streams[r.on] \in Seq(RouteEvents)
  BY <1>1 DEF RouteStreams, RouteRequests
<1>4. exported' \in Seq(TalkItems)
  <2>1. v.talk \in Seq(TalkItems)
    BY <1>3, ReadOfIs DEF ViewFits, RouteViews
  <2> HIDE DEF v
  <2> QED
    BY <1>1, <1>2, <2>1
<1>5. ans \in RouteAnswers
  BY DEF RouteAnswers
<1> HIDE DEF r, v, ans, held
<1>6. held \in RouteRequests /\ held.at = "done" /\ held.op = "none" /\ held.sent = 0
  BY <1>1, <1>2, <1>5, AnsweredIs DEF held
<1>7. /\ streams' \in RouteStreams /\ (\A t \in RouteSessions : Extends(streams[t], streams'[t], q))
      /\ RequestFits(q, held, streams')
  BY <1>1, <1>2, <1>6, SameExtends, ForgottenFits
<1> QED
  BY <1>2, <1>4, <1>6, <1>7, OneMoves

\* An import that begins.
Importing(r, s, body) == [r EXCEPT !.at = "loaded", !.op = "import", !.on = s, !.body = body]

LEMMA ImportMade ==
  ASSUME NEW r \in RouteRequests, NEW s \in RouteSessions, NEW body \in Seq(TalkItems)
  PROVE  /\ Importing(r, s, body) \in RouteRequests /\ Importing(r, s, body).at = "loaded"
         /\ Importing(r, s, body).op = "import" /\ Importing(r, s, body).on = s
         /\ Importing(r, s, body).body = body /\ Importing(r, s, body).sent = r.sent
<1> DEFINE B == Seq(TalkItems) \cup Seq(RouteEvents)
           O == Operations \cup {"none"}
           M == RunMarks \cup {"none"} \cup Nat
<1>1. /\ RouteRequests = [at : {"idle", "loaded", "wrote", "read", "forked", "done"}, op : O,
                          on : RouteSessions, view : RouteViews, arg : M, body : B, sent : Nat,
                          answer : RouteAnswers]
      /\ body \in B /\ "import" \in O
  BY DEF RouteRequests, Operations
<1> HIDE DEF B, O, M
<1> QED
  BY <1>1 DEF Importing

LEMMA StartImportHolds ==
  ASSUME RoutesInv, NEW q \in RouteCalls, StartImport(q)
  PROVE  RoutesInv'
<1> DEFINE e == EventBy("created", 0, q)
<1>1. /\ request \in [RouteCalls -> RouteRequests] /\ streams \in RouteStreams
      /\ exported \in Seq(TalkItems)
  BY DEF RoutesInv
<1>2. PICK s \in RouteSessions :
        /\ IsNew(s) /\ AppendTo(s, EventBy("created", 0, q))
        /\ request' = [request EXCEPT ![q] = [Unused EXCEPT !.at = "loaded", !.op = "import",
                                                            !.on = s, !.body = exported]]
  BY Zenon DEF StartImport
<1>3. exported' = exported
  BY DEF StartImport
<1> DEFINE held == Importing(Unused, s, exported)
<1>5. request' = [request EXCEPT ![q] = held]
  BY <1>2 DEF Importing
<1> HIDE DEF held
<1>6. /\ held \in RouteRequests /\ held.at = "loaded" /\ held.op = "import" /\ held.on = s
      /\ held.body = exported /\ held.sent = 0
  BY <1>1, UnusedIs, ImportMade DEF held
<1>7. e \in RouteEvents /\ e.by = q
  <2>1. "created" \in EventKinds \ NumberedKinds /\ 0 \in EventArgs
    BY DEF EventKinds, NumberedKinds, EventArgs
  <2> QED
    BY <2>1, EventTyped
<1> HIDE DEF e
<1>8. /\ streams' \in RouteStreams /\ \A t \in RouteSessions : Extends(streams[t], streams'[t], q)
      /\ Len(streams'[s]) = Len(streams[s]) + 1 /\ streams'[s][Len(streams[s]) + 1] = e
  BY <1>1, <1>2, <1>7, StreamGrows DEF e
<1>9. Len(streams'[s]) = 1 /\ streams'[s][1] = e /\ streams'[s] \in Seq(RouteEvents)
  <2>1. Len(streams[s]) = 0 /\ 0 + 1 = 1
    BY <1>2 DEF IsNew
  <2>2. streams'[s] \in Seq(RouteEvents)
    BY <1>8 DEF RouteStreams
  <2> QED
    BY <1>8, <2>1, <2>2
<1>10. CarriedTo(streams'[s], exported, 0, q)
  BY <1>1, <1>9, CarriedFromStart DEF e
<1>11. 0 <= Len(exported) /\ "import" \in Operations \ {"get"}
  <2>1. Len(exported) \in Nat
    BY <1>1, LenProperties
  <2> QED
    BY <2>1 DEF Operations
<1>12. RequestFits(q, held, streams')
  BY <1>1, <1>6, <1>10, <1>11 DEF RequestFits, ImportFits, Edits
<1> QED
  BY <1>1, <1>3, <1>5, <1>6, <1>8, <1>12, OneMoves

\* A fork that has read its source, and one whose session is there.
ForkRead(r, body) == [r EXCEPT !.at = "read", !.body = body]
Forked(r, s) == [r EXCEPT !.at = "forked", !.on = s]

LEMMA FieldsSet ==
  ASSUME NEW f \in [RouteCalls -> RouteRequests], NEW q \in RouteCalls, NEW body, NEW s
  PROVE  /\ [f EXCEPT ![q].at = "read", ![q].body = body] = [f EXCEPT ![q] = ForkRead(f[q], body)]
         /\ [f EXCEPT ![q].at = "forked", ![q].on = s] = [f EXCEPT ![q] = Forked(f[q], s)]
<1> DEFINE D == RouteRequests
<1> HIDE DEF D
<1>1. f \in [RouteCalls -> D]
  BY DEF D
<1> QED
  BY <1>1 DEF ForkRead, Forked

LEMMA ForkMade ==
  ASSUME NEW r \in RouteRequests, NEW body \in Seq(RouteEvents), NEW s \in RouteSessions
  PROVE  /\ ForkRead(r, body) \in RouteRequests /\ ForkRead(r, body).at = "read"
         /\ ForkRead(r, body).op = r.op /\ ForkRead(r, body).body = body /\ ForkRead(r, body).sent = r.sent
         /\ Forked(r, s) \in RouteRequests /\ Forked(r, s).at = "forked" /\ Forked(r, s).on = s
         /\ Forked(r, s).op = r.op /\ Forked(r, s).body = r.body /\ Forked(r, s).sent = r.sent
<1> DEFINE B == Seq(TalkItems) \cup Seq(RouteEvents)
           O == Operations \cup {"none"}
           M == RunMarks \cup {"none"} \cup Nat
<1>1. /\ RouteRequests = [at : {"idle", "loaded", "wrote", "read", "forked", "done"}, op : O,
                          on : RouteSessions, view : RouteViews, arg : M, body : B, sent : Nat,
                          answer : RouteAnswers]
      /\ body \in B
  BY DEF RouteRequests
<1> HIDE DEF B, O, M
<1>2. /\ ForkRead(r, body) \in RouteRequests /\ ForkRead(r, body).at = "read"
      /\ ForkRead(r, body).op = r.op /\ ForkRead(r, body).body = body /\ ForkRead(r, body).sent = r.sent
  BY <1>1 DEF ForkRead
<1>3. /\ Forked(r, s) \in RouteRequests /\ Forked(r, s).at = "forked" /\ Forked(r, s).on = s
      /\ Forked(r, s).op = r.op /\ Forked(r, s).body = r.body /\ Forked(r, s).sent = r.sent
  BY <1>1 DEF Forked
<1> QED
  BY <1>2, <1>3

\* The message of a snapshot is left out.
LEMMA CarriesNone ==
  ASSUME NEW q, NEW body, NEW n \in Nat, NEW list, CarriedTo(list, body, n, q),
         body[n + 1].role = "system"
  PROVE  CarriedTo(list, body, n + 1, q)
<1>1. /\ \A k \in 1 .. (n + 1) : k = n + 1 \/ k \in 1 .. n
      /\ \A k \in 1 .. n : k \in 1 .. (n + 1)
  OBVIOUS
<1>2. SpokenTo(body, n + 1) = SpokenTo(body, n)
  BY <1>1 DEF SpokenTo
<1> QED
  BY <1>2 DEF CarriedTo

LEMMA ImportMessageHolds ==
  ASSUME RoutesInv, NEW q \in RouteCalls, ImportMessage(q)
  PROVE  RoutesInv'
<1> DEFINE r == request[q]
           s == r.on
           n == r.sent
           role == r.body[n + 1].role
           kind == ImportedKind(role)
           e == EventBy(kind, 0, q)
           held == [r EXCEPT !.sent = @ + 1]
<1>1. /\ request \in [RouteCalls -> RouteRequests] /\ streams \in RouteStreams
      /\ exported \in Seq(TalkItems) /\ r \in RouteRequests /\ RequestFits(q, r, streams)
  BY DEF RoutesInv
<1>2. /\ r.at = "loaded" /\ r.op = "import" /\ n < Len(r.body) /\ exported' = exported
      /\ request' = [request EXCEPT ![q] = held]
      /\ IF kind = "none" THEN UNCHANGED streams ELSE AppendTo(s, e)
  BY DEF ImportMessage
<1>3. /\ ImportFits(q, r, streams[s]) /\ s \in RouteSessions /\ n \in Nat /\ r.body \in Seq(TalkItems)
      /\ CarriedTo(streams[s], r.body, n, q)
  BY <1>1, <1>2 DEF RequestFits, RouteRequests, ImportFits
<1>4. /\ held \in RouteRequests /\ held.at = "loaded" /\ held.op = "import" /\ held.on = s
      /\ held.body = r.body /\ held.sent = n + 1
  BY <1>1, <1>2, RequestMade
<1>5. Len(r.body) \in Nat /\ n + 1 \in 1 .. Len(r.body) /\ n + 1 <= Len(r.body)
  <2>1. Len(r.body) \in Nat
    BY <1>3, LenProperties
  <2> HIDE DEF r, n
  <2> QED
    BY <1>2, <1>3, <2>1
<1>6. role \in {"user", "assistant", "system"}
  <2> DEFINE T == TalkItems
  <2>1. r.body \in Seq(T)
    BY <1>3
  <2> HIDE DEF T, r, n
  <2>2. r.body[n + 1] \in T
    BY <1>5, <2>1, ElementOfSeq
  <2> QED
    BY <2>2 DEF T, TalkItems
<1>7. /\ role = "system" => kind = "none"
      /\ role # "system" => kind = IF role = "user" THEN "prompt" ELSE "text"
  BY <1>6 DEF ImportedKind
<1> HIDE DEF held, kind
<1> SUFFICES /\ streams' \in RouteStreams /\ \A t \in RouteSessions : Extends(streams[t], streams'[t], q)
             /\ CarriedTo(streams'[s], r.body, n + 1, q)
  <2>1. ImportFits(q, held, streams'[s])
    BY <1>3, <1>4, <1>5 DEF ImportFits
  <2>2. "import" \in Operations \ {"get"}
    BY DEF Operations
  <2> HIDE DEF s
  <2>3. RequestFits(q, held, streams')
    BY <1>4, <2>1, <2>2 DEF RequestFits, Edits
  <2>4. exported' \in Seq(TalkItems)
    BY <1>1, <1>2
  <2> QED
    BY <1>2, <1>4, <2>3, <2>4, OneMoves
<1> HIDE DEF r, n, role, s
<1>8. CASE role = "system"
  <2>1. streams' = streams
    BY <1>2, <1>7, <1>8
  <2>2. CarriedTo(streams[s], r.body, n + 1, q)
    BY <1>3, <1>8, CarriesNone DEF role
  <2> QED
    BY <1>1, <2>1, <2>2, SameExtends
<1>9. CASE role # "system"
  <2>1. kind # "none" /\ kind \in EventKinds \ NumberedKinds
    BY <1>7, <1>9 DEF EventKinds, NumberedKinds
  <2>2. AppendTo(s, e)
    BY <1>2, <2>1
  <2>3. e \in RouteEvents /\ e.by = q /\ e.kind = kind
    <3>1. 0 \in EventArgs
      BY DEF EventArgs
    <3> QED
      BY <2>1, <3>1, EventTyped
  <2> HIDE DEF e
  <2> DEFINE old == streams[s]
             new == streams'[s]
  <2>4. /\ streams' \in RouteStreams /\ \A t \in RouteSessions : Extends(streams[t], streams'[t], q)
        /\ Len(new) = Len(old) + 1 /\ new[Len(old) + 1] = e
        /\ \A k \in 1 .. Len(old) : new[k] = old[k]
    BY <1>1, <1>3, <2>2, <2>3, StreamGrows
  <2>5. old \in Seq(RouteEvents) /\ new \in Seq(RouteEvents)
    BY <1>1, <1>3, <2>4 DEF RouteStreams
  <2>6. new[Len(old) + 1].by = q
        /\ new[Len(old) + 1].kind = IF r.body[n + 1].role = "user" THEN "prompt" ELSE "text"
    BY <1>7, <1>9, <2>3, <2>4 DEF role
  <2>7. CarriedTo(old, r.body, n, q) /\ r.body[n + 1].role # "system"
    BY <1>3, <1>9 DEF role
  <2> DEFINE body == r.body
  <2>8. CarriedTo(new, body, n + 1, q)
    <3>1. body \in Seq(TalkItems) /\ n \in Nat /\ n + 1 \in 1 .. Len(body)
      BY <1>3, <1>5
    <3>2. /\ CarriedTo(old, body, n, q) /\ body[n + 1].role # "system" /\ new[Len(old) + 1].by = q
          /\ new[Len(old) + 1].kind = IF body[n + 1].role = "user" THEN "prompt" ELSE "text"
          /\ Len(new) = Len(old) + 1 /\ \A k \in 1 .. Len(old) : new[k] = old[k]
      BY <2>4, <2>6, <2>7
    <3> HIDE DEF body, old, new
    <3> QED
      BY <2>5, <3>1, <3>2, CarriesOne
  <2> QED
    BY <2>4, <2>8
<1> QED
  BY <1>8, <1>9

LEMMA FinishImportHolds ==
  ASSUME RoutesInv, NEW q \in RouteCalls, FinishImport(q)
  PROVE  RoutesInv'
<1> DEFINE r == request[q]
           held == HasAnswer(r, "200")
<1>1. /\ request \in [RouteCalls -> RouteRequests] /\ streams \in RouteStreams
      /\ exported \in Seq(TalkItems) /\ r \in RouteRequests /\ RequestFits(q, r, streams)
  BY DEF RoutesInv
<1>2. /\ r.op = "import" /\ r.sent = Len(r.body) /\ streams' = streams /\ exported' = exported
      /\ request' = [request EXCEPT ![q] = held]
  BY DEF FinishImport, AnswerTo, HasAnswer
<1>3. ImportFits(q, r, streams[r.on])
  BY <1>1, <1>2 DEF RequestFits
<1>4. "200" \in RouteAnswers
  BY DEF RouteAnswers
<1> HIDE DEF r, held
<1>5. /\ held \in RouteRequests /\ held.at = "done" /\ held.op = "import" /\ held.on = r.on
      /\ held.body = r.body /\ held.sent = r.sent
  BY <1>1, <1>2, <1>4, AnsweredIs DEF held
<1>6. ImportFits(q, held, streams[held.on])
  BY <1>2, <1>3, <1>5 DEF ImportFits
<1>7. RequestFits(q, held, streams')
  BY <1>2, <1>5, <1>6 DEF RequestFits
<1>8. /\ streams' \in RouteStreams /\ (\A t \in RouteSessions : Extends(streams[t], streams'[t], q))
      /\ exported' \in Seq(TalkItems)
  BY <1>1, <1>2, SameExtends
<1> QED
  BY <1>2, <1>5, <1>7, <1>8, OneMoves

LEMMA ReadSourceHolds ==
  ASSUME RoutesInv, NEW q \in RouteCalls, ReadSource(q)
  PROVE  RoutesInv'
<1> DEFINE r == request[q]
           body == ReadOf(streams[r.on])
           held == ForkRead(r, body)
<1>1. /\ request \in [RouteCalls -> RouteRequests] /\ streams \in RouteStreams
      /\ exported \in Seq(TalkItems) /\ r \in RouteRequests /\ RequestFits(q, r, streams)
  BY DEF RoutesInv
<1>2. r.at = "loaded" /\ r.op = "fork" /\ streams' = streams /\ exported' = exported
  BY DEF ReadSource
<1>8. request' = [request EXCEPT ![q] = held]
  <2> DEFINE f == request
  <2>1. request' = [f EXCEPT ![q].at = "read", ![q].body = body] /\ f \in [RouteCalls -> RouteRequests]
    BY <1>1 DEF ReadSource
  <2> HIDE DEF f, body
  <2>2. [f EXCEPT ![q].at = "read", ![q].body = body] = [f EXCEPT ![q] = ForkRead(f[q], body)]
    BY <2>1, FieldsSet, Zenon
  <2> QED
    BY <2>1, <2>2 DEF f
<1>3. NothingBy(q, streams) /\ r.sent = 0
  BY <1>1, <1>2 DEF RequestFits
<1>4. body \in Seq(RouteEvents)
  <2>1. streams[r.on] \in Seq(RouteEvents)
    BY <1>1 DEF RouteStreams, RouteRequests
  <2> QED
    BY <2>1, ReadOfIs
<1> HIDE DEF r, body
<1>5. /\ held \in RouteRequests /\ held.at = "read" /\ held.op = "fork"
      /\ held.body = body /\ held.sent = 0
  BY <1>1, <1>2, <1>3, <1>4, ForkMade, RoutesAssumption
<1> HIDE DEF held
<1>6. RequestFits(q, held, streams')
  BY <1>2, <1>3, <1>4, <1>5 DEF RequestFits
<1>7. /\ streams' \in RouteStreams /\ (\A t \in RouteSessions : Extends(streams[t], streams'[t], q))
      /\ exported' \in Seq(TalkItems)
  BY <1>1, <1>2, SameExtends
<1> QED
  BY <1>5, <1>6, <1>7, <1>8, OneMoves

LEMMA CreateForkHolds ==
  ASSUME RoutesInv, NEW q \in RouteCalls, CreateFork(q)
  PROVE  RoutesInv'
<1> DEFINE r == request[q]
           e == EventBy("created", 0, q)
<1>1. /\ request \in [RouteCalls -> RouteRequests] /\ streams \in RouteStreams
      /\ exported \in Seq(TalkItems) /\ r \in RouteRequests /\ RequestFits(q, r, streams)
  BY DEF RoutesInv
<1>2. r.at = "read" /\ exported' = exported
  BY DEF CreateFork
<1>3. PICK s \in RouteSessions :
        /\ IsNew(s) /\ AppendTo(s, EventBy("created", 0, q))
        /\ request' = [request EXCEPT ![q].at = "forked", ![q].on = s]
  BY Zenon DEF CreateFork
<1> DEFINE held == Forked(r, s)
<1>4. request' = [request EXCEPT ![q] = held]
  <2> DEFINE f == request
  <2>1. request' = [f EXCEPT ![q].at = "forked", ![q].on = s] /\ f \in [RouteCalls -> RouteRequests]
    BY <1>1, <1>3
  <2> HIDE DEF f
  <2>2. [f EXCEPT ![q].at = "forked", ![q].on = s] = [f EXCEPT ![q] = Forked(f[q], s)]
    BY <2>1, FieldsSet, Zenon
  <2> QED
    BY <2>1, <2>2 DEF f
<1>5. r.op = "fork" /\ r.sent = 0 /\ r.body \in Seq(RouteEvents)
  BY <1>1, <1>2 DEF RequestFits
<1>6. e \in RouteEvents /\ e.by = q /\ e.kind = "created"
  <2>1. "created" \in EventKinds \ NumberedKinds /\ 0 \in EventArgs
    BY DEF EventKinds, NumberedKinds, EventArgs
  <2> QED
    BY <2>1, EventTyped
<1>7. AppendTo(s, e)
  BY <1>3
<1> HIDE DEF r, e
<1>8. /\ held \in RouteRequests /\ held.at = "forked" /\ held.op = "fork" /\ held.on = s
      /\ held.body = r.body /\ held.sent = 0
  BY <1>1, <1>5, ForkMade
<1> HIDE DEF held
<1>9. /\ streams' \in RouteStreams /\ \A t \in RouteSessions : Extends(streams[t], streams'[t], q)
      /\ Len(streams'[s]) = Len(streams[s]) + 1 /\ streams'[s][Len(streams[s]) + 1] = e
  BY <1>1, <1>6, <1>7, StreamGrows
<1>10. Len(streams'[s]) = 1 /\ streams'[s][1] = e
  <2>1. Len(streams[s]) = 0 /\ 0 + 1 = 1
    BY <1>3 DEF IsNew
  <2> QED
    BY <1>9, <2>1
<1>11. CreatedBy(q, streams'[s])
  <2>1. 1 .. 1 = {1}
    OBVIOUS
  <2> QED
    BY <1>6, <1>10, <2>1 DEF CreatedBy, OwnAt
<1>12. RequestFits(q, held, streams')
  BY <1>5, <1>8, <1>11 DEF RequestFits
<1>13. exported' \in Seq(TalkItems)
  BY <1>1, <1>2
<1> QED
  BY <1>4, <1>8, <1>9, <1>12, <1>13, OneMoves

\* What a fork gets.
CopiesOf(body, q) == [k \in DOMAIN body |-> EventBy(body[k].kind, body[k].arg, q)]

LEMMA CopiesAre ==
  ASSUME NEW q \in RouteCalls, NEW body \in Seq(RouteEvents)
  PROVE  /\ CopiesOf(body, q) \in Seq(RouteEvents) /\ Len(CopiesOf(body, q)) = Len(body)
         /\ \A k \in 1 .. Len(body) :
              /\ CopiesOf(body, q)[k].kind = body[k].kind /\ CopiesOf(body, q)[k].arg = body[k].arg
              /\ CopiesOf(body, q)[k].by = q
<1> DEFINE n == Len(body)
           c == CopiesOf(body, q)
<1>1. n \in Nat /\ DOMAIN body = 1 .. n
  BY LenProperties
<1>2. \A k \in 1 .. n : body[k] \in RouteEvents
  BY ElementOfSeq
<1>3. c = [k \in 1 .. n |-> EventBy(body[k].kind, body[k].arg, q)]
  BY <1>1 DEF CopiesOf
<1> HIDE DEF n, c
<1>4. ASSUME NEW k \in 1 .. n
      PROVE  c[k] \in RouteEvents /\ c[k].kind = body[k].kind /\ c[k].arg = body[k].arg /\ c[k].by = q
  <2>1. body[k] \in RouteEvents /\ c[k] = EventBy(body[k].kind, body[k].arg, q)
    BY <1>2, <1>3
  <2>2. /\ body[k].kind \in EventKinds /\ body[k].arg \in EventArgs
        /\ body[k].kind \in NumberedKinds => body[k].arg \in Nat
    BY <2>1 DEF RouteEvents
  <2> QED
    BY <2>1, <2>2 DEF EventBy, RouteEvents
<1> DEFINE T == RouteEvents
<1>5. \A k \in 1 .. n : c[k] \in T
  BY <1>4
<1> HIDE DEF T
<1>6. c \in Seq(T) /\ Len(c) = n
  BY <1>1, <1>3, <1>5
<1> QED
  BY <1>4, <1>6 DEF n, c, T

\* Several list more in a stream.
AppendAll(s, more) == streams' = [streams EXCEPT ![s] = @ \o more]

LEMMA StreamLengthened ==
  ASSUME streams \in RouteStreams, NEW s \in RouteSessions, NEW more \in Seq(RouteEvents), NEW b,
         \A k \in 1 .. Len(more) : more[k].by = b,
         AppendAll(s, more)
  PROVE  /\ streams' \in RouteStreams /\ \A t \in RouteSessions : Extends(streams[t], streams'[t], b)
         /\ Len(streams[s]) \in Nat /\ Len(more) \in Nat
         /\ Len(streams'[s]) = Len(streams[s]) + Len(more)
         /\ \A k \in 1 .. Len(more) : streams'[s][Len(streams[s]) + k] = more[k]
<1> DEFINE ss == streams
           tt == streams'
           T == RouteEvents
           old == ss[s]
           new == old \o more
<1>0. tt = [ss EXCEPT ![s] = new]
  BY DEF AppendAll
<1> HIDE DEF ss, tt, T
<1>1. ss \in [RouteSessions -> Seq(T)] /\ more \in Seq(T)
  BY DEF RouteStreams, T, ss
<1>2. old \in Seq(T) /\ Len(old) \in Nat /\ Len(more) \in Nat
  BY <1>1, LenProperties
<1> HIDE DEF old
<1>3. /\ new \in Seq(T) /\ Len(new) = Len(old) + Len(more)
      /\ \A i \in 1 .. Len(old) + Len(more) : new[i] = IF i <= Len(old) THEN old[i] ELSE more[i - Len(old)]
  BY <1>1, <1>2, ConcatProperties
<1> HIDE DEF new
<1>4. \A k \in 1 .. Len(old) : new[k] = old[k]
  <2>1. \A k \in 1 .. Len(old) : k \in 1 .. Len(old) + Len(more) /\ k <= Len(old)
    BY <1>2
  <2> QED
    BY <1>3, <2>1
<1>5. \A k \in 1 .. Len(more) : new[Len(old) + k] = more[k]
  <2>1. \A k \in 1 .. Len(more) : /\ Len(old) + k \in 1 .. Len(old) + Len(more)
                                  /\ ~(Len(old) + k <= Len(old)) /\ (Len(old) + k) - Len(old) = k
    BY <1>2
  <2> QED
    BY <1>3, <2>1
<1>6. \A k \in (Len(old) + 1) .. Len(new) : new[k].by = b
  <2> SUFFICES ASSUME NEW k \in (Len(old) + 1) .. Len(new) PROVE new[k].by = b
    OBVIOUS
  <2>1. k - Len(old) \in 1 .. Len(more) /\ Len(old) + (k - Len(old)) = k
    BY <1>2, <1>3
  <2>2. new[k] = more[k - Len(old)]
    BY <1>5, <2>1
  <2> QED
    BY <2>1, <2>2
<1>7. Extends(old, new, b)
  <2>1. Len(old) <= Len(new)
    BY <1>2, <1>3
  <2> QED
    BY <1>4, <1>6, <2>1 DEF Extends
<1>8. tt \in [RouteSessions -> Seq(T)] /\ tt[s] = new /\ \A t \in RouteSessions : t # s => tt[t] = ss[t]
  BY <1>0, <1>1, <1>3
<1>9. ASSUME NEW t \in RouteSessions PROVE Extends(ss[t], tt[t], b)
  <2>1. CASE t = s
    BY <1>7, <1>8, <2>1 DEF old
  <2>2. CASE t # s
    <3>1. ss \in RouteStreams
      BY <1>1 DEF RouteStreams, T
    <3> QED
      BY <1>8, <2>2, <3>1, SameExtends
  <2> QED
    BY <2>1, <2>2
<1>10. tt \in RouteStreams
  BY <1>8 DEF RouteStreams, T
<1> QED
  BY <1>2, <1>3, <1>5, <1>8, <1>9, <1>10 DEF ss, tt, old

LEMMA ReplaySourceHolds ==
  ASSUME RoutesInv, NEW q \in RouteCalls, ReplaySource(q)
  PROVE  RoutesInv'
<1> DEFINE r == request[q]
           s == r.on
           more == CopiesOf(r.body, q)
           held == HasAnswer(r, "200")
           old == streams[s]
           new == streams'[s]
           p == Len(old)
           n == Len(r.body)
<1>1. /\ request \in [RouteCalls -> RouteRequests] /\ streams \in RouteStreams
      /\ exported \in Seq(TalkItems) /\ r \in RouteRequests /\ RequestFits(q, r, streams)
  BY DEF RoutesInv
<1>2. /\ r.at = "forked" /\ exported' = exported /\ request' = [request EXCEPT ![q] = held]
      /\ AppendAll(s, more)
  BY DEF ReplaySource, AnswerTo, HasAnswer, CopiesOf, AppendAll
<1>3. r.op = "fork" /\ r.sent = 0 /\ r.body \in Seq(RouteEvents) /\ CreatedBy(q, old) /\ s \in RouteSessions
  <2>1. r.op = "fork"
    BY <1>1, <1>2 DEF RequestFits
  <2> QED
    BY <1>1, <1>2, <2>1 DEF RequestFits, RouteRequests
<1>4. "200" \in RouteAnswers
  BY DEF RouteAnswers
<1>5. /\ more \in Seq(RouteEvents) /\ Len(more) = n /\ n \in Nat
      /\ \A k \in 1 .. n : more[k].kind = r.body[k].kind /\ more[k].arg = r.body[k].arg /\ more[k].by = q
  BY <1>3, CopiesAre, LenProperties
<1> HIDE DEF r, held, more, s, n
<1>6. /\ held \in RouteRequests /\ held.at = "done" /\ held.op = "fork" /\ held.on = s
      /\ held.body = r.body /\ held.sent = 0
  BY <1>1, <1>3, <1>4, AnsweredIs DEF held, s
<1>7. /\ streams' \in RouteStreams /\ \A t \in RouteSessions : Extends(streams[t], streams'[t], q)
      /\ p \in Nat /\ Len(new) = p + n /\ \A k \in 1 .. n : new[p + k] = more[k]
  <2>1. \A k \in 1 .. Len(more) : more[k].by = q
    BY <1>5
  <2> QED
    BY <1>1, <1>2, <1>3, <1>5, <2>1, StreamLengthened
<1>8. /\ \A k \in 1 .. p : new[k] = old[k]
      /\ OwnAt(old, q) = {1} /\ old[1].kind = "created"
  BY <1>3, <1>7 DEF Extends, CreatedBy
<1>9. 1 \in 1 .. p
  BY <1>8 DEF OwnAt
<1> HIDE DEF old, new, p
<1>10. p \in Nat \ {0}
  BY <1>7, <1>9
<1>11. OwnAt(new, q) = {1} \cup ((p + 1) .. (p + n))
  <2>1. ASSUME NEW k \in OwnAt(new, q) PROVE k \in {1} \cup ((p + 1) .. (p + n))
    <3>1. k \in 1 .. (p + n) /\ new[k].by = q
      BY <1>7 DEF OwnAt, new
    <3>2. CASE k \in 1 .. p
      <4>1. k \in OwnAt(old, q)
        BY <1>8, <3>1, <3>2 DEF OwnAt, p
      <4> QED
        BY <1>8, <4>1
    <3>3. CASE k \notin 1 .. p
      BY <1>5, <1>7, <3>1, <3>3
    <3> QED
      BY <3>2, <3>3
  <2>2. ASSUME NEW k \in (p + 1) .. (p + n) PROVE k \in OwnAt(new, q)
    <3>1. k - p \in 1 .. n /\ p + (k - p) = k /\ k \in 1 .. (p + n)
      BY <1>5, <1>7
    <3>2. new[k] = more[k - p]
      BY <1>7, <3>1
    <3>3. new[k].by = q
      BY <1>5, <3>1, <3>2
    <3> QED
      BY <1>7, <3>1, <3>3 DEF OwnAt, new
  <2>3. 1 \in OwnAt(new, q)
    <3>1. 1 \in 1 .. (p + n)
      BY <1>5, <1>7, <1>9
    <3>2. 1 \in OwnAt(old, q)
      BY <1>8
    <3>3. new[1].by = q
      BY <1>8, <1>9, <3>2 DEF OwnAt
    <3> QED
      BY <1>7, <3>1, <3>3 DEF OwnAt, new
  <2> QED
    BY <2>1, <2>2, <2>3
<1>12. \A k \in 1 .. n : new[p + k].kind = r.body[k].kind /\ new[p + k].arg = r.body[k].arg
  BY <1>5, <1>7
<1>13. new[1].kind = "created" /\ p + n <= Len(new)
  <2>1. p + n <= p + n
    BY <1>5, <1>7
  <2> QED
    BY <1>7, <1>8, <1>9, <2>1
<1>14. ReplayedBy(q, r.body, new)
  BY <1>10, <1>11, <1>12, <1>13 DEF ReplayedBy, n
<1>15. RequestFits(q, held, streams')
  BY <1>3, <1>6, <1>14 DEF RequestFits, new
<1>16. exported' \in Seq(TalkItems)
  BY <1>1, <1>2
<1> QED
  BY <1>2, <1>6, <1>7, <1>15, <1>16, OneMoves

LEMMA AgentWritesHolds ==
  ASSUME RoutesInv, AgentWrites
  PROVE  RoutesInv'
<1> DEFINE e == EventBy("text", 0, NoRouteCall)
<1>1. /\ request \in [RouteCalls -> RouteRequests] /\ streams \in RouteStreams
      /\ exported \in Seq(TalkItems) /\ UsedSession \in RouteSessions
  BY RoutesAssumption DEF RoutesInv
<1>2. AppendTo(UsedSession, e) /\ request' = request /\ exported' = exported
  BY DEF AgentWrites
<1>3. e \in RouteEvents /\ e.by = NoRouteCall
  <2>1. "text" \in EventKinds \ NumberedKinds /\ 0 \in EventArgs
    BY DEF EventKinds, NumberedKinds, EventArgs
  <2> QED
    BY <2>1, EventTyped
<1> HIDE DEF e
<1>4. /\ streams' \in RouteStreams
      /\ \A t \in RouteSessions : Extends(streams[t], streams'[t], NoRouteCall)
  BY <1>1, <1>2, <1>3, StreamGrows
<1>5. ASSUME NEW q \in RouteCalls PROVE RequestFits(q, request[q], streams')
  <2> DEFINE ss == streams
             tt == streams'
             r == request[q]
  <2>1. q # NoRouteCall
    BY RoutesAssumption DEF RouteCalls, NoRouteCall
  <2>2. r \in RouteRequests /\ RequestFits(q, r, ss)
    BY DEF RoutesInv
  <2>3. /\ ss \in RouteStreams /\ tt \in RouteStreams
        /\ \A s \in RouteSessions : Extends(ss[s], tt[s], NoRouteCall)
    BY <1>1, <1>4
  <2> HIDE DEF ss, tt, r
  <2>4. RequestFits(q, r, tt)
    BY <2>1, <2>2, <2>3, FitsStill
  <2> QED
    BY <2>4 DEF tt, r
<1> QED
  BY <1>1, <1>2, <1>4, <1>5 DEF RoutesInv

LEMMA RoutesStart ==
  ASSUME RoutesInit
  PROVE  RoutesInv
<1> DEFINE T == RouteEvents
           a == EventBy("created", 0, NoRouteCall)
           b == EventBy("prompt", 0, NoRouteCall)
<1>1. a \in T /\ b \in T /\ a.by = NoRouteCall /\ b.by = NoRouteCall
  <2>1. {"created", "prompt"} \subseteq EventKinds \ NumberedKinds /\ 0 \in EventArgs
    BY DEF EventKinds, NumberedKinds, EventArgs
  <2> QED
    BY <2>1, EventTyped
<1>2. Used = <<a, b>>
  BY DEF Used
<1> HIDE DEF T, a, b
<1>3. Used \in Seq(T) /\ Len(Used) = 2 /\ Used[1] = a /\ Used[2] = b /\ <<>> \in Seq(T)
  BY <1>1, <1>2
<1>4. streams \in RouteStreams
  BY <1>3 DEF RoutesInit, RouteStreams, T
<1>5. ASSUME NEW q \in RouteCalls, NEW s \in RouteSessions PROVE OwnAt(streams[s], q) = {}
  <2>1. q # NoRouteCall
    BY RoutesAssumption DEF RouteCalls, NoRouteCall
  <2>2. \A k \in 1 .. Len(Used) : Used[k].by = NoRouteCall
    <3>1. \A k \in 1 .. 2 : k = 1 \/ k = 2
      OBVIOUS
    <3> QED
      BY <1>1, <1>3, <3>1
  <2>3. \A k \in 1 .. Len(streams[s]) : streams[s][k].by = NoRouteCall
    <3>1. streams[s] = Used \/ streams[s] = <<>>
      BY DEF RoutesInit
    <3>2. CASE streams[s] = <<>>
      <4>1. 1 .. Len(streams[s]) = {}
        BY <3>2
      <4> QED
        BY <4>1
    <3> QED
      BY <2>2, <3>1, <3>2
  <2> QED
    BY <2>1, <2>3 DEF OwnAt
<1>6. ASSUME NEW q \in RouteCalls PROVE RequestFits(q, Unused, streams)
  <2>1. NothingBy(q, streams)
    BY <1>5 DEF NothingBy
  <2> QED
    BY <2>1, UnusedIs DEF RequestFits
<1>7. exported \in Seq(TalkItems)
  BY DEF RoutesInit
<1>8. request = [q \in RouteCalls |-> Unused]
  BY DEF RoutesInit
<1>9. request \in [RouteCalls -> RouteRequests] /\ \A q \in RouteCalls : RequestFits(q, request[q], streams)
  BY <1>6, <1>8, UnusedIs
<1> QED
  BY <1>4, <1>7, <1>9 DEF RoutesInv

LEMMA RoutesStep ==
  ASSUME RoutesInv, [RoutesNext]_routeVars
  PROVE  RoutesInv'
<1>1. CASE UNCHANGED routeVars
  BY <1>1 DEF RoutesInv, routeVars
<1>2. CASE AgentWrites
  BY <1>2, AgentWritesHolds
<1>3. ASSUME NEW q \in RouteCalls,
             \/ LoadSession(q) \/ AppendEvent(q) \/ ReportRun(q) \/ Export(q)
             \/ StartImport(q) \/ ImportMessage(q) \/ FinishImport(q)
             \/ ReadSource(q) \/ CreateFork(q) \/ ReplaySource(q)
      PROVE  RoutesInv'
  BY <1>3, LoadSessionHolds, RequestAppendHolds, ReportRunHolds, ExportHolds, StartImportHolds,
     ImportMessageHolds, FinishImportHolds, ReadSourceHolds, CreateForkHolds, ReplaySourceHolds
<1> QED
  BY <1>1, <1>2, <1>3 DEF RoutesNext

LEMMA RoutesTyped ==
  ASSUME RoutesInv
  PROVE  RoutesTypeOK
<1>1. ASSUME NEW s \in RouteSessions, NEW k \in DOMAIN streams[s]
      PROVE  streams[s][k].by \in RouteCalls \cup {NoRouteCall}
  <2> DEFINE T == RouteEvents
             e == streams[s]
  <2>1. e \in Seq(T)
    BY DEF RoutesInv, RouteStreams
  <2> HIDE DEF T, e
  <2>2. k \in 1 .. Len(e)
    BY <2>1, LenProperties DEF e
  <2>3. e[k] \in T
    BY <2>1, <2>2, ElementOfSeq
  <2> QED
    BY <2>3 DEF T, e, RouteEvents
<1>2. ASSUME NEW q \in RouteCalls
      PROVE  /\ request[q].at \in {"idle", "loaded", "wrote", "read", "forked", "done"}
             /\ request[q].on \in RouteSessions
             /\ request[q].op \in Operations \cup {"none"} /\ request[q].sent <= Len(request[q].body)
  <2> DEFINE r == request[q]
  <2>1. r \in RouteRequests /\ RequestFits(q, r, streams)
    BY DEF RoutesInv
  <2> HIDE DEF r
  <2>2. Len(r.body) \in Nat
    <3>1. r.body \in Seq(TalkItems) \/ r.body \in Seq(RouteEvents)
      BY <2>1 DEF RouteRequests
    <3> QED
      BY <3>1, LenProperties
  <2>3. r.sent <= Len(r.body)
    <3>1. CASE r.op = "import"
      BY <2>1, <3>1 DEF RequestFits, ImportFits
    <3>2. CASE r.op # "import"
      <4>1. r.sent = 0
        BY <2>1, <3>2 DEF RequestFits
      <4> QED
        BY <2>2, <4>1
    <3> QED
      BY <3>1, <3>2
  <2> QED
    BY <2>1, <2>3 DEF RouteRequests, r
<1>3. ASSUME NEW k \in DOMAIN exported PROVE exported[k].role \in {"system", "user", "assistant"}
  <2> DEFINE T == TalkItems
             e == exported
  <2>1. e \in Seq(T)
    BY DEF RoutesInv
  <2> HIDE DEF T, e
  <2>2. k \in 1 .. Len(e)
    BY <2>1, LenProperties DEF e
  <2>3. e[k] \in T
    BY <2>1, <2>2, ElementOfSeq
  <2> QED
    BY <2>3 DEF T, e, TalkItems
<1> QED
  BY <1>1, <1>2, <1>3 DEF RoutesTypeOK

LEMMA GoneForGood ==
  ASSUME RoutesInv
  PROVE  GoneStaysGone
<1> SUFFICES ASSUME NEW q \in RouteCalls, NEW s \in RouteSessions, NEW k \in DOMAIN streams[s],
                    streams[s][k] = EventBy("deleted", 0, q), k <= RouteReadLimit
             PROVE  ~Shown(ViewOf(streams[s]))
  BY DEF GoneStaysGone
<1> DEFINE e == streams[s]
           read == ReadOf(e)
           m == Len(read)
<1>1. e \in Seq(RouteEvents)
  BY DEF RoutesInv, RouteStreams
<1>2. k \in 1 .. Len(e) /\ e[k].kind = "deleted" /\ Len(e) \in Nat
  BY <1>1, LenProperties DEF EventBy
<1> HIDE DEF e
<1>3. /\ m \in Nat /\ m = IF Len(e) < RouteReadLimit THEN Len(e) ELSE RouteReadLimit
      /\ \A i \in 1 .. m : read[i] = e[i]
      /\ ViewFits(ViewOf(e), read, m)
  BY <1>1, ReadOfIs
<1> HIDE DEF read, m
<1>4. k \in 1 .. m
  BY <1>2, <1>3, RoutesAssumption
<1>5. ViewOf(e).gone
  BY <1>2, <1>3, <1>4 DEF ViewFits
<1> QED
  BY <1>5 DEF Shown, e

LEMMA MarksAnswered ==
  ASSUME RoutesInv
  PROVE  MarkIsAnswered
<1> SUFFICES ASSUME NEW q \in RouteCalls, request[q].op = "mark", request[q].at = "done",
                    request[q].answer \in RunStatuses \cup {"idle"}
             PROVE  LET r == request[q] IN
                    \E k \in DOMAIN streams[r.on] :
                      /\ streams[r.on][k] = EventBy("run", r.arg, q)
                      /\ k <= RouteReadLimit =>
                           \E j \in k..Len(streams[r.on]) :
                             streams[r.on][j].kind = "run" /\ streams[r.on][j].arg = r.answer
  BY DEF MarkIsAnswered
<1> DEFINE r == request[q]
           e == streams[r.on]
<1>1. r \in RouteRequests /\ RequestFits(q, r, streams) /\ streams \in RouteStreams
  BY DEF RoutesInv
<1>2. MarkFits(q, r, e)
  BY <1>1 DEF RequestFits
<1>3. DOMAIN e = 1 .. Len(e)
  BY <1>1, LenProperties DEF RouteStreams, RouteRequests
<1> HIDE DEF r, e
<1>4. r.at = "done"
  BY DEF r
<1>5. \E k \in DOMAIN e :
        /\ e[k] = EventBy("run", r.arg, q)
        /\ k <= RouteReadLimit =>
             \E j \in k .. Len(e) : e[j].kind = "run" /\ e[j].arg = r.answer
  <2>1. r.answer # "500"
    BY DEF r, RunStatuses
  <2> QED
    BY <1>2, <1>3, <1>4, <2>1 DEF MarkFits
<1> QED
  BY <1>5, Zenon DEF r, e

LEMMA ImportsCarry ==
  ASSUME RoutesInv
  PROVE  ImportCarriesTalk
<1> SUFFICES ASSUME NEW q \in RouteCalls, request[q].op = "import", request[q].at = "done"
             PROVE  LET r     == request[q]
                        mine  == ItemsAt(streams[r.on], {k \in DOMAIN streams[r.on] : streams[r.on][k].by = q})
                        told == ItemsAt(r.body, {k \in DOMAIN r.body : r.body[k].role # "system"}) IN
                    /\ mine[1] = EventBy("created", 0, q) /\ streams[r.on][1] = mine[1]
                    /\ Len(mine) = Len(told) + 1
                    /\ \A k \in 1..Len(told) :
                         mine[k + 1].kind = IF told[k].role = "user" THEN "prompt" ELSE "text"
  BY DEF ImportCarriesTalk
<1> DEFINE r == request[q]
           e == streams[r.on]
           body == r.body
<1>1. r \in RouteRequests /\ RequestFits(q, r, streams) /\ streams \in RouteStreams
  BY DEF RoutesInv
<1>2. body \in Seq(TalkItems) /\ CarriedTo(e, body, Len(body), q)
  BY <1>1 DEF RequestFits, ImportFits
<1>3. DOMAIN e = 1 .. Len(e) /\ DOMAIN body = 1 .. Len(body)
  BY <1>1, <1>2, LenProperties DEF RouteStreams, RouteRequests
<1> HIDE DEF e, body
<1>4. /\ {k \in DOMAIN e : e[k].by = q} = OwnAt(e, q)
      /\ {k \in DOMAIN body : body[k].role # "system"} = SpokenTo(body, Len(body))
  BY <1>3 DEF OwnAt, SpokenTo
<1> QED
  BY <1>2, <1>4 DEF CarriedTo, e, body

LEMMA ForksShow ==
  ASSUME RoutesInv
  PROVE  ForkShowsSource
<1> SUFFICES ASSUME NEW q \in RouteCalls, request[q].op = "fork", request[q].at = "done",
                    request[q].body # <<>>, Len(request[q].body) < RouteReadLimit,
                    LET mine == SubSeq(streams[request[q].on], 1, Len(request[q].body) + 1) IN
                    \A k \in 1..Len(mine) : mine[k].by = q
             PROVE  LET body    == request[q].body
                        mine    == SubSeq(streams[request[q].on], 1, Len(body) + 1)
                        source  == ViewOf(body)
                        to      == ViewOf(mine)
                        same    == {Later(m) : m \in Heard(source.talk)}
                        seen    == Heard(to.talk) IN
                    /\ to.gone = source.gone /\ to.run = source.run
                    /\ \A i, j \in HeardIn(to.talk) : i < j => to.talk[i].number < to.talk[j].number
                    /\ (\A k \in DOMAIN body : body[k].kind \notin {"compaction", "reverted"}) =>
                         /\ to.talk = [k \in DOMAIN source.talk |-> Later(source.talk[k])]
                         /\ to.broken = source.broken
                    /\ (\A k \in DOMAIN body : body[k].kind \notin {"edited", "removed"}) =>
                         /\ \A m \in same \ seen : \E k \in DOMAIN body : body[k].kind = "reverted" /\ body[k].arg = m.number - 1
                         /\ \A m \in seen \ same : \E k \in DOMAIN body : body[k].kind = "compaction" /\ body[k].arg = m.number
  BY Zenon DEF ForkShowsSource
<1> DEFINE r == request[q]
           body == r.body
           n == Len(body)
           fork == streams[r.on]
           mine == SubSeq(fork, 1, n + 1)
<1>1. r \in RouteRequests /\ RequestFits(q, r, streams) /\ streams \in RouteStreams
  BY DEF RoutesInv
<1>2. body \in Seq(RouteEvents) /\ ReplayedBy(q, body, fork)
  BY <1>1 DEF RequestFits
<1>3. fork \in Seq(RouteEvents) /\ Len(fork) \in Nat /\ n \in Nat /\ n # 0
  <2>1. fork \in Seq(RouteEvents)
    BY <1>1 DEF RouteStreams, RouteRequests
  <2>2. Len(fork) \in Nat /\ n \in Nat
    BY <1>2, <2>1, LenProperties
  <2>3. n # 0
    <3> DEFINE T == RouteEvents
    <3>1. body \in Seq(T) /\ body # <<>>
      BY <1>2
    <3> HIDE DEF T, body
    <3> QED
      BY <3>1
  <2> QED
    BY <2>1, <2>2, <2>3
<1>4. n < RouteReadLimit /\ \A k \in 1 .. Len(mine) : mine[k].by = q
  OBVIOUS
<1> HIDE DEF r, body, fork, n
<1>5. PICK p \in Nat \ {0} :
        /\ OwnAt(fork, q) = {1} \cup ((p + 1) .. (p + n)) /\ p + n <= Len(fork)
        /\ \A k \in 1 .. n : fork[p + k].kind = body[k].kind /\ fork[p + k].arg = body[k].arg
  BY <1>2 DEF ReplayedBy, n
<1>6. /\ mine \in Seq(RouteEvents) /\ Len(mine) = n + 1
      /\ \A k \in 1 .. (n + 1) : mine[k] = fork[k]
  <2> DEFINE S == RouteEvents
             m == n + 1
  <2>1. 1 \in Int /\ m \in Int /\ m - 1 + 1 = m /\ 1 <= m /\ m <= Len(fork) /\ \A k \in 1 .. m : 1 + k - 1 = k
    BY <1>3, <1>5
  <2>2. \A i \in 1 .. m : fork[i] \in S
    <3>1. \A i \in 1 .. m : i \in 1 .. Len(fork)
      BY <1>3, <2>1
    <3> QED
      BY <1>3, <3>1, ElementOfSeq
  <2> HIDE DEF S, m
  <2>3. /\ SubSeq(fork, 1, m) \in Seq(S) /\ Len(SubSeq(fork, 1, m)) = IF 1 <= m THEN m - 1 + 1 ELSE 0
        /\ \A k \in 1 .. (m - 1 + 1) : SubSeq(fork, 1, m)[k] = fork[1 + k - 1]
    BY <2>1, <2>2, SubSeqProperties
  <2> QED
    BY <2>1, <2>3 DEF S, m
<1> HIDE DEF mine
<1>7. p = 1
  <2>1. 2 \in 1 .. (n + 1) /\ 2 \in 1 .. Len(fork)
    BY <1>3, <1>5
  <2>2. fork[2].by = q
    BY <1>4, <1>6, <2>1
  <2>3. 2 \in OwnAt(fork, q)
    BY <2>1, <2>2 DEF OwnAt
  <2> QED
    BY <1>3, <1>5, <2>3
<1>8. Behind(body, mine, n)
  <2>1. fork[1].kind = "created" /\ 1 \in 1 .. (n + 1)
    BY <1>2, <1>3 DEF ReplayedBy
  <2>2. ASSUME NEW k \in 1 .. n
        PROVE  mine[k + 1].kind = body[k].kind /\ mine[k + 1].arg = body[k].arg
    <3>1. k + 1 \in 1 .. (n + 1) /\ p + k = k + 1
      BY <1>3, <1>7
    <3> QED
      BY <1>5, <1>6, <3>1
  <2> QED
    BY <1>6, <2>1, <2>2 DEF Behind
<1>9. LET source  == ViewOf(body)
          to      == ViewOf(mine)
          same    == {Later(m) : m \in Heard(source.talk)}
          seen    == Heard(to.talk) IN
      /\ to.gone = source.gone /\ to.run = source.run
      /\ \A i, j \in HeardIn(to.talk) : i < j => to.talk[i].number < to.talk[j].number
      /\ (\A k \in DOMAIN body : body[k].kind \notin {"compaction", "reverted"}) =>
           /\ to.talk = [k \in DOMAIN source.talk |-> Later(source.talk[k])]
           /\ to.broken = source.broken
      /\ (\A k \in DOMAIN body : body[k].kind \notin {"edited", "removed"}) =>
           /\ \A m \in same \ seen : \E k \in DOMAIN body : body[k].kind = "reverted" /\ body[k].arg = m.number - 1
           /\ \A m \in seen \ same : \E k \in DOMAIN body : body[k].kind = "compaction" /\ body[k].arg = m.number
  BY <1>2, <1>4, <1>6, <1>8, ForkShows, Zenon DEF n
<1> QED
  BY <1>9, Zenon DEF r, body, fork, mine, n

(***************************************************************************)
(* A deleted session is never shown again, a request that marks the run is *)
(* answered with its mark or a later one, an import carries every message  *)
(* over once and in order, and a fork shows what its source showed: for    *)
(* any sessions and requests, any limit of a read, and events of any       *)
(* number.                                                                 *)
(***************************************************************************)
THEOREM RoutesAreTrue ==
  RoutesSpec => [](RoutesTypeOK /\ GoneStaysGone /\ MarkIsAnswered /\ ImportCarriesTalk /\ ForkShowsSource)
<1>1. RoutesInit => RoutesInv
  BY RoutesStart
<1>2. RoutesInv /\ [RoutesNext]_routeVars => RoutesInv'
  BY RoutesStep
<1>3. RoutesInv => RoutesTypeOK /\ GoneStaysGone /\ MarkIsAnswered /\ ImportCarriesTalk /\ ForkShowsSource
  BY RoutesTyped, GoneForGood, MarksAnswered, ImportsCarry, ForksShow
<1> QED
  BY <1>1, <1>2, <1>3, PTL DEF RoutesSpec

-----------------------------------------------------------------------------
(***************************************************************************)
(* The components side by side.                                            *)
(***************************************************************************)
\* Every behaviour of the composition is one of each component.
LEMMA EachRuns ==
  Spec => /\ PermSpec /\ JobSpec /\ SyncSpec /\ StreamSpec /\ AgentSpec
          /\ BrowserSpec /\ RpcSpec /\ OAuthSpec /\ TermSpec
          /\ BridgeSpec /\ SlotSpec /\ InputSpec
          /\ TableSpec /\ RecordSpec /\ MigrationSpec /\ OutputSpec
          /\ ConfigSpec /\ ToolSpec /\ PluginSpec /\ EpochSpec
          /\ RoutesSpec /\ PlainSpec /\ GuardSpec /\ TurnSpec /\ WireSpec
<1>1. Init => /\ PermInit /\ JobInit /\ SyncInit /\ StreamInit /\ AgentInit
              /\ BrowserInit /\ RpcInit /\ OAuthInit /\ TermInit
              /\ BridgeInit /\ SlotInit /\ InputInit
              /\ TableInit /\ RecordInit /\ MigrationInit /\ OutputInit
              /\ ConfigInit /\ ToolInit /\ PluginInit /\ EpochInit
              /\ RoutesInit /\ PlainInit /\ GuardInit /\ TurnInit /\ WireInit
  BY DEF Init
<1>2. [Next]_vars =>
        /\ [PermNext]_permVars /\ [JobNext]_jobVars /\ [SyncNext]_syncVars /\ [StreamNext]_streamVars
        /\ [AgentNext]_agentVars
        /\ [BrowserNext]_browserVars /\ [ClientNext \/ ManagerNext]_rpcVars
        /\ [OAuthNext]_oauthVars /\ [TermNext]_termVars
        /\ [BridgeNext]_bridgeVars /\ [SlotNext]_slotVars /\ [InputNext \/ RunnerNext]_inputVars
        /\ [TableNext]_tableVars /\ [RecordNext]_recordVars /\ [MigrationNext]_migrationVars
        /\ [OutputNext]_outputVars /\ [ConfigNext]_configVars /\ [ToolNext \/ MentionNext]_toolVars
        /\ [PluginNext]_pluginVars /\ [EpochNext]_epochVars
        /\ [RoutesNext]_routeVars /\ [PlainNext]_plainVars /\ [GuardNext]_guardVars
        /\ [TurnNext]_turnVars /\ [WireNext]_wireVars
  <2>1. CASE Next
    BY <2>1 DEF Next, Rests
  <2>2. CASE UNCHANGED vars
    BY <2>2 DEF vars
  <2> QED
    BY <2>1, <2>2
<1> QED
  BY <1>1, <1>2, PTL DEF Spec, PermSpec, JobSpec, SyncSpec, StreamSpec, AgentSpec, BrowserSpec, RpcSpec, OAuthSpec, TermSpec,
                         BridgeSpec, SlotSpec, InputSpec, TableSpec, RecordSpec, MigrationSpec, OutputSpec,
                         ConfigSpec, ToolSpec, PluginSpec, EpochSpec, RoutesSpec, PlainSpec, GuardSpec, TurnSpec, WireSpec

(***************************************************************************)
(* The last reply of the user is in force and who waits for one is listed, *)
(* for any number of sessions, questions and rules.                        *)
(***************************************************************************)
THEOREM RepliesAlwaysDecide == Spec => []RepliesDecide
<1>1. LastReplyDecides /\ WaitersAreListed => RepliesDecide
  BY DEF RepliesDecide
<1> QED
  BY <1>1, EachRuns, PermissionsHold, PTL

(***************************************************************************)
(* Answers reach those who asked, and each is asked for once, for any      *)
(* number of calls, terminals, clients, tokens and launches.               *)
(***************************************************************************)
THEOREM AnswersAlwaysReach == Spec => []AnswersReachAskers
<1>1. /\ OneBrowser /\ AnswersMatch /\ WaitersAreHeard /\ RefreshedOnce /\ OneAsks
      => AnswersReachAskers
  BY DEF AnswersReachAskers
<1> QED
  BY <1>1, EachRuns, OneBrowserRuns, TerminalsHold, WaitersHold, TokensHold, PTL

(***************************************************************************)
(* The queues keep their order and what is held is given back, for any     *)
(* number of inputs, endpoints, clients, sessions, events and slots, and   *)
(* one worker of the inbox.                                                *)
(***************************************************************************)
THEOREM QueuesAlwaysKeepOrder == ASSUME OneWorker PROVE Spec => []QueuesKeepOrder
<1>1. /\ InboxInStep /\ SteersFirst /\ HeardInOrder /\ SlotsAreServed /\ NothingStaysHeld
      => QueuesKeepOrder
  BY DEF QueuesKeepOrder
<1> QED
  BY <1>1, EachRuns, InboxKeepsStep, SteersGoFirst, ClientsHearInOrder, SlotsGivenBack, PTL

(***************************************************************************)
(* Events are copied once and jobs end once, for stores, pages and queues  *)
(* of any size.                                                            *)
(***************************************************************************)
THEOREM WorkIsAlwaysDoneOnce == Spec => []WorkIsDoneOnce
<1>1. OneWayCopies /\ JobsSettleOnce => WorkIsDoneOnce
  BY DEF WorkIsDoneOnce
<1> QED
  BY <1>1, EachRuns, SyncHoldsAlways, JobsHold, PTL

(***************************************************************************)
(* Every turn of the agent is kept, in each of the loops, for any number   *)
(* of rounds and calls.                                                    *)
(***************************************************************************)
THEOREM TurnsAreAlwaysKept == Spec => []TurnsAreKept
<1>1. CallsAnswered /\ TextKept /\ RunIsMarked /\ ResultsReported => TurnsAreKept
  BY DEF TurnsAreKept
<1> QED
  BY <1>1, EachRuns, TurnsHold, PTL

(***************************************************************************)
(* The streams of the model are whole, for any number of calls and chunks. *)
(***************************************************************************)
THEOREM StreamsAreAlwaysWhole == Spec => []StreamsAreWhole
<1>1. CallsEndOnce /\ FinishIsComplete => StreamsAreWhole
  BY DEF StreamsAreWhole
<1> QED
  BY <1>1, EachRuns, StreamsHold, PTL

(***************************************************************************)
(* Tables and files hold what the events, the requests and schema_version  *)
(* say, and a compaction event has its epoch, for any number of events,    *)
(* rows, calls, versions, outputs and sources.                             *)
(***************************************************************************)
THEOREM TablesAreAlwaysTrue == Spec => []TablesAreTrue
<1>1. /\ TableFollowsLog /\ AckedIsStored /\ MarkedIsApplied /\ ServesLatest
      /\ FilesHoldOutputs /\ SessionsAreApart /\ CompactionsHaveEpochs
      => TablesAreTrue
  BY DEF TablesAreTrue
<1> QED
  BY <1>1, EachRuns, TableHolds, RecordsHold, MigrationsHold, OutputsHold, EpochsHold, PTL

(***************************************************************************)
(* What was set up is in force, for any number of tools, rules, fields,    *)
(* requests and plugins.                                                   *)
(***************************************************************************)
THEOREM SettingsAreAlwaysInForce == Spec => []SettingsAreInForce
<1>1. CallsObeyRules /\ RegistriesAgree /\ SavedAsAsked /\ ActiveIsServed => SettingsAreInForce
  BY DEF SettingsAreInForce
<1> QED
  BY <1>1, EachRuns, ToolsHold, SavesHold, PluginsHold, PTL

(***************************************************************************)
(* A turn is told of the first change of its sources, and gets the         *)
(* baseline only when nothing differs.                                     *)
(***************************************************************************)
THEOREM TurnsAlwaysHear == Spec => TurnsSeeChanges
  BY EachRuns, TurnsHear, PTL

(***************************************************************************)
(* The endpoints of sessions answer with what the events say, a plain chat *)
(* keeps what it answered, and the limit of chats is exact, for any number *)
(* of sessions, requests, rounds, hosts and events, and any limit of a     *)
(* read and of chats.                                                      *)
(***************************************************************************)
THEOREM RoutesAlwaysAnswer == Spec => []RoutesAnswerTruly
<1>1. /\ GoneStaysGone /\ MarkIsAnswered /\ ImportCarriesTalk /\ ForkShowsSource
      /\ AnswersAreKept /\ UserTitleKept /\ WindowIsExact
      => RoutesAnswerTruly
  BY DEF RoutesAnswerTruly
<1> QED
  BY <1>1, EachRuns, RoutesAreTrue, PlainChatsKept, WindowStaysExact, PTL

(***************************************************************************)
(* What the components compute of sequences is what is said of the whole,  *)
(* for any layers and fields, talks and files, texts, messages and limits. *)
(***************************************************************************)
THEOREM ComputationsAreAlwaysExact == Spec => []ComputationsAreExact
<1>1. /\ HighestLayerWins /\ TailIsKept /\ FilesFit /\ MentionsInPlace
      /\ PartsReachModel /\ ResultsAnswerCalls /\ PreviewFits
      => ComputationsAreExact
  BY DEF ComputationsAreExact
<1> QED
  BY <1>1, EachRuns, LayersHold, TurnsFit, MentionsHold, WireReachesModel, PreviewsHold, PTL
=============================================================================
