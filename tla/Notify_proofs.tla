---------------------------- MODULE Notify_proofs ----------------------------
(***************************************************************************)
(* What notify keeps true of the tracker, for any owners and findings, any  *)
(* number of issues, scans, faults and acts of people.                      *)
(***************************************************************************)
EXTENDS Notify, SequenceTheorems, WellFoundedInduction, TLAPS

-----------------------------------------------------------------------------
(* What a run knows. *)

AtWork == {"owner", "call", "done"}
\* The number of issues when a run listed them.
Base(r) == IF r.listing = <<>> THEN 0 ELSE r.listing[1].number

\* A listing has the newest issues of its time, and no mark has changed since.
ListingFits(r, tracker) ==
    /\ Base(r) <= Len(tracker)
    /\ Len(r.listing) <= Base(r)
    /\ Len(r.listing) = Base(r) \/ Len(r.listing) >= Listed
    /\ \A k \in DOMAIN r.listing :
         /\ r.listing[k].number = Base(r) + 1 - k
         /\ r.listing[k].mark = tracker[r.listing[k].number].mark
ListingKept == \A n \in Notifiers : run[n].pc \in AtWork => ListingFits(run[n], issues)

\* A call names an issue that bears the mark of the owner in turn, or is a create of its own
\* for an owner without a listed issue.
CallsFit(r, tracker) ==
    /\ r.todo # {}
    /\ \A k \in DOMAIN r.calls :
         IF r.calls[k].verb = "create"
         THEN Len(r.calls) = 1 /\ FoundAt(r.listing, Turn(r.todo)) = {}
         ELSE /\ r.calls[k].number \in DOMAIN tracker
              /\ tracker[r.calls[k].number].mark = Mark[Turn(r.todo)]
CallsKnown == \A n \in Notifiers : run[n].pc = "call" => CallsFit(run[n], issues)

Inv == TypeOK /\ ListingKept /\ CallsKnown

\* A run has opened no issue yet for an owner it is still to do.
Before(r, o) ==
    r.pc = "call" /\ o = Turn(r.todo) => r.calls # <<>> /\ Head(r.calls).verb = "create"
NoneOpened(r, tracker) ==
    \A o \in r.todo : Before(r, o) =>
      \A i \in DOMAIN tracker : i > Base(r) => tracker[i].mark # Mark[o]
NoneOpenedYet == \A n \in Notifiers : run[n].pc \in {"owner", "call"} => NoneOpened(run[n], issues)

-----------------------------------------------------------------------------
(* Lemmas. *)

(***************************************************************************)
(* A set of places in a sequence has an earliest one.                       *)
(***************************************************************************)
LEMMA EarliestIsFirst ==
    ASSUME NEW S, S \subseteq Nat, S # {}
    PROVE  Earliest(S) \in S /\ \A j \in S : Earliest(S) <= j
<1> DEFINE R == OpToRel(<, Nat)
<1>0. IsWellFoundedOn(R, Nat)
  BY NatLessThanWellFounded
<1>1. R = {ss \in Nat \X Nat : ss[1] < ss[2]}
  BY DEF OpToRel
<1> HIDE DEF R
<1>2. PICK x \in S : \A y \in S : ~ (<<y, x>> \in R)
  BY <1>0, WFMin
<1>3. ASSUME NEW y \in S, y < x PROVE FALSE
  <2>1. <<y, x>> \in Nat \X Nat /\ <<y, x>>[1] < <<y, x>>[2]
    BY <1>3
  <2>2. <<y, x>> \in R
    BY <1>1, <2>1
  <2> QED  BY <1>2, <2>2
<1>4. \A y \in S : x <= y
  BY <1>3
<1> QED  BY <1>4 DEF Earliest

(***************************************************************************)
(* The owner in turn is one still to do.                                    *)
(***************************************************************************)
LEMMA TurnIsToDo ==
    ASSUME NEW todo, todo \subseteq Owners, todo # {}
    PROVE  Turn(todo) \in todo
<1>1. Places(todo) # {}
  BY DEF Places, Owners, Range
<1>2. Places(todo) \subseteq Nat
  BY NotifyAssumption DEF Places
<1>3. Earliest(Places(todo)) \in Places(todo)
  BY <1>1, <1>2, EarliestIsFirst
<1> QED  BY <1>3 DEF Turn, Places

(***************************************************************************)
(* The issue found for an owner is a listed one with its mark, the first.   *)
(***************************************************************************)
LEMMA FoundIsListed ==
    ASSUME NEW listing \in Seq(Rows), NEW o, FoundAt(listing, o) # {}
    PROVE  \E k \in FoundAt(listing, o) :
             Found(listing, o) = listing[k] /\ \A j \in FoundAt(listing, o) : k <= j
<1>1. FoundAt(listing, o) \subseteq Nat
  BY DEF FoundAt
<1> QED  BY <1>1, EarliestIsFirst DEF Found

(***************************************************************************)
(* Two sequences of one element each, joined.                               *)
(***************************************************************************)
LEMMA TwoInOne ==
    ASSUME NEW a, NEW b
    PROVE  <<a>> \o <<b>> = <<a, b>>
<1>1. <<a>> \in Seq({a, b}) /\ <<b>> \in Seq({a, b}) /\ <<a, b>> \in Seq({a, b})
  OBVIOUS
<1> DEFINE s == <<a>>
           t == <<b>>
<1>2. /\ s \o t \in Seq({a, b})
      /\ Len(s \o t) = Len(s) + Len(t)
      /\ \A i \in 1 .. Len(s) + Len(t) : (s \o t)[i] = IF i <= Len(s) THEN s[i] ELSE t[i - Len(s)]
  BY <1>1, ConcatProperties
<1>3. Len(s) = 1 /\ Len(t) = 1 /\ s[1] = a /\ t[1] = b
  OBVIOUS
<1> HIDE DEF s, t
<1>4. Len(s \o t) = 2 /\ (s \o t)[1] = a /\ (s \o t)[2] = b
  BY <1>2, <1>3
<1>5. \A i \in 1 .. 2 : (s \o t)[i] = <<a, b>>[i]
  BY <1>4
<1>6. s \o t = <<a, b>>
  BY <1>1, <1>2, <1>4, <1>5, SeqEqual
<1> QED  BY <1>6 DEF s, t

LEMMA SomeCalls ==
    ASSUME NEW a, NEW b
    PROVE  <<a>> # <<>> /\ <<a, b>> # <<>>
OBVIOUS

(***************************************************************************)
(* The calls for an owner, case by case.                                    *)
(***************************************************************************)
Row(verb, number) == [verb |-> verb, number |-> number]

LEMMA CallsAre ==
    ASSUME NEW listing \in Seq(Rows), NEW o, NEW wanted \in BOOLEAN
    PROVE  /\ FoundAt(listing, o) = {} =>
                Calls(listing, o, wanted) = IF wanted THEN <<Row("create", 0)>> ELSE <<>>
           /\ FoundAt(listing, o) # {} =>
                \E k \in FoundAt(listing, o) :
                  /\ \A j \in FoundAt(listing, o) : k <= j
                  /\ LET n == listing[k].number
                         open == listing[k].open
                     IN  Calls(listing, o, wanted) =
                           IF wanted /\ ~open THEN <<Row("reopen", n), Row("update", n)>>
                           ELSE IF wanted THEN <<Row("update", n)>>
                           ELSE IF open THEN <<Row("update", n), Row("close", n)>>
                           ELSE <<>>
<1>1. CASE FoundAt(listing, o) = {}
  BY <1>1 DEF Calls, Row
<1>2. CASE FoundAt(listing, o) # {}
  <2>1. PICK k \in FoundAt(listing, o) :
               Found(listing, o) = listing[k] /\ \A j \in FoundAt(listing, o) : k <= j
    BY <1>2, FoundIsListed
  <2>2. listing[k] \in Rows
    BY DEF FoundAt
  <2> DEFINE n == listing[k].number
             open == listing[k].open
             first == IF wanted /\ ~open THEN <<Row("reopen", n)>> ELSE <<>>
             second == IF wanted \/ open THEN <<Row("update", n)>> ELSE <<>>
             third == IF ~wanted /\ open THEN <<Row("close", n)>> ELSE <<>>
  <2>3. open \in BOOLEAN
    BY <2>2 DEF Rows
  <2>4. Calls(listing, o, wanted) = first \o second \o third
    BY <1>2, <2>1 DEF Calls, Row
  <2> HIDE DEF open, n
  <2>5. first \o second \o third =
          IF wanted /\ ~open THEN <<Row("reopen", n), Row("update", n)>>
          ELSE IF wanted THEN <<Row("update", n)>>
          ELSE IF open THEN <<Row("update", n), Row("close", n)>>
          ELSE <<>>
    <3> DEFINE a == Row("reopen", n)
               b == Row("update", n)
               c == Row("close", n)
    <3>1. CASE wanted /\ ~open
      <4> HIDE DEF a, b
      <4>1. <<a>> \o <<b>> = <<a, b>>
        BY TwoInOne
      <4>2. <<a, b>> \o <<>> = <<a, b>>
        OBVIOUS
      <4> QED  BY <3>1, <4>1, <4>2 DEF a, b
    <3>2. CASE wanted /\ open
      BY <3>2
    <3>3. CASE ~wanted /\ open
      <4> HIDE DEF b, c
      <4>1. <<>> \o <<b>> = <<b>>
        OBVIOUS
      <4>2. <<b>> \o <<c>> = <<b, c>>
        BY TwoInOne
      <4> QED  BY <3>3, <4>1, <4>2 DEF b, c
    <3>4. CASE ~wanted /\ ~open
      BY <3>4
    <3> QED  BY <2>3, <3>1, <3>2, <3>3, <3>4
  <2> HIDE DEF first, second, third
  <2> QED  BY <1>2, <2>1, <2>4, <2>5 DEF open, n
<1> QED  BY <1>1, <1>2

LEMMA CallsName ==
    ASSUME NEW listing \in Seq(Rows), NEW o, NEW wanted \in BOOLEAN
    PROVE  /\ Calls(listing, o, wanted) \in Seq(CallsOfTool)
           /\ \A k \in DOMAIN Calls(listing, o, wanted) :
                LET call == Calls(listing, o, wanted)[k] IN
                IF call.verb = "create"
                THEN Len(Calls(listing, o, wanted)) = 1 /\ FoundAt(listing, o) = {}
                ELSE \E j \in FoundAt(listing, o) : call.number = listing[j].number
<1>1. CASE FoundAt(listing, o) = {}
  <2>1. Calls(listing, o, wanted) = IF wanted THEN <<Row("create", 0)>> ELSE <<>>
    BY <1>1, CallsAre
  <2>2. Row("create", 0) \in CallsOfTool /\ Row("create", 0).verb = "create"
    BY DEF Row, CallsOfTool
  <2>3. CASE wanted
    BY <1>1, <2>1, <2>2, <2>3
  <2>4. CASE ~wanted
    BY <2>1, <2>4
  <2> QED  BY <2>3, <2>4
<1>2. CASE FoundAt(listing, o) # {}
  <2>1. PICK k \in FoundAt(listing, o) :
          LET n == listing[k].number
              open == listing[k].open
          IN  Calls(listing, o, wanted) =
                IF wanted /\ ~open THEN <<Row("reopen", n), Row("update", n)>>
                ELSE IF wanted THEN <<Row("update", n)>>
                ELSE IF open THEN <<Row("update", n), Row("close", n)>>
                ELSE <<>>
    BY <1>2, CallsAre
  <2> DEFINE n == listing[k].number
  <2>9. listing[k] \in Rows
    BY DEF FoundAt
  <2>2. n \in Nat
    BY <2>9 DEF Rows
  <2>3. Row("reopen", n) \in CallsOfTool /\ Row("update", n) \in CallsOfTool /\ Row("close", n) \in CallsOfTool
    BY <2>2 DEF Row, CallsOfTool
  <2>4. \A v \in {"reopen", "update", "close"} : Row(v, n).number = n /\ Row(v, n).verb # "create"
    BY DEF Row
  <2> HIDE DEF n
  <2>5. CASE Calls(listing, o, wanted) = <<>>
    BY <2>5
  <2>6. CASE Calls(listing, o, wanted) = <<Row("update", n)>>
    BY <2>3, <2>4, <2>6 DEF n
  <2>7. CASE Calls(listing, o, wanted) = <<Row("reopen", n), Row("update", n)>>
    BY <2>3, <2>4, <2>7 DEF n
  <2>8. CASE Calls(listing, o, wanted) = <<Row("update", n), Row("close", n)>>
    BY <2>3, <2>4, <2>8 DEF n
  <2> QED  BY <2>1, <2>5, <2>6, <2>7, <2>8 DEF n
<1> QED  BY <1>1, <1>2

-----------------------------------------------------------------------------
(* The first state. *)

LEMMA NoRunIsTyped == NoRun \in Runs /\ NoRun.todo = {} /\ NoRun.pc = "idle"
<1> DEFINE none == [o \in {} |-> {}]
<1>1. none \in [{} -> SUBSET Findings] /\ {} \in SUBSET Owners
  OBVIOUS
<1>2. none = <<>>
  OBVIOUS
<1>3. <<>> \in UNION {[known -> SUBSET Findings] : known \in SUBSET Owners}
  BY <1>1, <1>2
<1>4. <<>> \in Seq(Rows) /\ <<>> \in Seq(CallsOfTool)
  OBVIOUS
<1> QED  BY <1>3, <1>4 DEF NoRun, Runs

LEMMA InitInv == Init => Inv
<1> SUFFICES ASSUME Init PROVE Inv
  OBVIOUS
<1>1. TypeOK
  <2>1. entry \in [Findings -> [status : {"absent", "open", "fixed"}, owner : Owners]]
    BY NotifyAssumption DEF Init, Absent
  <2>2. issues \in Seq(Issues)
    BY DEF Init
  <2>3. run \in [Notifiers -> Runs] /\ \A n \in Notifiers : run[n].todo \subseteq DOMAIN run[n].open
    BY NoRunIsTyped DEF Init
  <2> QED  BY <2>1, <2>2, <2>3 DEF Init, TypeOK
<1>2. \A n \in Notifiers : run[n].pc = "idle"
  BY NoRunIsTyped DEF Init
<1> QED  BY <1>1, <1>2 DEF Inv, ListingKept, CallsKnown, AtWork

-----------------------------------------------------------------------------
(* Calls and the tracker. *)

(***************************************************************************)
(* What a call does to the tracker: a create appends an issue of the owner  *)
(* in turn; any other writes to one issue that has that owner's mark, and   *)
(* leaves the mark.                                                         *)
(***************************************************************************)
Longer(after) ==
    /\ after \in Seq(Issues)
    /\ Len(after) >= Len(issues)
    /\ \A i \in DOMAIN issues : after[i].mark = issues[i].mark

LEMMA AppliedIs ==
    ASSUME Inv, NEW n \in Notifiers, run[n].pc = "call", run[n].calls # <<>>
    PROVE  LET call == Head(run[n].calls)
               o == Turn(run[n].todo)
           IN  /\ o \in run[n].todo /\ o \in Owners
               /\ call \in CallsOfTool
               /\ Longer(Applied(n))
               /\ call.verb = "create" =>
                    Applied(n) = Append(issues, [mark |-> Mark[o], open |-> TRUE, lists |-> run[n].open[o]])
               /\ call.verb # "create" =>
                    /\ call.number \in DOMAIN issues /\ issues[call.number].mark = Mark[o]
                    /\ Len(Applied(n)) = Len(issues)
                    /\ \A i \in DOMAIN issues : i # call.number => Applied(n)[i] = issues[i]
<1> DEFINE call == Head(run[n].calls)
           o == Turn(run[n].todo)
           body == run[n].open[o]
<1>1. /\ run[n] \in Runs /\ issues \in Seq(Issues) /\ run[n].todo \subseteq DOMAIN run[n].open
  BY DEF Inv, TypeOK
<1>2. run[n].todo # {} /\ run[n].todo \subseteq Owners
  BY <1>1 DEF Inv, CallsKnown, CallsFit, Runs
<1>3. o \in run[n].todo /\ o \in Owners
  BY <1>2, TurnIsToDo
<1>4. call \in CallsOfTool /\ call = run[n].calls[1] /\ 1 \in DOMAIN run[n].calls
  BY <1>1 DEF Runs
<1>5. call.verb # "create" => call.number \in DOMAIN issues /\ issues[call.number].mark = Mark[o]
  BY <1>4 DEF Inv, CallsKnown, CallsFit
<1>6. body \in SUBSET Findings
  BY <1>1, <1>3 DEF Runs
<1>7. Mark[o] \in Marks
  BY <1>3 DEF Marks
<1>8. CASE call.verb = "create"
  <2>1. Applied(n) = Append(issues, [mark |-> Mark[o], open |-> TRUE, lists |-> body])
    BY <1>8 DEF Applied
  <2>2. [mark |-> Mark[o], open |-> TRUE, lists |-> body] \in Issues
    BY <1>6, <1>7 DEF Issues
  <2>3. Longer(Applied(n))
    BY <1>1, <2>1, <2>2 DEF Longer
  <2> QED  BY <1>3, <1>4, <1>8, <2>1, <2>3
<1>9. CASE call.verb = "update"
  <2>1. Applied(n) = [issues EXCEPT ![call.number].mark = Mark[o], ![call.number].lists = body]
    BY <1>9 DEF Applied
  <2>2. issues[call.number] \in Issues
    BY <1>1, <1>5, <1>9
  <2> DEFINE rewritten == [issues[call.number] EXCEPT !.mark = Mark[o], !.lists = body]
  <2>3. rewritten \in Issues /\ rewritten.mark = Mark[o]
    BY <1>6, <1>7, <2>2 DEF Issues
  <2>4. call.number \in DOMAIN issues
    BY <1>5, <1>9
  <2>5. Applied(n) = [issues EXCEPT ![call.number] = rewritten]
    BY <1>1, <2>1, <2>2, <2>4 DEF Issues
  <2> HIDE DEF rewritten, call, o, body
  <2>6. Applied(n) \in Seq(Issues) /\ Len(Applied(n)) = Len(issues)
    BY <1>1, <2>3, <2>4, <2>5
  <2>7. \A i \in DOMAIN issues : i # call.number => Applied(n)[i] = issues[i]
    BY <1>1, <2>5
  <2>8. Applied(n)[call.number].mark = Mark[o]
    BY <1>1, <2>3, <2>4, <2>5
  <2> USE DEF call, o, body
  <2>9. Longer(Applied(n))
    BY <1>1, <1>5, <1>9, <2>6, <2>7, <2>8 DEF Longer
  <2> QED  BY <1>3, <1>4, <1>5, <1>9, <2>6, <2>7, <2>9
<1>10. CASE call.verb \in {"reopen", "close"}
  <2>1. Applied(n) = [issues EXCEPT ![call.number].open = (call.verb = "reopen")]
    BY <1>10 DEF Applied
  <2>2. issues[call.number] \in Issues
    BY <1>1, <1>5, <1>10
  <2> DEFINE changed == [issues[call.number] EXCEPT !.open = (call.verb = "reopen")]
  <2>7. (call.verb = "reopen") \in BOOLEAN
    OBVIOUS
  <2>8. changed \in Issues
    BY <2>2, <2>7 DEF Issues
  <2>9. Applied(n) = [issues EXCEPT ![call.number] = changed]
    BY <2>1
  <2> HIDE DEF changed
  <2>3. Applied(n) \in Seq(Issues) /\ Len(Applied(n)) = Len(issues)
    BY <1>1, <1>5, <1>10, <2>8, <2>9
  <2>4. \A i \in DOMAIN issues : i # call.number => Applied(n)[i] = issues[i]
    BY <1>1, <1>5, <1>10, <2>1
  <2>5. Applied(n)[call.number].mark = issues[call.number].mark
    BY <1>1, <1>5, <1>10, <2>1, <2>2 DEF Issues
  <2>6. Longer(Applied(n))
    BY <1>1, <1>5, <1>10, <2>3, <2>4, <2>5 DEF Longer
  <2> QED  BY <1>3, <1>4, <1>5, <1>10, <2>3, <2>4, <2>6
<1> QED  BY <1>4, <1>8, <1>9, <1>10 DEF CallsOfTool

(***************************************************************************)
(* What a run knows stays true when the tracker keeps its marks, and a new  *)
(* listing is true.                                                         *)
(***************************************************************************)
LEMMA ListingStays ==
    ASSUME NEW r \in Runs, NEW q, NEW after, issues \in Seq(Issues), Longer(after),
           ListingFits(r, issues), q.listing = r.listing
    PROVE  ListingFits(q, after)
<1>1. Base(q) = Base(r)
  BY DEF Base
<1>2. r.listing \in Seq(Rows)
  BY DEF Runs
<1>3. Base(r) \in Nat
  <2>1. CASE r.listing = <<>>
    BY <2>1 DEF Base
  <2>2. CASE r.listing # <<>>
    <3>1. r.listing[1] \in Rows
      BY <1>2, <2>2
    <3> QED  BY <2>2, <3>1 DEF Base, Rows
  <2> QED  BY <2>1, <2>2
<1>4. \A k \in DOMAIN r.listing : r.listing[k].number \in DOMAIN issues
  BY <1>2, <1>3 DEF ListingFits
<1>5. Len(issues) \in Nat /\ Len(after) \in Nat /\ Len(issues) <= Len(after)
  BY DEF Longer
<1>6. \A k \in DOMAIN r.listing : after[r.listing[k].number].mark = issues[r.listing[k].number].mark
  BY <1>4 DEF Longer
<1>7. Base(q) <= Len(after)
  BY <1>1, <1>3, <1>5 DEF ListingFits
<1> QED  BY <1>1, <1>6, <1>7 DEF ListingFits

LEMMA CallsStay ==
    ASSUME NEW r \in Runs, NEW q, NEW after, issues \in Seq(Issues), Longer(after),
           CallsFit(r, issues), q.listing = r.listing, q.todo = r.todo,
           q.calls = r.calls \/ (r.calls # <<>> /\ q.calls = Tail(r.calls)) \/ q.calls = <<>>
    PROVE  CallsFit(q, after)
<1>1. r.calls \in Seq(CallsOfTool)
  BY DEF Runs
<1>2. /\ Len(q.calls) <= Len(r.calls)
      /\ \A k \in DOMAIN q.calls : \E j \in DOMAIN r.calls : q.calls[k] = r.calls[j]
  <2>1. CASE q.calls = r.calls
    BY <1>1, <2>1
  <2>2. CASE r.calls # <<>> /\ q.calls = Tail(r.calls)
    <3>1. /\ Tail(r.calls) \in Seq(CallsOfTool) /\ Len(Tail(r.calls)) = Len(r.calls) - 1
          /\ \A i \in 1 .. Len(Tail(r.calls)) : Tail(r.calls)[i] = r.calls[i + 1]
      BY <1>1, <2>2, HeadTailProperties
    <3> QED  BY <1>1, <2>2, <3>1
  <2>3. CASE q.calls = <<>>
    BY <1>1, <2>3
  <2> QED  BY <2>1, <2>2, <2>3
<1>3. q.calls \in Seq(CallsOfTool)
  <2>1. r.calls # <<>> => Tail(r.calls) \in Seq(CallsOfTool)
    BY <1>1, HeadTailProperties
  <2>2. <<>> \in Seq(CallsOfTool)
    OBVIOUS
  <2> QED  BY <1>1, <2>1, <2>2
<1>4. DOMAIN issues \subseteq DOMAIN after
  BY DEF Longer
<1>5. ASSUME NEW k \in DOMAIN q.calls
      PROVE  IF q.calls[k].verb = "create"
             THEN Len(q.calls) = 1 /\ FoundAt(q.listing, Turn(q.todo)) = {}
             ELSE /\ q.calls[k].number \in DOMAIN after
                  /\ after[q.calls[k].number].mark = Mark[Turn(q.todo)]
  <2>1. PICK j \in DOMAIN r.calls : q.calls[k] = r.calls[j]
    BY <1>2
  <2>2. Len(q.calls) # 0
    BY <1>3
  <2>3. Len(q.calls) \in Nat /\ Len(r.calls) \in Nat /\ Len(q.calls) <= Len(r.calls)
    BY <1>1, <1>2, <1>3
  <2>4. CASE q.calls[k].verb = "create"
    <3>1. Len(r.calls) = 1 /\ FoundAt(r.listing, Turn(r.todo)) = {}
      BY <2>1, <2>4 DEF CallsFit
    <3>2. Len(q.calls) = 1
      <4> DEFINE x == Len(q.calls)
                 y == Len(r.calls)
      <4>1. x \in Nat /\ x # 0 /\ x <= y /\ y = 1
        BY <2>2, <2>3, <3>1
      <4> HIDE DEF x, y
      <4>2. x = 1
        BY <4>1
      <4> QED  BY <4>2 DEF x
    <3>3. FoundAt(q.listing, Turn(q.todo)) = {}
      BY <3>1
    <3> QED  BY <2>4, <3>2, <3>3
  <2>5. CASE q.calls[k].verb # "create"
    <3>1. r.calls[j].number \in DOMAIN issues /\ issues[r.calls[j].number].mark = Mark[Turn(r.todo)]
      BY <2>1, <2>5 DEF CallsFit
    <3> QED  BY <1>4, <2>1, <2>5, <3>1 DEF Longer
  <2> QED  BY <2>4, <2>5
<1> QED  BY <1>5 DEF CallsFit

LEMMA ListingIsNewest ==
    ASSUME issues \in Seq(Issues), NEW q, q.listing = Listing
    PROVE  ListingFits(q, issues) /\ Listing \in Seq(Rows) /\ Base(q) = Len(issues)
<1> DEFINE oldest == IF Len(issues) > Listed THEN Len(issues) - Listed + 1 ELSE 1
           many == Len(issues) + 1 - oldest
<1>1. /\ Len(issues) \in Nat /\ Listed \in Nat /\ Listed > 0 /\ many \in Nat /\ many <= Len(issues)
      /\ many = Len(issues) \/ many >= Listed
  BY NotifyAssumption
<1>2. /\ DOMAIN Listing = 1 .. many
      /\ \A i \in 1 .. many :
           Listing[i] = [number |-> Len(issues) + 1 - i, mark |-> issues[Len(issues) + 1 - i].mark,
                         open |-> issues[Len(issues) + 1 - i].open]
  BY DEF Listing
<1>3. \A i \in 1 .. many : Len(issues) + 1 - i \in DOMAIN issues
  BY <1>1
<1>4. ASSUME NEW i \in 1 .. many PROVE Listing[i] \in Rows
  <2>1. issues[Len(issues) + 1 - i] \in Issues
    BY <1>3
  <2>2. issues[Len(issues) + 1 - i].mark \in Marks /\ issues[Len(issues) + 1 - i].open \in BOOLEAN
    BY <2>1 DEF Issues
  <2>3. Len(issues) + 1 - i \in Nat
    BY <1>1
  <2>4. Listing[i] = [number |-> Len(issues) + 1 - i, mark |-> issues[Len(issues) + 1 - i].mark,
                      open |-> issues[Len(issues) + 1 - i].open]
    BY <1>2
  <2> HIDE DEF many, oldest
  <2> QED  BY <2>2, <2>3, <2>4 DEF Rows
<1>5. Listing \in Seq(Rows) /\ Len(Listing) = many
  BY <1>1, <1>2, <1>4, SeqDef DEF Listing
<1>6. Base(q) = Len(issues)
  <2>1. CASE many = 0
    BY <1>1, <1>5, <2>1, NotifyAssumption DEF Base
  <2>2. CASE many # 0
    BY <1>1, <1>2, <1>5, <2>2 DEF Base
  <2> QED  BY <2>1, <2>2
<1>7. ListingFits(q, issues)
  <2> HIDE DEF many, oldest
  <2>1. Base(q) <= Len(issues) /\ Len(Listing) <= Base(q) /\ (Len(Listing) = Base(q) \/ Len(Listing) >= Listed)
    BY <1>1, <1>5, <1>6
  <2>2. DOMAIN Listing = 1 .. many
    BY <1>2
  <2>3. \A k \in 1 .. many :
          /\ Listing[k].number = Len(issues) + 1 - k
          /\ Listing[k].mark = issues[Len(issues) + 1 - k].mark
    BY <1>2
  <2> QED  BY <1>6, <2>1, <2>2, <2>3 DEF ListingFits
<1> QED  BY <1>5, <1>6, <1>7

-----------------------------------------------------------------------------
(* Every step keeps the invariant. *)

(***************************************************************************)
(* It is enough that marks stay, and that what a run knows is what it knew  *)
(* or fits the new tracker.                                                 *)
(***************************************************************************)
LEMMA InvStays ==
    ASSUME Inv, TypeOK', Longer(issues'),
           \A n \in Notifiers : run'[n].pc \in AtWork =>
             \/ run[n].pc \in AtWork /\ run'[n].listing = run[n].listing
             \/ ListingFits(run'[n], issues'),
           \A n \in Notifiers : run'[n].pc = "call" =>
             \/ /\ run[n].pc = "call"
                /\ run'[n].listing = run[n].listing /\ run'[n].todo = run[n].todo
                /\ \/ run'[n].calls = run[n].calls
                   \/ run[n].calls # <<>> /\ run'[n].calls = Tail(run[n].calls)
                   \/ run'[n].calls = <<>>
             \/ CallsFit(run'[n], issues')
    PROVE  Inv'
<1>1. issues \in Seq(Issues) /\ \A n \in Notifiers : run[n] \in Runs
  BY DEF Inv, TypeOK
<1>2. ASSUME NEW n \in Notifiers, run'[n].pc \in AtWork PROVE ListingFits(run'[n], issues')
  <2>1. CASE run[n].pc \in AtWork /\ run'[n].listing = run[n].listing
    <3>1. ListingFits(run[n], issues)
      BY <2>1 DEF Inv, ListingKept
    <3> QED  BY <1>1, <2>1, <3>1, ListingStays
  <2> QED  BY <1>2, <2>1
<1>3. ASSUME NEW n \in Notifiers, run'[n].pc = "call" PROVE CallsFit(run'[n], issues')
  <2>1. CASE /\ run[n].pc = "call"
             /\ run'[n].listing = run[n].listing /\ run'[n].todo = run[n].todo
             /\ \/ run'[n].calls = run[n].calls
                \/ run[n].calls # <<>> /\ run'[n].calls = Tail(run[n].calls)
                \/ run'[n].calls = <<>>
    <3>1. CallsFit(run[n], issues)
      BY <2>1 DEF Inv, CallsKnown
    <3> QED  BY <1>1, <2>1, <3>1, CallsStay
  <2> QED  BY <1>3, <2>1
<1>4. ListingKept' /\ CallsKnown'
  BY <1>2, <1>3, Zenon DEF ListingKept, CallsKnown
<1> QED  BY <1>4 DEF Inv

LEMMA SameIsLonger ==
    ASSUME Inv, issues' = issues
    PROVE  Longer(issues')
BY DEF Inv, TypeOK, Longer

(***************************************************************************)
(* The actions, one lemma each where there is something to say.             *)
(***************************************************************************)
LEMMA RecordInv ==
    ASSUME Inv, NEW present \in SUBSET Findings, NEW read \in SUBSET Repos, Record(present, read)
    PROVE  Inv'
<1>1. entry' \in [Findings -> [status : {"absent", "open", "fixed"}, owner : Owners]]
  <2>1. ASSUME NEW f \in Findings
        PROVE  Folded(f, present, read) \in [status : {"absent", "open", "fixed"}, owner : Owners]
    <3>1. entry[f] \in [status : {"absent", "open", "fixed"}, owner : Owners]
      BY DEF Inv, TypeOK
    <3>2. owned[RepoOf[f]] \in Owners
      BY DEF Inv, TypeOK, Repos
    <3> QED  BY <3>1, <3>2 DEF Folded
  <2> QED  BY <2>1 DEF Record
<1>2. TypeOK'
  BY <1>1 DEF Inv, TypeOK, Record
<1>3. Longer(issues')
  BY SameIsLonger DEF Record
<1> QED  BY <1>2, <1>3, InvStays DEF Record

LEMMA StartInv ==
    ASSUME Inv, NEW n \in Notifiers, Start(n)
    PROVE  Inv'
<1>1. Known \subseteq Owners
  BY DEF Known, Inv, TypeOK
<1> DEFINE open == [o \in Known |-> OpenOf(o)]
<1>2. open \in [Known -> SUBSET Findings]
  BY DEF OpenOf
<1>3. run[n] \in Runs /\ run \in [Notifiers -> Runs]
  BY DEF Inv, TypeOK
<1>4. /\ run' = [run EXCEPT ![n].pc = "list", ![n].todo = Known, ![n].open = open]
      /\ UNCHANGED <<entry, owned, issues, scans, faults, people>>
  BY DEF Start
<1> HIDE DEF open
<1>5. open \in UNION {[known -> SUBSET Findings] : known \in SUBSET Owners} /\ DOMAIN open = Known
  BY <1>1, <1>2
<1> DEFINE q == [run[n] EXCEPT !.pc = "list", !.todo = Known, !.open = open]
<1>6. q \in Runs /\ q.todo \subseteq DOMAIN q.open /\ q.pc = "list"
  BY <1>1, <1>3, <1>5 DEF Runs
<1>7. run' = [run EXCEPT ![n] = q]
  BY <1>3, <1>4
<1> HIDE DEF q
<1>8. run' \in [Notifiers -> Runs] /\ \A m \in Notifiers : run'[m].todo \subseteq DOMAIN run'[m].open
  BY <1>3, <1>6, <1>7 DEF Inv, TypeOK
<1>9. TypeOK'
  BY <1>4, <1>8 DEF Inv, TypeOK
<1>10. Longer(issues')
  BY <1>4, SameIsLonger
<1>11. \A m \in Notifiers : m # n => run'[m] = run[m]
  BY <1>3, <1>7
<1>12. run'[n].pc \notin AtWork
  BY <1>3, <1>6, <1>7 DEF AtWork
<1> QED  BY <1>9, <1>10, <1>11, <1>12, InvStays DEF AtWork

(***************************************************************************)
(* A run's own step, with nothing written.                                  *)
(***************************************************************************)
LEMMA RunStepInv ==
    ASSUME Inv, NEW n \in Notifiers, NEW q \in Runs, run' = [run EXCEPT ![n] = q],
           q.todo \subseteq DOMAIN q.open, issues' = issues,
           UNCHANGED <<entry, owned, scans, people>>, faults' \in Nat,
           q.pc \in AtWork => ListingFits(q, issues),
           q.pc = "call" => CallsFit(q, issues)
    PROVE  Inv'
<1>1. run \in [Notifiers -> Runs]
  BY DEF Inv, TypeOK
<1>2. run'[n] = q /\ \A m \in Notifiers : m # n => run'[m] = run[m]
  BY <1>1
<1>3. run' \in [Notifiers -> Runs] /\ \A m \in Notifiers : run'[m].todo \subseteq DOMAIN run'[m].open
  BY <1>1, <1>2 DEF Inv, TypeOK
<1>4. TypeOK'
  BY <1>3 DEF Inv, TypeOK
<1>5. Longer(issues')
  BY SameIsLonger
<1>6. \A m \in Notifiers : run'[m].pc \in AtWork =>
        \/ run[m].pc \in AtWork /\ run'[m].listing = run[m].listing
        \/ ListingFits(run'[m], issues')
  BY <1>2
<1>7. \A m \in Notifiers : run'[m].pc = "call" =>
        \/ run'[m] = run[m]
        \/ CallsFit(run'[m], issues')
  BY <1>2
<1> QED  BY <1>4, <1>5, <1>6, <1>7, InvStays

LEMMA ListIssuesInv ==
    ASSUME Inv, NEW n \in Notifiers, ListIssues(n)
    PROVE  Inv'
<1> DEFINE q == [run[n] EXCEPT !.pc = "owner", !.listing = Listing]
<1>1. run[n] \in Runs /\ issues \in Seq(Issues) /\ run[n].todo \subseteq DOMAIN run[n].open
  BY DEF Inv, TypeOK
<1>2. q.listing = Listing
  BY <1>1 DEF Runs
<1>3. ListingFits(q, issues) /\ Listing \in Seq(Rows)
  BY <1>1, <1>2, ListingIsNewest
<1>4. q \in Runs /\ q.pc = "owner" /\ q.todo \subseteq DOMAIN q.open
  BY <1>1, <1>3 DEF Runs
<1>5. run' = [run EXCEPT ![n] = q] /\ UNCHANGED <<entry, owned, issues, scans, faults, people>>
  BY DEF ListIssues
<1>6. faults' \in Nat
  BY <1>5 DEF Inv, TypeOK
<1> HIDE DEF q
<1> QED  BY <1>3, <1>4, <1>5, <1>6, RunStepInv

LEMMA NextOwnerInv ==
    ASSUME Inv, NEW n \in Notifiers, NextOwner(n)
    PROVE  Inv'
<1> DEFINE r == run[n]
           o == Turn(r.todo)
           wanted == r.open[o] # {}
           calls == Calls(r.listing, o, wanted)
           q == [r EXCEPT !.pc = "call", !.calls = calls]
<1>1. r \in Runs /\ issues \in Seq(Issues) /\ r.todo \subseteq DOMAIN r.open
  BY DEF Inv, TypeOK
<1>2. r.pc = "owner" /\ r.todo # {} /\ r.todo \subseteq Owners /\ r.listing \in Seq(Rows)
  BY <1>1 DEF NextOwner, Runs
<1>3. o \in r.todo
  BY <1>2, TurnIsToDo
<1>4. ListingFits(r, issues)
  BY <1>2 DEF Inv, ListingKept, AtWork
<1>5. wanted \in BOOLEAN
  OBVIOUS
<1> HIDE DEF wanted
<1>6. /\ calls \in Seq(CallsOfTool)
      /\ \A k \in DOMAIN calls :
           IF calls[k].verb = "create"
           THEN Len(calls) = 1 /\ FoundAt(r.listing, o) = {}
           ELSE \E j \in FoundAt(r.listing, o) : calls[k].number = r.listing[j].number
  BY <1>2, <1>5, CallsName
<1> HIDE DEF calls
<1>7. /\ q \in Runs /\ q.pc = "call" /\ q.todo = r.todo /\ q.listing = r.listing /\ q.calls = calls
      /\ q.todo \subseteq DOMAIN q.open
  BY <1>1, <1>6 DEF Runs
<1>8. run' = [run EXCEPT ![n] = q] /\ UNCHANGED <<entry, owned, issues, scans, faults, people>>
  BY DEF NextOwner, calls, wanted
<1>9. faults' \in Nat
  BY <1>8 DEF Inv, TypeOK
<1> HIDE DEF q
<1>10. ASSUME NEW j \in FoundAt(r.listing, o)
       PROVE  r.listing[j].number \in DOMAIN issues /\ issues[r.listing[j].number].mark = Mark[o]
  <2>1. j \in DOMAIN r.listing /\ r.listing[j].mark = Mark[o]
    BY DEF FoundAt
  <2>2. r.listing[j] \in Rows /\ r.listing[1] \in Rows /\ r.listing # <<>>
    BY <1>2, <2>1
  <2>3. Base(r) \in Nat
    BY <2>2 DEF Base, Rows
  <2>4. j \in 1 .. Len(r.listing) /\ Len(r.listing) \in Nat /\ Len(issues) \in Nat
    BY <1>1, <1>2, <2>1
  <2>5. r.listing[j].number \in 1 .. Len(issues)
    BY <1>4, <2>1, <2>3, <2>4 DEF ListingFits
  <2> QED  BY <1>1, <1>4, <2>1, <2>5 DEF ListingFits
<1>11. CallsFit(q, issues)
  BY <1>2, <1>6, <1>7, <1>10 DEF CallsFit
<1>12. ListingFits(q, issues)
  BY <1>4, <1>7 DEF ListingFits, Base
<1> QED  BY <1>7, <1>8, <1>9, <1>11, <1>12, RunStepInv

(***************************************************************************)
(* A step in which somebody writes to the tracker: what `n` does with its   *)
(* calls, if `n` is a run, and the others overtaken.                        *)
(***************************************************************************)
LEMMA OvertakenIs ==
    ASSUME NEW r \in Runs
    PROVE  /\ Overtaken(r) \in Runs
           /\ Overtaken(r).pc = r.pc /\ Overtaken(r).todo = r.todo /\ Overtaken(r).open = r.open
           /\ Overtaken(r).listing = r.listing /\ Overtaken(r).calls = r.calls
           /\ Overtaken(r).failed = r.failed
           /\ r.pc \in AtWork => Overtaken(r).alone = FALSE
BY DEF Overtaken, Runs, AtWork

LEMMA AfterCall ==
    ASSUME Inv, NEW n \in Notifiers, run[n].pc = "call", NEW calls, NEW failed \in BOOLEAN,
           calls = <<>> \/ (run[n].calls # <<>> /\ calls = Tail(run[n].calls)),
           run' = RunAfterCall(n, calls, failed),
           Longer(issues'), UNCHANGED <<entry, owned, scans, people>>, faults' \in Nat
    PROVE  Inv'
<1>1. \A m \in Notifiers : run[m] \in Runs /\ run[m].todo \subseteq DOMAIN run[m].open
  BY DEF Inv, TypeOK
<1>2. run[n].calls # <<>> => Tail(run[n].calls) \in Seq(CallsOfTool)
  BY <1>1, HeadTailProperties DEF Runs
<1>3. calls \in Seq(CallsOfTool)
  <2>1. <<>> \in Seq(CallsOfTool)
    OBVIOUS
  <2> QED  BY <1>2, <2>1
<1> DEFINE q == [run[n] EXCEPT !.calls = calls, !.failed = failed]
<1>4. q \in Runs /\ q.pc = "call" /\ q.todo = run[n].todo /\ q.open = run[n].open
      /\ q.listing = run[n].listing /\ q.calls = calls
  BY <1>1, <1>3 DEF Runs
<1>5. run'[n] = q /\ \A m \in Notifiers : m # n => run'[m] = Overtaken(run[m])
  BY DEF RunAfterCall
<1> HIDE DEF q
<1>10. \A m \in Notifiers :
        /\ Overtaken(run[m]) \in Runs
        /\ Overtaken(run[m]).pc = run[m].pc /\ Overtaken(run[m]).todo = run[m].todo
        /\ Overtaken(run[m]).open = run[m].open /\ Overtaken(run[m]).listing = run[m].listing
        /\ Overtaken(run[m]).calls = run[m].calls
  BY <1>1, OvertakenIs
<1>6. \A m \in Notifiers : run'[m] \in Runs /\ run'[m].todo \subseteq DOMAIN run'[m].open
  BY <1>1, <1>4, <1>5, <1>10
<1>7. run' \in [Notifiers -> Runs]
  BY <1>6 DEF RunAfterCall
<1>8. TypeOK'
  BY <1>6, <1>7 DEF Inv, TypeOK, Longer
<1>9. \A m \in Notifiers :
        /\ run'[m].pc = run[m].pc /\ run'[m].listing = run[m].listing /\ run'[m].todo = run[m].todo
        /\ \/ run'[m].calls = run[m].calls
           \/ run[m].calls # <<>> /\ run'[m].calls = Tail(run[m].calls)
           \/ run'[m].calls = <<>>
  BY <1>1, <1>4, <1>5, <1>10
<1> QED  BY <1>8, <1>9, InvStays

LEMMA CallWorksInv ==
    ASSUME Inv, NEW n \in Notifiers, CallWorks(n)
    PROVE  Inv'
<1>1. run[n].pc = "call" /\ run[n].calls # <<>> /\ issues' = Applied(n)
      /\ run' = RunAfterCall(n, Tail(run[n].calls), run[n].failed)
      /\ UNCHANGED <<entry, owned, scans, faults, people>>
  BY DEF CallWorks
<1>2. Longer(issues')
  BY <1>1, AppliedIs
<1>3. run[n].failed \in BOOLEAN /\ faults' \in Nat
  BY <1>1 DEF Inv, TypeOK, Runs
<1> QED  BY <1>1, <1>2, <1>3, AfterCall

LEMMA CallFailsInv ==
    ASSUME Inv, NEW n \in Notifiers, NEW carriedOut \in BOOLEAN, CallFails(n, carriedOut)
    PROVE  Inv'
<1>1. run[n].pc = "call" /\ run[n].calls # <<>> /\ (issues' = Applied(n) \/ issues' = issues)
      /\ run' = RunAfterCall(n, <<>>, TRUE)
      /\ faults' = faults + 1 /\ UNCHANGED <<entry, owned, scans, people>>
  BY DEF CallFails
<1>2. Longer(issues')
  BY <1>1, AppliedIs, SameIsLonger
<1>3. faults' \in Nat
  BY <1>1 DEF Inv, TypeOK
<1> QED  BY <1>1, <1>2, <1>3, AfterCall

LEMMA RestOfRunInv ==
    ASSUME Inv, NEW n \in Notifiers, OwnerDone(n) \/ Finish(n) \/ Exit(n) \/ Killed(n)
    PROVE  Inv'
<1>1. run[n] \in Runs /\ run[n].todo \subseteq DOMAIN run[n].open /\ faults \in Nat
  BY DEF Inv, TypeOK
<1>2. ASSUME NEW q \in Runs, q.listing = run[n].listing, run[n].pc \in AtWork
      PROVE  ListingFits(q, issues)
  BY <1>2 DEF Inv, ListingKept, ListingFits, Base
<1>3. CASE OwnerDone(n)
  <2> DEFINE q == [run[n] EXCEPT !.pc = "owner", !.todo = @ \ {Turn(@)}]
  <2>1. q \in Runs /\ q.pc = "owner" /\ q.todo \subseteq DOMAIN q.open /\ q.listing = run[n].listing
    BY <1>1 DEF Runs
  <2>2. run' = [run EXCEPT ![n] = q] /\ UNCHANGED <<entry, owned, issues, scans, faults, people>>
    BY <1>3 DEF OwnerDone
  <2>3. run[n].pc \in AtWork
    BY <1>3 DEF OwnerDone, AtWork
  <2> HIDE DEF q
  <2> QED  BY <1>1, <1>2, <2>1, <2>2, <2>3, RunStepInv
<1>4. CASE Finish(n)
  <2> DEFINE q == [run[n] EXCEPT !.pc = "done"]
  <2>1. q \in Runs /\ q.pc = "done" /\ q.todo \subseteq DOMAIN q.open /\ q.listing = run[n].listing
    BY <1>1 DEF Runs
  <2>2. run' = [run EXCEPT ![n] = q] /\ UNCHANGED <<entry, owned, issues, scans, faults, people>>
    BY <1>4 DEF Finish
  <2>3. run[n].pc \in AtWork
    BY <1>4 DEF Finish, AtWork
  <2> HIDE DEF q
  <2> QED  BY <1>1, <1>2, <2>1, <2>2, <2>3, RunStepInv
<1>5. CASE Exit(n) \/ Killed(n)
  <2>1. run' = [run EXCEPT ![n] = NoRun] /\ UNCHANGED <<entry, owned, issues, scans, people>>
        /\ faults' \in Nat
    BY <1>1, <1>5 DEF Exit, Killed
  <2> QED  BY <1>1, <2>1, NoRunIsTyped, RunStepInv DEF AtWork
<1> QED  BY <1>3, <1>4, <1>5

LEMMA PeopleInv ==
    ASSUME Inv, NEW after, PeopleWrite(after), Longer(after)
    PROVE  Inv'
<1>1. \A m \in Notifiers : run[m] \in Runs /\ run[m].todo \subseteq DOMAIN run[m].open
  BY DEF Inv, TypeOK
<1>2. \A m \in Notifiers : run'[m] = Overtaken(run[m])
  BY DEF PeopleWrite
<1>3. \A m \in Notifiers :
        /\ Overtaken(run[m]) \in Runs
        /\ Overtaken(run[m]).pc = run[m].pc /\ Overtaken(run[m]).todo = run[m].todo
        /\ Overtaken(run[m]).open = run[m].open /\ Overtaken(run[m]).listing = run[m].listing
        /\ Overtaken(run[m]).calls = run[m].calls
  BY <1>1, OvertakenIs
<1>4. \A m \in Notifiers : run'[m] \in Runs /\ run'[m].todo \subseteq DOMAIN run'[m].open
  BY <1>1, <1>2, <1>3
<1>5. run' \in [Notifiers -> Runs]
  BY <1>4 DEF PeopleWrite
<1>6. TypeOK'
  BY <1>4, <1>5 DEF Inv, TypeOK, PeopleWrite, Longer
<1>7. \A m \in Notifiers :
        /\ run'[m].pc = run[m].pc /\ run'[m].listing = run[m].listing /\ run'[m].todo = run[m].todo
        /\ run'[m].calls = run[m].calls
  BY <1>2, <1>3
<1>8. Longer(issues')
  BY DEF PeopleWrite
<1> QED  BY <1>6, <1>7, <1>8, InvStays

LEMMA PeopleWriteLonger ==
    ASSUME Inv
    PROVE  /\ Longer(Append(issues, [mark |-> NotMarked, open |-> TRUE, lists |-> {}]))
           /\ \A i \in DOMAIN issues : /\ Longer([issues EXCEPT ![i].open = ~@])
                                       /\ Longer([issues EXCEPT ![i].lists = {}])
<1>1. issues \in Seq(Issues)
  BY DEF Inv, TypeOK
<1>2. [mark |-> NotMarked, open |-> TRUE, lists |-> {}] \in Issues
  BY DEF Issues, Marks
<1>3. Longer(Append(issues, [mark |-> NotMarked, open |-> TRUE, lists |-> {}]))
  BY <1>1, <1>2 DEF Longer
<1>4. ASSUME NEW i \in DOMAIN issues, NEW new \in Issues, new.mark = issues[i].mark
      PROVE  Longer([issues EXCEPT ![i] = new])
  BY <1>1, <1>4 DEF Longer
<1>5. ASSUME NEW i \in DOMAIN issues
      PROVE  Longer([issues EXCEPT ![i].open = ~@]) /\ Longer([issues EXCEPT ![i].lists = {}])
  <2>1. issues[i] \in Issues
    BY <1>1
  <2>2. [issues[i] EXCEPT !.open = ~@] \in Issues /\ [issues[i] EXCEPT !.open = ~@].mark = issues[i].mark
    BY <2>1 DEF Issues
  <2>3. [issues[i] EXCEPT !.lists = {}] \in Issues /\ [issues[i] EXCEPT !.lists = {}].mark = issues[i].mark
    BY <2>1 DEF Issues
  <2>4. Longer([issues EXCEPT ![i] = [issues[i] EXCEPT !.open = ~@]])
    BY <1>4, <2>2
  <2>5. Longer([issues EXCEPT ![i] = [issues[i] EXCEPT !.lists = {}]])
    BY <1>4, <2>3
  <2> QED  BY <2>4, <2>5
<1> QED  BY <1>3, <1>5

LEMMA ReassignInv ==
    ASSUME Inv, NEW r \in Repos, NEW o \in Owners, Reassign(r, o)
    PROVE  Inv'
<1>1. owned' \in [Repos -> Owners] /\ people' \in Nat
  BY DEF Reassign, Inv, TypeOK
<1>2. TypeOK'
  BY <1>1 DEF Inv, TypeOK, Reassign
<1>3. Longer(issues')
  BY SameIsLonger DEF Reassign
<1> QED  BY <1>2, <1>3, InvStays DEF Reassign

LEMMA StepInv ==
    ASSUME Inv, [Next]_vars
    PROVE  Inv'
<1>1. ASSUME NEW present \in SUBSET Findings, NEW read \in SUBSET Repos, Record(present, read)
      PROVE  Inv'
  BY <1>1, RecordInv
<1>2. ASSUME NEW n \in Notifiers, Advance(n)
      PROVE  Inv'
  BY <1>2, StartInv, ListIssuesInv, NextOwnerInv, CallWorksInv, RestOfRunInv DEF Advance
<1>3. ASSUME NEW n \in Notifiers, NEW carriedOut \in BOOLEAN, CallFails(n, carriedOut)
      PROVE  Inv'
  BY <1>3, CallFailsInv
<1>4. ASSUME NEW n \in Notifiers, Killed(n)
      PROVE  Inv'
  BY <1>4, RestOfRunInv
<1>5. CASE OpenAnother
  BY <1>5, PeopleWriteLonger, PeopleInv DEF OpenAnother
<1>6. ASSUME NEW i \in DOMAIN issues, Toggle(i) \/ Edit(i)
      PROVE  Inv'
  BY <1>6, PeopleWriteLonger, PeopleInv DEF Toggle, Edit
<1>7. ASSUME NEW r \in Repos, NEW o \in Owners, Reassign(r, o)
      PROVE  Inv'
  BY <1>7, ReassignInv
<1>8. CASE UNCHANGED vars
  BY <1>8 DEF vars, Inv, TypeOK, ListingKept, CallsKnown, ListingFits, CallsFit, Base
<1> QED  BY <1>1, <1>2, <1>3, <1>4, <1>5, <1>6, <1>7, <1>8 DEF Next

(***************************************************************************)
(* The variables have their types, and every call names an issue there is.  *)
(***************************************************************************)
THEOREM TypeCorrect == Spec => []TypeOK
<1>1. Inv /\ [Next]_vars => Inv'
  BY StepInv
<1>2. Inv => TypeOK
  BY DEF Inv
<1> QED  BY <1>1, <1>2, InitInv, PTL DEF Spec

-----------------------------------------------------------------------------
(* What people wrote. *)

(***************************************************************************)
(* A run's call leaves every issue without a marker alone.                  *)
(***************************************************************************)
LEMMA AppliedSpares ==
    ASSUME Inv, NEW n \in Notifiers, run[n].pc = "call", run[n].calls # <<>>,
           NEW i \in DOMAIN issues, issues[i].mark = NotMarked
    PROVE  Applied(n)[i] = issues[i]
<1> DEFINE call == Head(run[n].calls)
           o == Turn(run[n].todo)
<1>1. CASE call.verb = "create"
  <2>1. Applied(n) = Append(issues, [mark |-> Mark[o], open |-> TRUE, lists |-> run[n].open[o]])
    BY <1>1, AppliedIs
  <2>2. issues \in Seq(Issues)
    BY DEF Inv, TypeOK
  <2> QED  BY <2>1, <2>2
<1>2. CASE call.verb # "create"
  <2>1. /\ o \in Owners /\ issues[call.number].mark = Mark[o]
        /\ \A j \in DOMAIN issues : j # call.number => Applied(n)[j] = issues[j]
    BY <1>2, AppliedIs
  <2>2. Mark[o] # NotMarked
    BY <2>1, NotifyAssumption
  <2> QED  BY <2>1, <2>2
<1> QED  BY <1>1, <1>2

(***************************************************************************)
(* notify never writes to an issue people opened for themselves, whatever   *)
(* runs are under way, fail or are killed.                                  *)
(***************************************************************************)
THEOREM PeoplesIssuesAreKept == Spec => PeoplesIssuesKept
<1>1. ASSUME Inv, [Next]_vars
      PROVE  [people' = people =>
                \A i \in DOMAIN issues : issues[i].mark = NotMarked => issues'[i] = issues[i]]_vars
  <2> SUFFICES ASSUME Next, people' = people, NEW i \in DOMAIN issues, issues[i].mark = NotMarked
               PROVE  issues'[i] = issues[i]
    BY <1>1
  <2>1. ASSUME NEW present \in SUBSET Findings, NEW read \in SUBSET Repos, Record(present, read)
        PROVE  issues'[i] = issues[i]
    BY <2>1 DEF Record
  <2>2. ASSUME NEW n \in Notifiers, Advance(n)
        PROVE  issues'[i] = issues[i]
    <3>1. CASE CallWorks(n)
      BY <1>1, <3>1, AppliedSpares DEF CallWorks
    <3>2. CASE ~CallWorks(n)
      BY <2>2, <3>2 DEF Advance, Start, ListIssues, NextOwner, OwnerDone, Finish, Exit
    <3> QED  BY <3>1, <3>2
  <2>3. ASSUME NEW n \in Notifiers, NEW carriedOut \in BOOLEAN, CallFails(n, carriedOut)
        PROVE  issues'[i] = issues[i]
    BY <1>1, <2>3, AppliedSpares DEF CallFails
  <2>4. ASSUME NEW n \in Notifiers, Killed(n)
        PROVE  issues'[i] = issues[i]
    BY <2>4 DEF Killed
  <2>5. ~OpenAnother /\ ~(\E j \in DOMAIN issues : Toggle(j) \/ Edit(j))
    BY <1>1 DEF Inv, TypeOK, OpenAnother, Toggle, Edit, PeopleWrite
  <2>6. ~(\E r \in Repos, o \in Owners : Reassign(r, o))
    BY <1>1 DEF Inv, TypeOK, Reassign
  <2> QED  BY <2>1, <2>2, <2>3, <2>4, <2>5, <2>6 DEF Next
<1>2. Inv /\ [Next]_vars => Inv'
  BY StepInv
<1> QED  BY <1>1, <1>2, InitInv, PTL DEF Spec, PeoplesIssuesKept

-----------------------------------------------------------------------------
(* One run at a time, and a marker of its own for each owner. *)

OneRun == \A n, m \in Notifiers : n = m
OwnMarks == \A o, p \in Owners : Mark[o] = Mark[p] => o = p

(***************************************************************************)
(* A run creates an issue only when every other of its owner is out of      *)
(* reach.                                                                   *)
(***************************************************************************)
LEMMA CreatedIsFar ==
    ASSUME Inv, NoneOpenedYet, NEW n \in Notifiers, run[n].pc = "call", run[n].calls # <<>>,
           Head(run[n].calls).verb = "create",
           NEW i \in DOMAIN issues, issues[i].mark = Mark[Turn(run[n].todo)]
    PROVE  Len(issues) + 1 - i > Listed
<1> DEFINE r == run[n]
           o == Turn(r.todo)
           many == Len(r.listing)
           base == Base(r)
<1>1. r \in Runs /\ issues \in Seq(Issues) /\ Listed \in Nat
  BY NotifyAssumption DEF Inv, TypeOK
<1>2. ListingFits(r, issues)
  BY DEF Inv, ListingKept, AtWork
<1>3. o \in r.todo
  BY AppliedIs
<1>4. NoneOpened(r, issues)
  BY DEF NoneOpenedYet
<1>5. ~(i > base)
  BY <1>3, <1>4 DEF NoneOpened, Before
<1>6. FoundAt(r.listing, o) = {}
  <2>1. r.calls \in Seq(CallsOfTool) /\ CallsFit(r, issues)
    BY <1>1 DEF Runs, Inv, CallsKnown
  <2>2. 1 \in DOMAIN r.calls /\ r.calls[1].verb = "create"
    BY <2>1
  <2> QED  BY <2>1, <2>2 DEF CallsFit
<1>7. r.listing \in Seq(Rows) /\ many \in Nat /\ DOMAIN r.listing = 1 .. many
  BY <1>1 DEF Runs
<1>8. base \in Nat
  <2>1. CASE r.listing = <<>>
    BY <2>1 DEF Base
  <2>2. CASE r.listing # <<>>
    <3>1. r.listing[1] \in Rows
      BY <1>7, <2>2
    <3> QED  BY <2>2, <3>1 DEF Base, Rows
  <2> QED  BY <2>1, <2>2
<1>9. i \in Nat /\ i > 0 /\ Len(issues) \in Nat
  BY <1>1
<1> HIDE DEF base, many
<1>10. base + 1 - i \notin 1 .. many
  <2> SUFFICES ASSUME base + 1 - i \in 1 .. many PROVE FALSE
    OBVIOUS
  <2> DEFINE k == base + 1 - i
  <2>1. k \in DOMAIN r.listing /\ base + 1 - k = i
    BY <1>7, <1>8, <1>9
  <2>2. r.listing[k].mark = issues[i].mark
    BY <1>2, <2>1 DEF ListingFits, base
  <2> QED  BY <1>6, <2>1, <2>2 DEF FoundAt
<1>11. base <= Len(issues) /\ (many = base \/ many >= Listed)
  BY <1>2 DEF ListingFits, base, many
<1> QED  BY <1>1, <1>5, <1>7, <1>8, <1>9, <1>10, <1>11

(***************************************************************************)
(* A tracker in which nothing but the contents of issues changed.           *)
(***************************************************************************)
SameMarks(after) ==
    Len(after) = Len(issues) /\ DOMAIN after = DOMAIN issues
    /\ \A i \in DOMAIN issues : after[i].mark = issues[i].mark
\* The same with one more issue, of mark m.
OneMore(after, m) ==
    /\ Len(after) = Len(issues) + 1 /\ DOMAIN after = 1 .. Len(issues) + 1
    /\ \A i \in DOMAIN issues : after[i].mark = issues[i].mark
    /\ after[Len(issues) + 1].mark = m

LEMMA FarStays ==
    ASSUME Inv, DuplicatesAreFarApart,
           \/ SameMarks(issues')
           \/ \E m \in Marks : /\ OneMore(issues', m)
                               /\ m = NotMarked \/ \A i \in DOMAIN issues :
                                    issues[i].mark = m => Len(issues) + 1 - i > Listed
    PROVE  DuplicatesAreFarApart'
<1> SUFFICES ASSUME NEW o \in Owners, NEW i \in Marked(o)', NEW j \in Marked(o)', i < j
             PROVE  j - i > Listed
  BY DEF DuplicatesAreFarApart
<1>1. /\ issues \in Seq(Issues) /\ DOMAIN issues = 1 .. Len(issues) /\ Len(issues) \in Nat
      /\ Mark[o] # NotMarked
  BY NotifyAssumption DEF Inv, TypeOK
<1>2. /\ i \in DOMAIN issues' /\ issues'[i].mark = Mark[o]
      /\ j \in DOMAIN issues' /\ issues'[j].mark = Mark[o]
  BY DEF Marked
<1>3. CASE i \in DOMAIN issues /\ j \in DOMAIN issues
  <2>1. i \in Marked(o) /\ j \in Marked(o)
    BY <1>2, <1>3 DEF Marked, SameMarks, OneMore
  <2> QED  BY <2>1 DEF DuplicatesAreFarApart
<1>4. CASE ~(i \in DOMAIN issues /\ j \in DOMAIN issues)
  <2>1. PICK m \in Marks : /\ OneMore(issues', m)
                           /\ m = NotMarked \/ \A k \in DOMAIN issues :
                                issues[k].mark = m => Len(issues) + 1 - k > Listed
    BY <1>2, <1>4 DEF SameMarks
  <2>2. j = Len(issues) + 1 /\ i \in DOMAIN issues
    BY <1>1, <1>2, <1>4, <2>1 DEF OneMore
  <2>3. m = Mark[o] /\ issues[i].mark = m
    BY <1>2, <2>1, <2>2 DEF OneMore
  <2> QED  BY <1>1, <2>1, <2>2, <2>3
<1> QED  BY <1>3, <1>4

LEMMA NoneOpenedStays ==
    ASSUME Inv, NEW r, NEW q, NEW after, NoneOpened(r, issues),
           q.listing = r.listing, q.todo \subseteq r.todo,
           \A o \in q.todo : Before(q, o) => Before(r, o),
           \/ SameMarks(after)
           \/ \E m : OneMore(after, m) /\ \A o \in q.todo : Before(q, o) => m # Mark[o]
    PROVE  NoneOpened(q, after)
<1> SUFFICES ASSUME NEW o \in q.todo, Before(q, o), NEW i \in DOMAIN after, i > Base(q),
                    after[i].mark = Mark[o]
             PROVE  FALSE
  BY DEF NoneOpened
<1>1. Base(q) = Base(r) /\ DOMAIN issues = 1 .. Len(issues) /\ Len(issues) \in Nat
  BY DEF Base, Inv, TypeOK
<1>2. CASE i \in DOMAIN issues
  <2>1. issues[i].mark = Mark[o]
    BY <1>2 DEF SameMarks, OneMore
  <2> QED  BY <1>1, <1>2, <2>1 DEF NoneOpened
<1>3. CASE i \notin DOMAIN issues
  <2>1. PICK m : OneMore(after, m) /\ \A p \in q.todo : Before(q, p) => m # Mark[p]
    BY <1>3 DEF SameMarks
  <2>2. i = Len(issues) + 1
    BY <1>1, <1>3, <2>1 DEF OneMore
  <2> QED  BY <2>1, <2>2 DEF OneMore
<1> QED  BY <1>2, <1>3

Duplicates == DuplicatesAreFarApart /\ NoneOpenedYet

(***************************************************************************)
(* A step of the one run that writes nothing.                               *)
(***************************************************************************)
LEMMA QuietStep ==
    ASSUME Inv, Duplicates, OneRun, NEW n \in Notifiers, NEW q, run' = [run EXCEPT ![n] = q],
           issues' = issues,
           q.pc \in {"owner", "call"} => NoneOpened(q, issues)
    PROVE  Duplicates'
<1>1. run'[n] = q
  BY DEF Inv, TypeOK
<1>2. NoneOpenedYet'
  <2> SUFFICES ASSUME NEW m \in Notifiers, run'[m].pc \in {"owner", "call"}
               PROVE  NoneOpened(run'[m], issues')
    BY Zenon DEF NoneOpenedYet
  <2>1. m = n
    BY DEF OneRun
  <2> QED  BY <1>1, <2>1
<1>3. SameMarks(issues')
  BY DEF SameMarks
<1>4. DuplicatesAreFarApart'
  BY <1>3, FarStays DEF Duplicates
<1> QED  BY <1>2, <1>4 DEF Duplicates

LEMMA RunDuplicates ==
    ASSUME Inv, Duplicates, OneRun, NEW n \in Notifiers,
           \/ Start(n) \/ ListIssues(n) \/ NextOwner(n) \/ OwnerDone(n) \/ Finish(n) \/ Exit(n)
           \/ Killed(n)
    PROVE  Duplicates'
<1>1. run[n] \in Runs /\ run \in [Notifiers -> Runs] /\ issues \in Seq(Issues)
  BY DEF Inv, TypeOK
<1>2. run[n].pc = "owner" \/ run[n].pc = "call" => NoneOpened(run[n], issues)
  BY DEF Duplicates, NoneOpenedYet
<1>3. SameMarks(issues)
  BY DEF SameMarks
<1>4. CASE Start(n)
  <2> DEFINE open == [o \in Known |-> OpenOf(o)]
             q == [run[n] EXCEPT !.pc = "list", !.todo = Known, !.open = open]
  <2>1. q.pc = "list"
    BY <1>1 DEF Runs
  <2>2. run' = [run EXCEPT ![n] = q] /\ issues' = issues
    BY <1>1, <1>4 DEF Start
  <2> HIDE DEF q
  <2> QED  BY <2>1, <2>2, QuietStep
<1>5. CASE ListIssues(n)
  <2> DEFINE q == [run[n] EXCEPT !.pc = "owner", !.listing = Listing]
  <2>1. q.listing = Listing
    BY <1>1 DEF Runs
  <2>2. Base(q) = Len(issues)
    BY <1>1, <2>1, ListingIsNewest
  <2>3. NoneOpened(q, issues)
    BY <1>1, <2>2 DEF NoneOpened
  <2>4. run' = [run EXCEPT ![n] = q] /\ issues' = issues
    BY <1>5 DEF ListIssues
  <2> HIDE DEF q
  <2> QED  BY <2>3, <2>4, QuietStep
<1>6. CASE NextOwner(n)
  <2> DEFINE calls == Calls(run[n].listing, Turn(run[n].todo), run[n].open[Turn(run[n].todo)] # {})
             q == [run[n] EXCEPT !.pc = "call", !.calls = calls]
  <2> HIDE DEF calls
  <2>1. q.listing = run[n].listing /\ q.todo = run[n].todo /\ run[n].pc = "owner"
    BY <1>1, <1>6 DEF Runs, NextOwner
  <2>2. run' = [run EXCEPT ![n] = q] /\ issues' = issues
    BY <1>6 DEF NextOwner, calls
  <2> HIDE DEF q
  <2>3. \A o \in q.todo : Before(run[n], o)
    BY <2>1 DEF Before
  <2>4. NoneOpened(q, issues)
    BY <1>2, <1>3, <2>1, <2>3, NoneOpenedStays
  <2> QED  BY <2>2, <2>4, QuietStep
<1>7. CASE OwnerDone(n)
  <2> DEFINE q == [run[n] EXCEPT !.pc = "owner", !.todo = @ \ {Turn(@)}]
  <2>1. q.listing = run[n].listing /\ q.todo = run[n].todo \ {Turn(run[n].todo)} /\ run[n].pc = "call"
    BY <1>1, <1>7 DEF Runs, OwnerDone
  <2>2. run' = [run EXCEPT ![n] = q] /\ issues' = issues
    BY <1>7 DEF OwnerDone
  <2> HIDE DEF q
  <2>3. \A o \in q.todo : Before(run[n], o)
    BY <2>1 DEF Before
  <2>4. NoneOpened(q, issues)
    BY <1>2, <1>3, <2>1, <2>3, NoneOpenedStays
  <2> QED  BY <2>2, <2>4, QuietStep
<1>8. CASE Finish(n)
  <2> DEFINE q == [run[n] EXCEPT !.pc = "done"]
  <2>1. q.pc = "done"
    BY <1>1 DEF Runs
  <2>2. run' = [run EXCEPT ![n] = q] /\ issues' = issues
    BY <1>8 DEF Finish
  <2> HIDE DEF q
  <2> QED  BY <2>1, <2>2, QuietStep
<1>9. CASE Exit(n) \/ Killed(n)
  <2>1. run' = [run EXCEPT ![n] = NoRun] /\ issues' = issues
    BY <1>9 DEF Exit, Killed
  <2> QED  BY <2>1, NoRunIsTyped, QuietStep
<1> QED  BY <1>4, <1>5, <1>6, <1>7, <1>8, <1>9

(***************************************************************************)
(* What a call changes of the marks.                                        *)
(***************************************************************************)
LEMMA AppliedMarks ==
    ASSUME Inv, NEW n \in Notifiers, run[n].pc = "call", run[n].calls # <<>>
    PROVE  IF Head(run[n].calls).verb = "create"
           THEN OneMore(Applied(n), Mark[Turn(run[n].todo)])
           ELSE SameMarks(Applied(n))
<1>1. issues \in Seq(Issues)
  BY DEF Inv, TypeOK
<1>2. CASE Head(run[n].calls).verb = "create"
  <2> DEFINE new == [mark |-> Mark[Turn(run[n].todo)], open |-> TRUE,
                     lists |-> run[n].open[Turn(run[n].todo)]]
  <2>1. Applied(n) = Append(issues, new)
    BY <1>2, AppliedIs
  <2>2. new.mark = Mark[Turn(run[n].todo)]
    OBVIOUS
  <2> HIDE DEF new
  <2>3. OneMore(Append(issues, new), new.mark)
    BY <1>1 DEF OneMore
  <2> QED  BY <1>2, <2>1, <2>2, <2>3
<1>3. CASE Head(run[n].calls).verb # "create"
  <2>1. Longer(Applied(n)) /\ Len(Applied(n)) = Len(issues)
    BY <1>3, AppliedIs
  <2> QED  BY <1>1, <1>3, <2>1 DEF Longer, SameMarks
<1> QED  BY <1>2, <1>3

LEMMA CallDuplicates ==
    ASSUME Inv, Duplicates, OneRun, OwnMarks, NEW n \in Notifiers,
           CallWorks(n) \/ \E carriedOut \in BOOLEAN : CallFails(n, carriedOut)
    PROVE  Duplicates'
<1> DEFINE r == run[n]
           o == Turn(r.todo)
<1>1. r \in Runs /\ run \in [Notifiers -> Runs] /\ issues \in Seq(Issues)
  BY DEF Inv, TypeOK
<1>2. r.pc = "call" /\ r.calls # <<>>
  BY DEF CallWorks, CallFails
<1>3. PICK calls, failed : /\ calls = <<>> \/ calls = Tail(r.calls)
                           /\ run' = RunAfterCall(n, calls, failed)
  BY DEF CallWorks, CallFails
<1>4. issues' = Applied(n) \/ issues' = issues
  BY DEF CallWorks, CallFails
<1> DEFINE q == [r EXCEPT !.calls = calls, !.failed = failed]
<1>5. q.calls = calls /\ q.todo = r.todo /\ q.listing = r.listing /\ q.pc = "call"
  BY <1>1, <1>2 DEF Runs
<1>6. run'[n] = q
  BY <1>3 DEF RunAfterCall
<1> HIDE DEF q
<1>7. o \in r.todo /\ o \in Owners /\ r.todo \subseteq Owners /\ Mark[o] \in Marks
  BY <1>1, <1>2, AppliedIs DEF Runs, Marks
<1>8. ~Before(q, o)
  <2> SUFFICES ASSUME Before(q, o) PROVE FALSE
    OBVIOUS
  <2>1. calls # <<>> /\ Head(calls).verb = "create"
    BY <1>5 DEF Before
  <2>2. r.calls \in Seq(CallsOfTool) /\ calls = Tail(r.calls)
    BY <1>1, <1>3, <2>1 DEF Runs
  <2>3. /\ Tail(r.calls) \in Seq(CallsOfTool) /\ Len(Tail(r.calls)) = Len(r.calls) - 1
        /\ \A i \in 1 .. Len(Tail(r.calls)) : Tail(r.calls)[i] = r.calls[i + 1]
    BY <1>2, <2>2, HeadTailProperties
  <2>4. Head(calls) = r.calls[2] /\ 2 \in DOMAIN r.calls /\ Len(r.calls) # 1
    BY <2>1, <2>2, <2>3
  <2>5. CallsFit(r, issues)
    BY <1>2 DEF Inv, CallsKnown
  <2> QED  BY <2>1, <2>4, <2>5 DEF CallsFit
<1>9. \A p \in q.todo : Before(q, p) => Before(r, p) /\ Mark[p] # Mark[o]
  BY <1>5, <1>7, <1>8 DEF Before, OwnMarks
<1>10. SameMarks(issues') \/ (OneMore(issues', Mark[o]) /\ Head(r.calls).verb = "create")
  <2>1. CASE issues' = issues
    BY <2>1 DEF SameMarks
  <2>2. CASE issues' = Applied(n)
    BY <1>2, <2>2, AppliedMarks
  <2> QED  BY <1>4, <2>1, <2>2
<1>11. NoneOpened(r, issues)
  BY <1>2 DEF Duplicates, NoneOpenedYet
<1>12. \/ SameMarks(issues')
       \/ \E m : OneMore(issues', m) /\ \A p \in q.todo : Before(q, p) => m # Mark[p]
  BY <1>9, <1>10
<1>13. NoneOpened(q, issues')
  BY <1>5, <1>9, <1>11, <1>12, NoneOpenedStays
<1>14. NoneOpenedYet'
  <2> SUFFICES ASSUME NEW m \in Notifiers, run'[m].pc \in {"owner", "call"}
               PROVE  NoneOpened(run'[m], issues')
    BY Zenon DEF NoneOpenedYet
  <2>1. m = n
    BY DEF OneRun
  <2> QED  BY <1>6, <1>13, <2>1
<1>15. Head(r.calls).verb = "create" =>
         \A i \in DOMAIN issues : issues[i].mark = Mark[o] => Len(issues) + 1 - i > Listed
  BY <1>2, CreatedIsFar DEF Duplicates
<1>16. DuplicatesAreFarApart'
  BY <1>7, <1>10, <1>15, FarStays DEF Duplicates
<1> QED  BY <1>14, <1>16 DEF Duplicates

LEMMA PeopleDuplicates ==
    ASSUME Inv, Duplicates, OneRun, NEW after, PeopleWrite(after),
           SameMarks(after) \/ OneMore(after, NotMarked)
    PROVE  Duplicates'
<1>1. issues' = after /\ \A m \in Notifiers : run'[m] = Overtaken(run[m])
  BY DEF PeopleWrite
<1>2. NotMarked \in Marks /\ \A o \in Owners : Mark[o] # NotMarked
  BY NotifyAssumption DEF Marks
<1>3. DuplicatesAreFarApart'
  BY <1>1, <1>2, FarStays DEF Duplicates
<1>4. NoneOpenedYet'
  <2> SUFFICES ASSUME NEW m \in Notifiers, run'[m].pc \in {"owner", "call"}
               PROVE  NoneOpened(run'[m], issues')
    BY Zenon DEF NoneOpenedYet
  <2> DEFINE q == Overtaken(run[m])
  <2>1. run[m] \in Runs /\ run[m].todo \subseteq Owners
    BY DEF Inv, TypeOK, Runs
  <2>2. /\ q.pc = run[m].pc /\ q.todo = run[m].todo /\ q.listing = run[m].listing
        /\ q.calls = run[m].calls
    BY <2>1, OvertakenIs
  <2>3. run'[m] = q
    BY <1>1
  <2> HIDE DEF q
  <2>4. NoneOpened(run[m], issues)
    BY <2>2, <2>3 DEF Duplicates, NoneOpenedYet
  <2>5. \A o \in q.todo : (Before(q, o) => Before(run[m], o)) /\ NotMarked # Mark[o]
    BY <1>2, <2>1, <2>2 DEF Before
  <2>6. \/ SameMarks(issues')
        \/ \E mark : OneMore(issues', mark) /\ \A o \in q.todo : Before(q, o) => mark # Mark[o]
    BY <1>1, <2>5
  <2>7. NoneOpened(q, issues')
    BY <2>2, <2>4, <2>5, <2>6, NoneOpenedStays
  <2> QED  BY <2>3, <2>7
<1> QED  BY <1>3, <1>4 DEF Duplicates

LEMMA DuplicatesStep ==
    ASSUME Inv, Duplicates, OneRun, OwnMarks, [Next]_vars
    PROVE  Duplicates'
<1>0. issues \in Seq(Issues)
  BY DEF Inv, TypeOK
<1>1. ASSUME UNCHANGED <<run, issues>>
      PROVE  Duplicates'
  BY <1>1 DEF Duplicates, DuplicatesAreFarApart, Marked, NoneOpenedYet, NoneOpened, Before, Base
<1>2. ASSUME NEW n \in Notifiers, Advance(n)
      PROVE  Duplicates'
  BY <1>2, RunDuplicates, CallDuplicates DEF Advance
<1>3. ASSUME NEW n \in Notifiers, NEW carriedOut \in BOOLEAN, CallFails(n, carriedOut)
      PROVE  Duplicates'
  BY <1>3, CallDuplicates
<1>4. ASSUME NEW n \in Notifiers, Killed(n)
      PROVE  Duplicates'
  BY <1>4, RunDuplicates
<1>5. CASE OpenAnother
  <2> DEFINE new == [mark |-> NotMarked, open |-> TRUE, lists |-> {}]
  <2>1. new.mark = NotMarked
    OBVIOUS
  <2>2. PeopleWrite(Append(issues, new))
    BY <1>5 DEF OpenAnother
  <2> HIDE DEF new
  <2>3. OneMore(Append(issues, new), NotMarked)
    BY <1>0, <2>1 DEF OneMore
  <2> QED  BY <2>2, <2>3, PeopleDuplicates
<1>6. ASSUME NEW i \in DOMAIN issues, Toggle(i) \/ Edit(i)
      PROVE  Duplicates'
  <2>1. issues[i] \in Issues
    BY <1>0
  <2>2. /\ SameMarks([issues EXCEPT ![i].open = ~@])
        /\ SameMarks([issues EXCEPT ![i].lists = {}])
    BY <1>0, <2>1 DEF SameMarks, Issues
  <2> QED  BY <1>6, <2>2, PeopleDuplicates DEF Toggle, Edit
<1>7. ASSUME NEW present \in SUBSET Findings, NEW read \in SUBSET Repos, Record(present, read)
      PROVE  Duplicates'
  BY <1>1, <1>7 DEF Record
<1>8. ASSUME NEW r \in Repos, NEW o \in Owners, Reassign(r, o)
      PROVE  Duplicates'
  BY <1>1, <1>8 DEF Reassign
<1>9. CASE UNCHANGED vars
  BY <1>1, <1>9 DEF vars
<1> QED  BY <1>2, <1>3, <1>4, <1>5, <1>6, <1>7, <1>8, <1>9 DEF Next

(***************************************************************************)
(* Of runs that follow one another, with a marker of its own for each       *)
(* owner, none opens a second issue while the first is in reach, whatever   *)
(* calls failed or were carried out without an answer.                      *)
(***************************************************************************)
THEOREM DuplicatesStayFarApart ==
    ASSUME OneRun, OwnMarks
    PROVE  Spec => []DuplicatesAreFarApart
<1>1. Init => Duplicates
  <2> SUFFICES ASSUME Init PROVE Duplicates
    OBVIOUS
  <2>1. issues = <<>> /\ \A n \in Notifiers : run[n].pc = "idle"
    BY NoRunIsTyped DEF Init
  <2> QED  BY <2>1 DEF Duplicates, DuplicatesAreFarApart, Marked, NoneOpenedYet
<1>2. Inv /\ [Next]_vars => Inv'
  BY StepInv
<1>3. Inv /\ Duplicates /\ [Next]_vars => Duplicates'
  BY DuplicatesStep
<1>4. Duplicates => DuplicatesAreFarApart
  BY DEF Duplicates
<1> QED  BY <1>1, <1>2, <1>3, <1>4, InitInv, PTL DEF Spec
-----------------------------------------------------------------------------
(* A run that nothing failed in and nobody overtook. *)

Of(o, tracker) == {i \in DOMAIN tracker : tracker[i].mark = Mark[o]}
OutOfReach(i, tracker) == i <= Len(tracker) - Listed

\* An owner's issue is what the run was to make of it.
Settled(r, o, tracker) ==
    IF r.open[o] # {}
    THEN \E i \in Of(o, tracker) : tracker[i].open /\ tracker[i].lists = r.open[o]
    ELSE \A i \in Of(o, tracker) : tracker[i].open => OutOfReach(i, tracker)
\* An owner's listed issues are as open as the listing says.
AsListed(r, o, tracker) ==
    \A k \in FoundAt(r.listing, o) : tracker[r.listing[k].number].open = r.listing[k].open
\* The calls left bring the owner's issue in line.
UnderWay(r, o, tracker) ==
    \/ r.calls = <<Row("create", 0)>> /\ r.open[o] # {}
    \/ \E i \in Of(o, tracker) :
         \/ /\ r.open[o] # {}
            /\ \/ r.calls = <<Row("reopen", i), Row("update", i)>>
               \/ r.calls = <<Row("update", i)>> /\ tracker[i].open
         \/ /\ r.open[o] = {}
            /\ r.calls \in {<<Row("update", i), Row("close", i)>>, <<Row("close", i)>>}
            /\ \A j \in Of(o, tracker) \ {i} : tracker[j].open => OutOfReach(j, tracker)

\* Owners done are settled, the one in turn is on its way, the others are as listed.
InTurn(r, o) == r.pc = "call" /\ o = Turn(r.todo)
OwnerOnCourse(r, o, tracker) ==
    IF o \notin r.todo THEN Settled(r, o, tracker)
    ELSE IF ~InTurn(r, o) THEN AsListed(r, o, tracker)
    ELSE IF r.calls = <<>> THEN Settled(r, o, tracker) ELSE UnderWay(r, o, tracker)
OnCourse(r, tracker) ==
    /\ \A o \in DOMAIN r.open : OwnerOnCourse(r, o, tracker)
    /\ r.pc = "done" => r.todo = {}

Trusted(r) == r.pc \in AtWork /\ r.alone /\ ~r.failed
CourseKept ==
    \A n \in Notifiers :
      /\ run[n].pc = "list" => run[n].todo = DOMAIN run[n].open
      /\ Trusted(run[n]) => OnCourse(run[n], issues)

(***************************************************************************)
(* An owner's issues are its own, and those that no row of the listing      *)
(* names are out of reach.                                                  *)
(***************************************************************************)
LEMMA UnlistedIsFar ==
    ASSUME issues \in Seq(Issues), NEW r \in Runs, ListingFits(r, issues), NEW o,
           NEW i \in Of(o, issues), i <= Base(r),
           \A k \in FoundAt(r.listing, o) : r.listing[k].number # i
    PROVE  OutOfReach(i, issues)
<1> DEFINE many == Len(r.listing)
           base == Base(r)
<1>1. r.listing \in Seq(Rows) /\ many \in Nat /\ DOMAIN r.listing = 1 .. many /\ Listed \in Nat
  BY NotifyAssumption DEF Runs
<1>2. base \in Nat
  <2>1. CASE r.listing = <<>>
    BY <2>1 DEF Base
  <2>2. CASE r.listing # <<>>
    <3>1. r.listing[1] \in Rows
      BY <1>1, <2>2
    <3> QED  BY <2>2, <3>1 DEF Base, Rows
  <2> QED  BY <2>1, <2>2
<1>3. i \in Nat /\ i > 0 /\ i <= Len(issues) /\ Len(issues) \in Nat /\ issues[i].mark = Mark[o]
  BY DEF Of
<1>4. base + 1 - i \notin 1 .. many
  <2> SUFFICES ASSUME base + 1 - i \in 1 .. many PROVE FALSE
    OBVIOUS
  <2> DEFINE k == base + 1 - i
  <2>1. k \in DOMAIN r.listing /\ base + 1 - k = i
    BY <1>1, <1>2, <1>3
  <2> HIDE DEF k
  <2>2. r.listing[k].number = i /\ r.listing[k].mark = issues[i].mark
    BY <1>2, <1>3, <2>1 DEF ListingFits
  <2> QED  BY <1>3, <2>1, <2>2 DEF FoundAt
<1>5. base <= Len(issues) /\ (many = base \/ many >= Listed)
  BY DEF ListingFits
<1> HIDE DEF base, many
<1>6. i <= base
  BY DEF base
<1> QED  BY <1>1, <1>2, <1>3, <1>4, <1>5, <1>6 DEF OutOfReach

(***************************************************************************)
(* What a call does to the issue it names, and what it leaves alone.        *)
(***************************************************************************)
Did(call, o, lists, after) ==
    /\ Len(after) >= Len(issues)
    /\ DOMAIN after = 1 .. Len(after)
    /\ call.verb = "create" =>
         /\ Len(issues) + 1 \in Of(o, after)
         /\ after[Len(issues) + 1].open
         /\ after[Len(issues) + 1].lists = lists
    /\ call.verb # "create" =>
         /\ Of(o, after) = Of(o, issues) /\ call.number \in Of(o, issues)
         /\ Len(after) = Len(issues)
         /\ \A i \in DOMAIN issues \ {call.number} : after[i] = issues[i]
    /\ call.verb = "update" =>
         /\ after[call.number].open = issues[call.number].open
         /\ after[call.number].lists = lists
    /\ call.verb = "reopen" => after[call.number].open = TRUE
    /\ call.verb = "close" => after[call.number].open = FALSE

LEMMA AppliedTo ==
    ASSUME Inv, NEW n \in Notifiers, run[n].pc = "call", run[n].calls # <<>>,
           NEW o, o = Turn(run[n].todo), NEW call, call = Head(run[n].calls)
    PROVE  Did(call, o, run[n].open[o], Applied(n))
<1>1. issues \in Seq(Issues) /\ Applied(n) \in Seq(Issues) /\ Len(Applied(n)) >= Len(issues)
  BY AppliedIs DEF Inv, TypeOK, Longer
<1>2. CASE call.verb = "create"
  <2> DEFINE new == [mark |-> Mark[o], open |-> TRUE, lists |-> run[n].open[o]]
  <2>1. Applied(n) = Append(issues, new)
    BY <1>2, AppliedIs
  <2>2. new.mark = Mark[o] /\ new.open = TRUE /\ new.lists = run[n].open[o]
    OBVIOUS
  <2> HIDE DEF new
  <2>3. Len(Applied(n)) = Len(issues) + 1 /\ Applied(n)[Len(issues) + 1] = new
    BY <1>1, <2>1
  <2> QED  BY <1>1, <1>2, <2>2, <2>3 DEF Of, Did
<1>3. CASE call.verb # "create"
  <2>1. /\ call.number \in DOMAIN issues /\ issues[call.number].mark = Mark[o]
        /\ Len(Applied(n)) = Len(issues)
        /\ \A i \in DOMAIN issues : i # call.number => Applied(n)[i] = issues[i]
        /\ Longer(Applied(n)) /\ call \in CallsOfTool
    BY <1>3, AppliedIs
  <2>2. \A i \in DOMAIN issues : Applied(n)[i].mark = issues[i].mark
    BY <2>1 DEF Longer
  <2>3. Of(o, Applied(n)) = Of(o, issues) /\ call.number \in Of(o, issues)
    BY <1>1, <2>1, <2>2 DEF Of
  <2> DEFINE c == call.number
  <2>4. issues[c] \in Issues
    BY <1>1, <2>1
  <2>5. ASSUME call.verb = "update"
        PROVE  Applied(n)[c].open = issues[c].open /\ Applied(n)[c].lists = run[n].open[o]
    <3> DEFINE body == run[n].open[o]
               rewritten == [issues[c] EXCEPT !.mark = Mark[o], !.lists = body]
    <3>1. Applied(n) = [issues EXCEPT ![c].mark = Mark[o], ![c].lists = body]
      BY <2>5 DEF Applied
    <3>2. Applied(n)[c] = rewritten
      BY <1>1, <2>1, <2>4, <3>1 DEF Issues
    <3>3. rewritten.open = issues[c].open /\ rewritten.lists = body
      BY <2>4 DEF Issues
    <3> QED  BY <3>2, <3>3
  <2>6. ASSUME call.verb \in {"reopen", "close"}
        PROVE  Applied(n)[c].open = (call.verb = "reopen")
    <3> DEFINE changed == [issues[c] EXCEPT !.open = (call.verb = "reopen")]
    <3>1. Applied(n) = [issues EXCEPT ![c] = changed]
      BY <2>6 DEF Applied
    <3>2. changed.open = (call.verb = "reopen")
      BY <2>4 DEF Issues
    <3> HIDE DEF changed
    <3>3. Applied(n)[c] = changed
      BY <1>1, <2>1, <3>1
    <3> QED  BY <3>2, <3>3
  <2>7. call.verb = "reopen" => Applied(n)[c].open = TRUE
    BY <2>6
  <2>8. call.verb = "close" => Applied(n)[c].open = FALSE
    BY <2>6
  <2>9. DOMAIN Applied(n) = 1 .. Len(Applied(n)) /\ Len(Applied(n)) >= Len(issues)
    BY <1>1
  <2> HIDE DEF Of
  <2> QED  BY <1>3, <2>1, <2>3, <2>5, <2>7, <2>8, <2>9 DEF Did
<1> QED  BY <1>2, <1>3

(***************************************************************************)
(* A call leaves the issues of the other owners alone.                      *)
(***************************************************************************)
LEMMA AppliedElsewhere ==
    ASSUME Inv, OwnMarks, NEW n \in Notifiers, run[n].pc = "call", run[n].calls # <<>>,
           NEW p \in Owners, p # Turn(run[n].todo)
    PROVE  /\ Of(p, Applied(n)) = Of(p, issues)
           /\ \A i \in Of(p, issues) : Applied(n)[i] = issues[i]
<1> DEFINE o == Turn(run[n].todo)
           call == Head(run[n].calls)
<1>1. issues \in Seq(Issues) /\ o \in Owners /\ Mark[p] # Mark[o]
  BY AppliedIs DEF Inv, TypeOK, OwnMarks
<1>2. CASE call.verb = "create"
  <2> DEFINE new == [mark |-> Mark[o], open |-> TRUE, lists |-> run[n].open[o]]
  <2>1. Applied(n) = Append(issues, new) /\ new.mark = Mark[o]
    BY <1>2, AppliedIs
  <2> HIDE DEF new
  <2>2. /\ \A i \in DOMAIN issues : i \in DOMAIN Append(issues, new) /\ Append(issues, new)[i] = issues[i]
        /\ \A i \in DOMAIN Append(issues, new) \ DOMAIN issues : Append(issues, new)[i] = new
    BY <1>1
  <2> QED  BY <1>1, <2>1, <2>2 DEF Of
<1>3. CASE call.verb # "create"
  <2>1. /\ call.number \in DOMAIN issues /\ issues[call.number].mark = Mark[o]
        /\ DOMAIN Applied(n) = DOMAIN issues
        /\ \A i \in DOMAIN issues : i # call.number => Applied(n)[i] = issues[i]
        /\ \A i \in DOMAIN issues : Applied(n)[i].mark = issues[i].mark
    <3>1. Longer(Applied(n)) /\ Len(Applied(n)) = Len(issues)
      BY <1>3, AppliedIs
    <3>2. DOMAIN Applied(n) = DOMAIN issues /\ \A i \in DOMAIN issues : Applied(n)[i].mark = issues[i].mark
      BY <1>1, <3>1 DEF Longer
    <3>3. /\ call.number \in DOMAIN issues /\ issues[call.number].mark = Mark[o]
          /\ \A i \in DOMAIN issues : i # call.number => Applied(n)[i] = issues[i]
      BY <1>3, AppliedIs
    <3> QED  BY <3>2, <3>3
  <2> QED  BY <1>1, <2>1 DEF Of
<1> QED  BY <1>2, <1>3

\* So they stay settled, or as listed, when no issue of theirs changed and the tracker did not
\* shrink.
LEMMA ElsewhereStays ==
    ASSUME issues \in Seq(Issues), NEW r \in Runs, ListingFits(r, issues), NEW q, NEW p, NEW after,
           q.listing = r.listing, q.open = r.open,
           Len(after) \in Nat, Len(after) >= Len(issues),
           Of(p, after) = Of(p, issues),
           \A i \in Of(p, issues) : after[i] = issues[i]
    PROVE  /\ Settled(r, p, issues) => Settled(q, p, after)
           /\ AsListed(r, p, issues) => AsListed(q, p, after)
<1>1. Listed \in Nat /\ Len(issues) \in Nat
  BY NotifyAssumption
<1>2. Settled(r, p, issues) => Settled(q, p, after)
  <2>1. \A i \in Of(p, issues) : i \in Nat
    BY DEF Of
  <2> QED  BY <1>1, <2>1 DEF Settled, OutOfReach
<1>3. \A k \in FoundAt(r.listing, p) : r.listing[k].number \in Of(p, issues)
  <2> SUFFICES ASSUME NEW k \in FoundAt(r.listing, p) PROVE r.listing[k].number \in Of(p, issues)
    OBVIOUS
  <2>1. r.listing \in Seq(Rows) /\ k \in DOMAIN r.listing /\ r.listing[k].mark = Mark[p]
    BY DEF Runs, FoundAt
  <2>2. r.listing[1] \in Rows /\ r.listing # <<>>
    BY <2>1
  <2>3. Base(r) \in Nat
    BY <2>2 DEF Base, Rows
  <2>4. r.listing[k].number \in DOMAIN issues
    BY <2>1, <2>3 DEF ListingFits
  <2> QED  BY <2>1, <2>4 DEF ListingFits, Of
<1>4. AsListed(r, p, issues) => AsListed(q, p, after)
  BY <1>3 DEF AsListed
<1> QED  BY <1>2, <1>4

(***************************************************************************)
(* A step of the one run that writes nothing.                               *)
(***************************************************************************)
LEMMA QuietCourse ==
    ASSUME Inv, OneRun, NEW n \in Notifiers, NEW q, run' = [run EXCEPT ![n] = q],
           issues' = issues,
           q.pc = "list" => q.todo = DOMAIN q.open,
           Trusted(q) => OnCourse(q, issues)
    PROVE  CourseKept'
<1>1. run'[n] = q
  BY DEF Inv, TypeOK
<1>2. \A m \in Notifiers : m = n
  BY DEF OneRun
<1> QED  BY <1>1, <1>2, Zenon DEF CourseKept

LEMMA KnownAreOwners ==
    ASSUME NEW r \in Runs
    PROVE  DOMAIN r.open \subseteq Owners
BY DEF Runs

(***************************************************************************)
(* A listing says of each issue whether it is open.                         *)
(***************************************************************************)
LEMMA ListingTellsOpen ==
    ASSUME issues \in Seq(Issues), NEW k \in DOMAIN Listing
    PROVE  issues[Listing[k].number].open = Listing[k].open
<1> DEFINE i == Len(issues) + 1 - k
<1>1. Listing[k] = [number |-> i, mark |-> issues[i].mark, open |-> issues[i].open]
  BY DEF Listing
<1> HIDE DEF i
<1> QED  BY <1>1

(***************************************************************************)
(* The run's calls for the owner in turn fit the tracker they are made for. *)
(***************************************************************************)
LEMMA InTurnStarts ==
    ASSUME Inv, Duplicates, NEW n \in Notifiers, run[n].pc = "owner",
           NEW o \in run[n].todo, o \in Owners, AsListed(run[n], o, issues),
           NEW q, q.open = run[n].open,
           q.calls = Calls(run[n].listing, o, run[n].open[o] # {})
    PROVE  IF q.calls = <<>> THEN Settled(q, o, issues) ELSE UnderWay(q, o, issues)
<1> DEFINE r == run[n]
           wanted == r.open[o] # {}
<1>1. /\ issues \in Seq(Issues) /\ r \in Runs /\ r.listing \in Seq(Rows) /\ wanted \in BOOLEAN
      /\ ListingFits(r, issues)
  BY DEF Inv, TypeOK, Runs, ListingKept, AtWork
<1>2. \A i \in Of(o, issues) : i <= Base(r)
  <2> SUFFICES ASSUME NEW i \in Of(o, issues) PROVE i <= Base(r)
    OBVIOUS
  <2>1. NoneOpened(r, issues) /\ Before(r, o)
    BY DEF Duplicates, NoneOpenedYet, Before
  <2>2. ~(i > Base(r))
    BY <2>1 DEF NoneOpened, Of
  <2>3. Base(r) \in Nat
    <3>1. r.listing # <<>> => r.listing[1] \in Rows
      BY <1>1
    <3> QED  BY <3>1 DEF Base, Rows
  <2>4. i \in Nat
    BY <1>1 DEF Of
  <2> QED  BY <2>2, <2>3, <2>4
<1>3. CASE FoundAt(r.listing, o) = {}
  <2>1. \A i \in Of(o, issues) : OutOfReach(i, issues)
    BY <1>1, <1>2, <1>3, UnlistedIsFar
  <2>2. q.calls = IF wanted THEN <<Row("create", 0)>> ELSE <<>>
    BY <1>1, <1>3, CallsAre
  <2>3. CASE wanted
    <3>1. q.calls = <<Row("create", 0)>>
      BY <2>2, <2>3, Zenon
    <3>2. q.calls # <<>>
      BY <3>1, SomeCalls, Zenon
    <3> QED  BY <2>3, <3>1, <3>2 DEF UnderWay
  <2>4. CASE ~wanted
    BY <2>1, <2>2, <2>4 DEF Settled
  <2> QED  BY <2>3, <2>4
<1>4. CASE FoundAt(r.listing, o) # {}
  <2> HIDE DEF wanted
  <2>1. PICK k \in FoundAt(r.listing, o) :
          /\ \A j \in FoundAt(r.listing, o) : k <= j
          /\ LET i == r.listing[k].number
                 open == r.listing[k].open
             IN  Calls(r.listing, o, wanted) =
                   IF wanted /\ ~open THEN <<Row("reopen", i), Row("update", i)>>
                   ELSE IF wanted THEN <<Row("update", i)>>
                   ELSE IF open THEN <<Row("update", i), Row("close", i)>>
                   ELSE <<>>
    BY <1>1, <1>4, CallsAre
  <2> DEFINE i == r.listing[k].number
  <2>2. /\ k \in DOMAIN r.listing /\ r.listing[k].mark = Mark[o] /\ i = Base(r) + 1 - k
        /\ issues[i].mark = Mark[o] /\ issues[i].open = r.listing[k].open
    BY <1>1 DEF FoundAt, ListingFits, AsListed
  <2>3. Base(r) \in Nat /\ k \in Nat /\ k > 0 /\ k <= Base(r)
    <3>1. r.listing # <<>> /\ k \in 1 .. Len(r.listing) /\ Len(r.listing) \in Nat
      BY <1>1, <2>2
    <3>2. r.listing[1] \in Rows
      BY <1>1, <3>1
    <3>3. Base(r) \in Nat
      BY <3>1, <3>2 DEF Base, Rows
    <3> QED  BY <1>1, <3>1, <3>3 DEF ListingFits
  <2>4. i \in Of(o, issues) /\ i \in Nat
    <3>1. i \in Nat /\ i > 0 /\ i <= Base(r)
      BY <2>2, <2>3
    <3>2. Base(r) <= Len(issues) /\ Len(issues) \in Nat
      BY <1>1 DEF ListingFits
    <3>3. i \in DOMAIN issues
      BY <1>1, <2>3, <3>1, <3>2
    <3> QED  BY <2>2, <3>1, <3>3 DEF Of
  <2>5. ASSUME NEW j \in Of(o, issues) \ {i} PROVE OutOfReach(j, issues)
    <3>1. CASE \A m \in FoundAt(r.listing, o) : r.listing[m].number # j
      BY <1>1, <1>2, <3>1, UnlistedIsFar
    <3>2. CASE \E m \in FoundAt(r.listing, o) : r.listing[m].number = j
      <4>1. PICK m \in FoundAt(r.listing, o) : r.listing[m].number = j
        BY <3>2
      <4>2. k <= m /\ m \in Nat /\ j = Base(r) + 1 - m
        BY <1>1, <2>1, <4>1 DEF FoundAt, ListingFits
      <4>3. j < i /\ j \in Nat /\ Len(issues) \in Nat /\ i <= Len(issues)
        BY <1>1, <2>2, <2>3, <2>4, <4>2 DEF Of
      <4>4. i - j > Listed
        BY <2>4, <4>3 DEF Duplicates, DuplicatesAreFarApart, Marked, Of
      <4>5. Listed \in Nat
        BY NotifyAssumption
      <4> HIDE DEF i
      <4> QED  BY <2>4, <4>3, <4>4, <4>5 DEF OutOfReach
    <3> QED  BY <3>1, <3>2
  <2>6. issues[i].open \in BOOLEAN
    <3>1. issues[i] \in Issues
      BY <1>1, <2>4 DEF Of
    <3> QED  BY <3>1 DEF Issues
  <2>7. q.calls = IF wanted /\ ~issues[i].open THEN <<Row("reopen", i), Row("update", i)>>
                  ELSE IF wanted THEN <<Row("update", i)>>
                  ELSE IF issues[i].open THEN <<Row("update", i), Row("close", i)>>
                  ELSE <<>>
    BY <2>1, <2>2 DEF wanted
  <2> HIDE DEF i
  <2>8. CASE wanted /\ ~issues[i].open
    <3>1. q.calls = <<Row("reopen", i), Row("update", i)>>
      BY <2>7, <2>8, Zenon
    <3>2. q.calls # <<>>
      BY <3>1, SomeCalls, Zenon
    <3> QED  BY <2>4, <2>8, <3>1, <3>2 DEF UnderWay, wanted
  <2>9. CASE wanted /\ issues[i].open
    <3>1. q.calls = <<Row("update", i)>>
      BY <2>7, <2>9, Zenon
    <3>2. q.calls # <<>>
      BY <3>1, SomeCalls, Zenon
    <3> QED  BY <2>4, <2>9, <3>1, <3>2 DEF UnderWay, wanted
  <2>10. CASE ~wanted /\ issues[i].open
    <3>1. q.calls = <<Row("update", i), Row("close", i)>>
      BY <2>7, <2>10, Zenon
    <3>2. q.calls # <<>>
      BY <3>1, SomeCalls, Zenon
    <3> QED  BY <2>4, <2>5, <2>10, <3>1, <3>2 DEF UnderWay, wanted
  <2>11. CASE ~wanted /\ ~issues[i].open
    BY <2>4, <2>5, <2>7, <2>11 DEF Settled, wanted
  <2> QED  BY <2>6, <2>8, <2>9, <2>10, <2>11 DEF wanted
<1> QED  BY <1>3, <1>4

(***************************************************************************)
(* A call that works brings the owner in turn one step further.             *)
(***************************************************************************)
LEMMA InTurnAdvances ==
    ASSUME Inv, NEW n \in Notifiers, run[n].pc = "call", run[n].calls # <<>>,
           NEW o, o = Turn(run[n].todo), UnderWay(run[n], o, issues),
           NEW q, q.open = run[n].open, q.calls = Tail(run[n].calls)
    PROVE  IF q.calls = <<>> THEN Settled(q, o, Applied(n)) ELSE UnderWay(q, o, Applied(n))
<1> DEFINE r == run[n]
           after == Applied(n)
<1>0. Did(Head(r.calls), o, r.open[o], after)
  BY AppliedTo
<1>1. \A verb, number : Row(verb, number).verb = verb /\ Row(verb, number).number = number
  BY DEF Row
<1>2. CASE r.calls = <<Row("create", 0)>> /\ r.open[o] # {}
  <2>1. Head(r.calls).verb = "create" /\ q.calls = <<>>
    BY <1>1, <1>2
  <2>2. /\ Len(issues) + 1 \in Of(o, after) /\ after[Len(issues) + 1].open
        /\ after[Len(issues) + 1].lists = r.open[o]
    BY <1>0, <2>1 DEF Did
  <2> HIDE DEF after
  <2> QED  BY <1>2, <2>1, <2>2 DEF Settled, after
<1>3. ASSUME NEW i \in Of(o, issues), r.open[o] # {},
             r.calls = <<Row("reopen", i), Row("update", i)>>
      PROVE  IF q.calls = <<>> THEN Settled(q, o, after) ELSE UnderWay(q, o, after)
  <2>1. Head(r.calls) = Row("reopen", i) /\ q.calls = <<Row("update", i)>>
    BY <1>3
  <2>2. i \in Of(o, after) /\ after[i].open
    BY <1>0, <1>1, <1>3, <2>1 DEF Did
  <2> HIDE DEF after
  <2> QED  BY <1>3, <2>1, <2>2 DEF UnderWay
<1>4. ASSUME NEW i \in Of(o, issues), r.open[o] # {}, issues[i].open,
             r.calls = <<Row("update", i)>>
      PROVE  IF q.calls = <<>> THEN Settled(q, o, after) ELSE UnderWay(q, o, after)
  <2>1. Head(r.calls) = Row("update", i) /\ q.calls = <<>>
    BY <1>4
  <2>2. i \in Of(o, after) /\ after[i].open /\ after[i].lists = r.open[o]
    BY <1>0, <1>1, <1>4, <2>1 DEF Did
  <2> HIDE DEF after
  <2> QED  BY <1>4, <2>1, <2>2 DEF Settled, after
<1>5. ASSUME NEW i \in Of(o, issues), r.open[o] = {},
             r.calls \in {<<Row("update", i), Row("close", i)>>, <<Row("close", i)>>},
             \A j \in Of(o, issues) \ {i} : issues[j].open => OutOfReach(j, issues)
      PROVE  IF q.calls = <<>> THEN Settled(q, o, after) ELSE UnderWay(q, o, after)
  <2>1. Head(r.calls) \in {Row("update", i), Row("close", i)}
    BY <1>5
  <2>2. Head(r.calls).number = i /\ Head(r.calls).verb # "create"
    BY <1>1, <2>1
  <2>3. /\ Of(o, after) = Of(o, issues) /\ Len(after) = Len(issues)
        /\ \A j \in DOMAIN issues \ {i} : after[j] = issues[j]
    BY <1>0, <2>2 DEF Did
  <2>4. \A j \in Of(o, after) \ {i} : after[j].open => OutOfReach(j, after)
    BY <1>5, <2>3 DEF OutOfReach, Of
  <2>5. CASE r.calls = <<Row("update", i), Row("close", i)>>
    <3>1. q.calls = <<Row("close", i)>>
      BY <2>5
    <3>2. q.calls # <<>>
      BY <3>1, SomeCalls, Zenon
    <3> HIDE DEF after
    <3>3. UnderWay(q, o, after)
      BY <1>5, <2>3, <2>4, <3>1 DEF UnderWay
    <3> QED  BY <3>2, <3>3, Zenon DEF after
  <2>6. CASE r.calls = <<Row("close", i)>>
    <3>1. Head(r.calls) = Row("close", i) /\ q.calls = <<>>
      BY <2>6
    <3>2. after[i].open = FALSE
      BY <1>0, <1>1, <3>1 DEF Did
    <3> HIDE DEF after
    <3> QED  BY <1>5, <2>4, <3>1, <3>2 DEF Settled, after
  <2> QED  BY <1>5, <2>5, <2>6
<1> HIDE DEF after
<1>6. \/ r.calls = <<Row("create", 0)>> /\ r.open[o] # {}
      \/ \E i \in Of(o, issues) :
         \/ r.open[o] # {} /\ r.calls = <<Row("reopen", i), Row("update", i)>>
         \/ r.open[o] # {} /\ r.calls = <<Row("update", i)>> /\ issues[i].open
         \/ /\ r.open[o] = {}
            /\ r.calls \in {<<Row("update", i), Row("close", i)>>, <<Row("close", i)>>}
            /\ \A j \in Of(o, issues) \ {i} : issues[j].open => OutOfReach(j, issues)
  BY DEF UnderWay
<1> QED  BY <1>2, <1>3, <1>4, <1>5, <1>6 DEF after

(***************************************************************************)
(* What a run does by itself.                                               *)
(***************************************************************************)
LEMMA RunCourse ==
    ASSUME Inv, Duplicates, CourseKept, OneRun, NEW n \in Notifiers,
           \/ Start(n) \/ ListIssues(n) \/ NextOwner(n) \/ OwnerDone(n) \/ Finish(n) \/ Exit(n)
           \/ Killed(n)
    PROVE  CourseKept'
<1> DEFINE r == run[n]
<1>1. /\ r \in Runs /\ run \in [Notifiers -> Runs] /\ issues \in Seq(Issues)
      /\ r.todo \subseteq DOMAIN r.open /\ DOMAIN r.open \subseteq Owners
  BY KnownAreOwners DEF Inv, TypeOK
<1>2. /\ r.pc = "list" => r.todo = DOMAIN r.open
      /\ Trusted(r) => OnCourse(r, issues)
  BY DEF CourseKept
<1>3. CASE Start(n)
  <2> DEFINE open == [o \in Known |-> OpenOf(o)]
             q == [r EXCEPT !.pc = "list", !.todo = Known, !.open = open]
  <2>1. q.pc = "list" /\ q.todo = DOMAIN q.open
    BY <1>1 DEF Runs
  <2>2. run' = [run EXCEPT ![n] = q] /\ issues' = issues
    BY <1>1, <1>3 DEF Start
  <2> HIDE DEF q
  <2> QED  BY <2>1, <2>2, QuietCourse DEF Trusted, AtWork
<1>4. CASE ListIssues(n)
  <2> DEFINE q == [r EXCEPT !.pc = "owner", !.listing = Listing]
  <2>1. q.pc = "owner" /\ q.listing = Listing /\ q.open = r.open /\ q.todo = DOMAIN q.open
    BY <1>1, <1>2, <1>4 DEF Runs, ListIssues
  <2>2. run' = [run EXCEPT ![n] = q] /\ issues' = issues
    BY <1>4 DEF ListIssues
  <2> HIDE DEF q
  <2>3. \A p \in DOMAIN q.open : AsListed(q, p, issues)
    BY <1>1, <2>1, ListingTellsOpen DEF AsListed, FoundAt
  <2>4. OnCourse(q, issues)
    BY <2>1, <2>3 DEF OnCourse, OwnerOnCourse, InTurn
  <2> QED  BY <2>1, <2>2, <2>4, QuietCourse
<1>5. CASE NextOwner(n)
  <2> DEFINE o == Turn(r.todo)
             calls == Calls(r.listing, o, r.open[o] # {})
             q == [r EXCEPT !.pc = "call", !.calls = calls]
  <2> HIDE DEF calls
  <2>1. /\ q.pc = "call" /\ q.listing = r.listing /\ q.open = r.open /\ q.todo = r.todo
        /\ q.calls = calls /\ q.alone = r.alone /\ q.failed = r.failed /\ r.pc = "owner" /\ r.todo # {}
    BY <1>1, <1>5 DEF Runs, NextOwner
  <2>2. run' = [run EXCEPT ![n] = q] /\ issues' = issues
    BY <1>5 DEF NextOwner, calls
  <2> HIDE DEF q
  <2>3. o \in r.todo /\ o \in Owners
    BY <1>1, <2>1, TurnIsToDo
  <2>4. ASSUME Trusted(q) PROVE OnCourse(q, issues)
    <3>1. OnCourse(r, issues)
      BY <1>2, <2>1, <2>4 DEF Trusted, AtWork
    <3>2. ASSUME NEW p \in DOMAIN q.open PROVE OwnerOnCourse(q, p, issues)
      <4>1. OwnerOnCourse(r, p, issues) /\ ~InTurn(r, p)
        BY <2>1, <3>1 DEF OnCourse, InTurn
      <4>2. CASE p \notin q.todo
        BY <2>1, <4>1, <4>2 DEF OwnerOnCourse, Settled
      <4>3. CASE p \in q.todo /\ p # o
        BY <2>1, <4>1, <4>3 DEF OwnerOnCourse, InTurn, AsListed
      <4>4. CASE p = o
        <5>1. AsListed(r, o, issues)
          BY <2>3, <4>1, <4>4 DEF OwnerOnCourse
        <5>2. IF q.calls = <<>> THEN Settled(q, o, issues) ELSE UnderWay(q, o, issues)
          BY <2>1, <2>3, <5>1, InTurnStarts DEF calls
        <5>3. InTurn(q, o) /\ o \in q.todo
          BY <2>1, <2>3 DEF InTurn
        <5> HIDE DEF o
        <5> QED  BY <4>4, <5>2, <5>3, Zenon DEF OwnerOnCourse
      <4> QED  BY <4>2, <4>3, <4>4
    <3> QED  BY <2>1, <3>2 DEF OnCourse
  <2> QED  BY <2>1, <2>2, <2>4, QuietCourse
<1>6. CASE OwnerDone(n)
  <2> DEFINE o == Turn(r.todo)
             q == [r EXCEPT !.pc = "owner", !.todo = @ \ {Turn(@)}]
  <2>1. /\ q.pc = "owner" /\ q.listing = r.listing /\ q.open = r.open /\ q.todo = r.todo \ {o}
        /\ q.alone = r.alone /\ q.failed = r.failed /\ r.pc = "call" /\ r.calls = <<>>
    BY <1>1, <1>6 DEF Runs, OwnerDone
  <2>2. run' = [run EXCEPT ![n] = q] /\ issues' = issues
    BY <1>6 DEF OwnerDone
  <2> HIDE DEF q
  <2>3. ASSUME Trusted(q) PROVE OnCourse(q, issues)
    <3>1. OnCourse(r, issues)
      BY <1>2, <2>1, <2>3 DEF Trusted, AtWork
    <3>2. ASSUME NEW p \in DOMAIN q.open PROVE OwnerOnCourse(q, p, issues)
      <4>1. OwnerOnCourse(r, p, issues) /\ ~InTurn(q, p)
        BY <2>1, <3>1 DEF OnCourse, InTurn
      <4>2. CASE p \notin q.todo
        <5>1. Settled(r, p, issues)
          BY <2>1, <4>1, <4>2 DEF OwnerOnCourse, InTurn
        <5> QED  BY <2>1, <4>2, <5>1 DEF OwnerOnCourse, Settled
      <4>3. CASE p \in q.todo
        <5>1. AsListed(r, p, issues)
          BY <2>1, <4>1, <4>3 DEF OwnerOnCourse, InTurn
        <5> QED  BY <2>1, <4>1, <4>3, <5>1 DEF OwnerOnCourse, AsListed
      <4> QED  BY <4>2, <4>3
    <3> QED  BY <2>1, <3>2 DEF OnCourse
  <2> QED  BY <2>1, <2>2, <2>3, QuietCourse
<1>7. CASE Finish(n)
  <2> DEFINE q == [r EXCEPT !.pc = "done"]
  <2>1. /\ q.pc = "done" /\ q.open = r.open /\ q.todo = r.todo /\ r.pc = "owner" /\ r.todo = {}
        /\ q.alone = r.alone /\ q.failed = r.failed
    BY <1>1, <1>7 DEF Runs, Finish
  <2>2. run' = [run EXCEPT ![n] = q] /\ issues' = issues
    BY <1>7 DEF Finish
  <2> HIDE DEF q
  <2>3. ASSUME Trusted(q) PROVE OnCourse(q, issues)
    <3>1. OnCourse(r, issues)
      BY <1>2, <2>1, <2>3 DEF Trusted, AtWork
    <3> QED  BY <2>1, <3>1 DEF OnCourse, OwnerOnCourse, Settled
  <2> QED  BY <2>1, <2>2, <2>3, QuietCourse
<1>8. CASE Exit(n) \/ Killed(n)
  <2>1. run' = [run EXCEPT ![n] = NoRun] /\ issues' = issues
    BY <1>8 DEF Exit, Killed
  <2> QED  BY <2>1, NoRunIsTyped, QuietCourse DEF Trusted, AtWork
<1> QED  BY <1>3, <1>4, <1>5, <1>6, <1>7, <1>8

(***************************************************************************)
(* A call that works, and one that is told as failed.                       *)
(***************************************************************************)
LEMMA CallCourse ==
    ASSUME Inv, CourseKept, OneRun, OwnMarks, NEW n \in Notifiers,
           CallWorks(n) \/ \E carriedOut \in BOOLEAN : CallFails(n, carriedOut)
    PROVE  CourseKept'
<1> DEFINE r == run[n]
           o == Turn(r.todo)
           q == run'[n]
<1>1. /\ r \in Runs /\ issues \in Seq(Issues) /\ r.pc = "call" /\ r.calls # <<>>
      /\ r.todo \subseteq DOMAIN r.open /\ DOMAIN r.open \subseteq Owners
      /\ ListingFits(r, issues)
  BY KnownAreOwners DEF Inv, TypeOK, CallWorks, CallFails, ListingKept, AtWork
<1>2. \A m \in Notifiers : m = n
  BY DEF OneRun
<1>3. CASE CallWorks(n)
  <2>1. q = [r EXCEPT !.calls = Tail(r.calls), !.failed = r.failed] /\ issues' = Applied(n)
    BY <1>3 DEF CallWorks, RunAfterCall
  <2>2. /\ q.pc = "call" /\ q.listing = r.listing /\ q.open = r.open /\ q.todo = r.todo
        /\ q.calls = Tail(r.calls) /\ q.alone = r.alone /\ q.failed = r.failed
    BY <1>1, <2>1 DEF Runs
  <2>3. o \in r.todo /\ o \in Owners /\ Len(Applied(n)) \in Nat /\ Len(Applied(n)) >= Len(issues)
    <3>1. o \in r.todo /\ o \in Owners /\ Longer(Applied(n))
      BY <1>1, AppliedIs
    <3>2. Applied(n) \in Seq(Issues) /\ Len(Applied(n)) >= Len(issues)
      BY <3>1 DEF Longer
    <3> QED  BY <3>1, <3>2
  <2> HIDE DEF q, r
  <2>4. ASSUME Trusted(q) PROVE OnCourse(q, Applied(n))
    <3>1. OnCourse(r, issues)
      BY <1>1, <2>2, <2>4 DEF Trusted, AtWork, CourseKept, r
    <3>2. ASSUME NEW p \in DOMAIN q.open PROVE OwnerOnCourse(q, p, Applied(n))
      <4>1. OwnerOnCourse(r, p, issues) /\ p \in Owners
        BY <1>1, <2>2, <3>1 DEF OnCourse
      <4>2. CASE p = o
        <5>1. UnderWay(r, o, issues)
          BY <1>1, <2>3, <4>1, <4>2 DEF OwnerOnCourse, InTurn
        <5>2. IF q.calls = <<>> THEN Settled(q, o, Applied(n)) ELSE UnderWay(q, o, Applied(n))
          BY <1>1, <2>2, <5>1, InTurnAdvances DEF r
        <5>3. InTurn(q, o) /\ o \in q.todo
          BY <2>2, <2>3 DEF InTurn
        <5> HIDE DEF o
        <5> QED  BY <4>2, <5>2, <5>3, Zenon DEF OwnerOnCourse
      <4>3. CASE p # o
        <5>1. Of(p, Applied(n)) = Of(p, issues) /\ \A i \in Of(p, issues) : Applied(n)[i] = issues[i]
          BY <1>1, <4>1, <4>3, AppliedElsewhere DEF r
        <5>2. /\ Settled(r, p, issues) => Settled(q, p, Applied(n))
              /\ AsListed(r, p, issues) => AsListed(q, p, Applied(n))
          BY <1>1, <2>2, <2>3, <5>1, ElsewhereStays
        <5>3. ~InTurn(r, p) /\ ~InTurn(q, p)
          BY <2>2, <4>3 DEF InTurn
        <5> QED  BY <2>2, <4>1, <5>2, <5>3 DEF OwnerOnCourse
      <4> QED  BY <4>2, <4>3
    <3> QED  BY <2>2, <3>2 DEF OnCourse
  <2>5. ASSUME NEW m \in Notifiers
        PROVE  /\ run'[m].pc = "list" => run'[m].todo = DOMAIN run'[m].open
               /\ Trusted(run'[m]) => OnCourse(run'[m], issues')
    <3>1. m = n
      BY <1>2
    <3> QED  BY <2>1, <2>2, <2>4, <3>1 DEF q
  <2> QED  BY <2>5, Zenon DEF CourseKept
<1>4. ASSUME NEW carriedOut \in BOOLEAN, CallFails(n, carriedOut)
      PROVE  CourseKept'
  <2>1. q = [r EXCEPT !.calls = <<>>, !.failed = TRUE]
    BY <1>4 DEF CallFails, RunAfterCall
  <2>2. q.pc = "call" /\ q.failed = TRUE
    BY <1>1, <2>1 DEF Runs
  <2>3. ASSUME NEW m \in Notifiers
        PROVE  /\ run'[m].pc = "list" => run'[m].todo = DOMAIN run'[m].open
               /\ Trusted(run'[m]) => OnCourse(run'[m], issues')
    <3>1. m = n
      BY <1>2
    <3> HIDE DEF q
    <3> QED  BY <2>2, <3>1 DEF q, Trusted
  <2> QED  BY <2>3, Zenon DEF CourseKept
<1> QED  BY <1>3, <1>4

(***************************************************************************)
(* A run that people overtook is not trusted any more.                      *)
(***************************************************************************)
LEMMA PeopleCourse ==
    ASSUME Inv, CourseKept, NEW after, PeopleWrite(after)
    PROVE  CourseKept'
<1> SUFFICES ASSUME NEW m \in Notifiers
             PROVE  /\ run'[m].pc = "list" => run'[m].todo = DOMAIN run'[m].open
                    /\ Trusted(run'[m]) => OnCourse(run'[m], issues')
  BY Zenon DEF CourseKept
<1>1. run[m] \in Runs /\ run'[m] = Overtaken(run[m])
  BY DEF Inv, TypeOK, PeopleWrite
<1>2. /\ Overtaken(run[m]).pc = run[m].pc /\ Overtaken(run[m]).todo = run[m].todo
      /\ Overtaken(run[m]).open = run[m].open
      /\ run[m].pc \in AtWork => Overtaken(run[m]).alone = FALSE
  BY <1>1, OvertakenIs
<1>3. run[m].pc = "list" => run[m].todo = DOMAIN run[m].open
  BY DEF CourseKept
<1> QED  BY <1>1, <1>2, <1>3 DEF Trusted

LEMMA CourseStep ==
    ASSUME Inv, Duplicates, CourseKept, OneRun, OwnMarks, [Next]_vars
    PROVE  CourseKept'
<1>1. ASSUME UNCHANGED <<run, issues>>
      PROVE  CourseKept'
  <2> SUFFICES ASSUME NEW m \in Notifiers
               PROVE  /\ run'[m].pc = "list" => run'[m].todo = DOMAIN run'[m].open
                      /\ Trusted(run'[m]) => OnCourse(run'[m], issues')
    BY Zenon DEF CourseKept
  <2> QED  BY <1>1 DEF CourseKept
<1>2. ASSUME NEW n \in Notifiers, Advance(n)
      PROVE  CourseKept'
  BY <1>2, RunCourse, CallCourse DEF Advance
<1>3. ASSUME NEW n \in Notifiers, NEW carriedOut \in BOOLEAN, CallFails(n, carriedOut)
      PROVE  CourseKept'
  BY <1>3, CallCourse
<1>4. ASSUME NEW n \in Notifiers, Killed(n)
      PROVE  CourseKept'
  BY <1>4, RunCourse
<1>5. CASE OpenAnother
  BY <1>5, PeopleCourse DEF OpenAnother
<1>6. ASSUME NEW i \in DOMAIN issues, Toggle(i) \/ Edit(i)
      PROVE  CourseKept'
  BY <1>6, PeopleCourse DEF Toggle, Edit
<1>7. ASSUME NEW present \in SUBSET Findings, NEW read \in SUBSET Repos, Record(present, read)
      PROVE  CourseKept'
  BY <1>1, <1>7 DEF Record
<1>8. ASSUME NEW repo \in Repos, NEW o \in Owners, Reassign(repo, o)
      PROVE  CourseKept'
  BY <1>1, <1>8 DEF Reassign
<1>9. CASE UNCHANGED vars
  BY <1>1, <1>9 DEF vars
<1> QED  BY <1>2, <1>3, <1>4, <1>5, <1>6, <1>7, <1>8, <1>9 DEF Next

(***************************************************************************)
(* A run that ends 0 and that nobody overtook left every owner it knew with *)
(* its issue in line, for runs that follow one another and owners with a    *)
(* marker each.                                                             *)
(***************************************************************************)
THEOREM ZeroLeavesInLine ==
    ASSUME OneRun, OwnMarks
    PROVE  Spec => []ZeroMeansInLine
<1>1. Init => Duplicates /\ CourseKept
  <2> SUFFICES ASSUME Init PROVE Duplicates /\ CourseKept
    OBVIOUS
  <2>1. issues = <<>> /\ \A n \in Notifiers : run[n].pc = "idle"
    BY NoRunIsTyped DEF Init
  <2>2. CourseKept
    BY <2>1 DEF CourseKept, Trusted, AtWork
  <2> QED  BY <2>1, <2>2 DEF Duplicates, DuplicatesAreFarApart, Marked, NoneOpenedYet
<1>2. Inv /\ [Next]_vars => Inv'
  BY StepInv
<1>3. Inv /\ Duplicates /\ [Next]_vars => Duplicates'
  BY DuplicatesStep
<1>4. Inv /\ Duplicates /\ CourseKept /\ [Next]_vars => CourseKept'
  BY CourseStep
<1>5. Inv /\ CourseKept => ZeroMeansInLine
  <2> SUFFICES ASSUME Inv, CourseKept, NEW n \in Notifiers, run[n].pc = "done",
                      ExitCode(run[n]) = 0, run[n].alone, NEW o \in DOMAIN run[n].open
               PROVE  IF run[n].open[o] # {}
                      THEN \E i \in Marked(o) : issues[i].open /\ issues[i].lists = run[n].open[o]
                      ELSE \A i \in Marked(o) : issues[i].open => i <= Len(issues) - Listed
    BY DEF ZeroMeansInLine
  <2>1. OnCourse(run[n], issues)
    BY DEF CourseKept, Trusted, AtWork, ExitCode
  <2>2. Settled(run[n], o, issues)
    BY <2>1 DEF OnCourse, OwnerOnCourse
  <2> QED  BY <2>2 DEF Settled, Of, Marked, OutOfReach
<1> QED  BY <1>1, <1>2, <1>3, <1>4, <1>5, InitInv, PTL DEF Spec
=============================================================================
