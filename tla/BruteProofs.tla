----------------------------- MODULE BruteProofs -----------------------------
(***************************************************************************)
(* Proofs about Brute for every word list, pool size and zone.             *)
(***************************************************************************)
EXTENDS BruteProgress, FiniteSetTheorems, TLAPS

LEMMA HasOf == Has("A") = HasA /\ Has("AAAA") = HasAAAA /\ Has("CNAME") = HasCNAME
BY DEF Has

LEMMA AfterOf == After("A") = "AAAA" /\ After("AAAA") = "CNAME" /\ After("CNAME") = "idle"
BY DEF After

LEMMA HasResolves == ASSUME NEW t \in Types, NEW w \in Has(t) PROVE w \in Resolving /\ w \in Words
BY HasOf, BruteAssumption DEF Types, Resolving, BruteAssumption

LEMMA AfterType == ASSUME NEW t \in Types PROVE After(t) \in {"AAAA", "CNAME", "idle"}
BY AfterOf DEF Types

\* Where Brute stands: what it will return is decided when it leaves the loop,
\* its workers are at rest before the list is loaded and after it has returned.
Phases ==
    /\ ret = "none" <=> main \in {"loading", "sending"}
    /\ ret = "nil" => next = NWords + 1
    /\ main = "waiting" /\ ret = "error" => ctx # "live"
    /\ closed => main \in {"waiting", "returned"}
    /\ main = "loading" => next = 1 /\ found = {} /\ \A k \in Workers : at[k] = "idle"
    /\ main = "returned" => \A k \in Workers : at[k] \in {"idle", "exited"}

\* A worker that is busy has a word, and adds only one that resolves.
Busy == \A k \in Workers :
    /\ at[k] \in Types \cup {"add"} => word[k] \in Words
    /\ at[k] = "add" => word[k] \in Resolving

\* Worker k can still find w: no query with an answer is behind it.
MayFind(k, w) == word[k] = w /\ (\/ at[k] = "add"
                                 \/ at[k] = "A"
                                 \/ at[k] = "AAAA" /\ w \notin HasA
                                 \/ at[k] = "CNAME" /\ w \notin HasA \cup HasAAAA)

OnlyResolving == found \subseteq Resolving

\* An error comes of the context, or of a list of which nothing was looked up.
ErrorIsExplained == main = "returned" /\ ret = "error" =>
    ctx # "live" \/ (found = {} /\ next = 1)

\* Every word sent is found, lost, or still in the hands of a worker.
Handled == \A w \in Resolving : w < next =>
    w \in found \/ w \in lost \/ \E k \in Workers : MayFind(k, w)

Inv == TypeOK /\ OnlyResolving /\ ErrorIsExplained /\ Phases /\ Busy /\ Handled

LEMMA InvHolds == Spec => []Inv
<1> USE BruteAssumption DEF BruteAssumption, Words
<1>1. Init => Inv
  <2> SUFFICES ASSUME Init PROVE Inv
    OBVIOUS
  <2>1. TypeOK
    <3>1. next \in 1..NWords + 1 /\ word \in [Workers -> 0..NWords]
      BY DEF Init
    <3> QED BY <3>1, Zenon DEF Init, TypeOK
  <2>2. OnlyResolving /\ ErrorIsExplained /\ Phases /\ Busy
    BY DEF Init, OnlyResolving, ErrorIsExplained, Phases, Busy, Types
  <2>3. Handled
    BY DEF Init, Handled, Resolving
  <2> QED BY <2>1, <2>2, <2>3 DEF Inv
<1>2. ASSUME Inv, [Next]_vars PROVE Inv'
  <2> USE DEF Inv, TypeOK
  <2>1. ASSUME NEW cause \in CtxCauses, CtxEnds(cause) PROVE Inv'
    BY <1>2, <2>1 DEF CtxEnds, mainVars, poolVars, OnlyResolving, ErrorIsExplained,
       Phases, Busy, Handled, MayFind
  <2>2. CASE LoadWords
    BY <1>2, <2>2 DEF LoadWords, poolVars, OnlyResolving, ErrorIsExplained,
       Phases, Busy, Handled, MayFind
  <2>3. CASE LoadFails
    BY <1>2, <2>3 DEF LoadFails, poolVars, OnlyResolving, ErrorIsExplained,
       Phases, Busy, Handled, MayFind
  <2>4. CASE Abandon
    BY <1>2, <2>4 DEF Abandon, poolVars, OnlyResolving, ErrorIsExplained,
       Phases, Busy, Handled, MayFind
  <2>5. CASE Close
    BY <1>2, <2>5 DEF Close, More, poolVars, OnlyResolving, ErrorIsExplained,
       Phases, Busy, Handled, MayFind
  <2>6. CASE Return
    BY <1>2, <2>6 DEF Return, PoolDone, poolVars, OnlyResolving, ErrorIsExplained,
       Phases, Busy, Handled, MayFind
  <2>7. ASSUME NEW k \in Workers, Send(k) PROVE Inv'
    <3>1. TypeOK'
      BY <1>2, <2>7, AfterType, HasResolves DEF Send, More, Types, Busy
    <3>2. OnlyResolving' /\ ErrorIsExplained'
      BY <1>2, <2>7 DEF Send, More, OnlyResolving, ErrorIsExplained, Busy, Phases, Types
    <3>3. Phases'
      BY <1>2, <2>7, AfterType DEF Send, More, Phases, Types
    <3>4. Busy'
      BY <1>2, <2>7, AfterType, HasResolves DEF Send, More, Busy, Types
    <3>5. Handled'
      BY <1>2, <2>7, AfterOf, HasOf DEF Send, More, Handled, MayFind, Types, Resolving
    <3> QED BY <3>1, <3>2, <3>3, <3>4, <3>5
  <2>8. ASSUME NEW k \in Workers, Resolves(k) PROVE Inv'
    <3>1. TypeOK'
      BY <1>2, <2>8, AfterType, HasResolves DEF Resolves, Answers, mainVars, Types, Busy
    <3>2. OnlyResolving' /\ ErrorIsExplained'
      BY <1>2, <2>8 DEF Resolves, Answers, mainVars, OnlyResolving, ErrorIsExplained, Busy, Phases, Types
    <3>3. Phases'
      BY <1>2, <2>8, AfterType DEF Resolves, Answers, mainVars, Phases, Types
    <3>4. Busy'
      BY <1>2, <2>8, AfterType, HasResolves DEF Resolves, Answers, mainVars, Busy, Types
    <3>5. Handled'
      BY <1>2, <2>8, AfterOf, HasOf DEF Resolves, Answers, mainVars, Handled, MayFind, Types, Resolving
    <3> QED BY <3>1, <3>2, <3>3, <3>4, <3>5
  <2>9. ASSUME NEW k \in Workers, YieldsNothing(k) PROVE Inv'
    <3>1. TypeOK'
      BY <1>2, <2>9, AfterType, HasResolves DEF YieldsNothing, mainVars, Types, Busy
    <3>2. OnlyResolving' /\ ErrorIsExplained'
      BY <1>2, <2>9 DEF YieldsNothing, mainVars, OnlyResolving, ErrorIsExplained, Busy, Phases, Types
    <3>3. Phases'
      BY <1>2, <2>9, AfterType DEF YieldsNothing, mainVars, Phases, Types
    <3>4. Busy'
      BY <1>2, <2>9, AfterType, HasResolves DEF YieldsNothing, mainVars, Busy, Types
    <3>5. Handled'
      BY <1>2, <2>9, AfterOf, HasOf DEF YieldsNothing, mainVars, Handled, MayFind, Types, Resolving
    <3> QED BY <3>1, <3>2, <3>3, <3>4, <3>5
  <2>10. ASSUME NEW k \in Workers, AddHost(k) PROVE Inv'
    <3>1. TypeOK'
      BY <1>2, <2>10, AfterType, HasResolves DEF AddHost, mainVars, Types, Busy
    <3>2. OnlyResolving' /\ ErrorIsExplained'
      BY <1>2, <2>10 DEF AddHost, mainVars, OnlyResolving, ErrorIsExplained, Busy, Phases, Types
    <3>3. Phases'
      BY <1>2, <2>10, AfterType DEF AddHost, mainVars, Phases, Types
    <3>4. Busy'
      BY <1>2, <2>10, AfterType, HasResolves DEF AddHost, mainVars, Busy, Types
    <3>5. Handled'
      BY <1>2, <2>10, AfterOf, HasOf DEF AddHost, mainVars, Handled, MayFind, Types, Resolving
    <3> QED BY <3>1, <3>2, <3>3, <3>4, <3>5
  <2>11. ASSUME NEW k \in Workers, Exit(k) PROVE Inv'
    <3>1. TypeOK'
      BY <1>2, <2>11, AfterType, HasResolves DEF Exit, mainVars, Types, Busy
    <3>2. OnlyResolving' /\ ErrorIsExplained'
      BY <1>2, <2>11 DEF Exit, mainVars, OnlyResolving, ErrorIsExplained, Busy, Phases, Types
    <3>3. Phases'
      BY <1>2, <2>11, AfterType DEF Exit, mainVars, Phases, Types
    <3>4. Busy'
      BY <1>2, <2>11, AfterType, HasResolves DEF Exit, mainVars, Busy, Types
    <3>5. Handled'
      BY <1>2, <2>11, AfterOf, HasOf DEF Exit, mainVars, Handled, MayFind, Types, Resolving
    <3> QED BY <3>1, <3>2, <3>3, <3>4, <3>5
  <2>12. CASE UNCHANGED vars
    BY <1>2, <2>12 DEF vars, OnlyResolving, ErrorIsExplained, Phases, Busy, Handled, MayFind
  <2> QED
    BY <1>2, <2>1, <2>2, <2>3, <2>4, <2>5, <2>6, <2>7, <2>8, <2>9, <2>10, <2>11, <2>12
    DEF Next, MainStep, WorkerStep
<1> QED BY <1>1, <1>2, PTL DEF Spec
------------------------------------------------------------------------------
\* Every state of Brute is made of values of the expected kinds.
THEOREM TypeCorrect == Spec => []TypeOK
BY InvHolds, PTL DEF Inv

\* What Brute finds exists, and when it returns nil no word of the list was left
\* out: one that resolves is in the set, or some answer about it was lost.
THEOREM FindsWhatResolvesHolds == Spec => []FindsWhatResolves
<1>1. Inv => FindsWhatResolves
  <2> SUFFICES ASSUME Inv, main = "returned", ret = "nil", NEW w \in Resolving
               PROVE  w \in found \/ w \in lost
    BY DEF FindsWhatResolves, Inv, OnlyResolving
  <2>1. w < next
    BY BruteAssumption DEF BruteAssumption, Inv, Phases, Resolving, Words
  <2>2. \A k \in Workers : ~MayFind(k, w)
    BY DEF Inv, Phases, MayFind
  <2> QED BY <2>1, <2>2 DEF Inv, Handled
<1> QED BY <1>1, InvHolds, PTL
------------------------------------------------------------------------------
(* Brute as the source of module Discovery. *)

LEMMA SourcesOf == AsSource!Sources = {"crtsh", "brute"} /\ AsSource!Budgeted = {"crtsh"}
BY DEF AsSource!Sources, AsSource!Budgeted

\* What Discovery sees of Brute: the context, the hosts found and the return.
LEMMA Unseen ==
    ASSUME ctx' = ctx, found' = found, (main' = "returned") = (main = "returned"),
           main = "returned" => ret' = ret
    PROVE  UNCHANGED AsSource!vars
<1>1. \A s \in {"crtsh", "brute"} :
        (s = "brute" /\ main' = "returned" /\ ret' = "error") = (s = "brute" /\ main = "returned" /\ ret = "error")
  OBVIOUS
<1> QED BY <1>1 DEF AsSource!vars

LEMMA SeenFinding ==
    ASSUME NEW w \in 0..NWords, w # 0, w \notin found, found' = found \cup {w},
           main # "returned", UNCHANGED <<ctx, main, ret>>
    PROVE  AsSource!BruteFinds(w)
<1> DEFINE seen(set) == [h \in 0..NWords |->
                           IF h = 0 THEN {"seed"} ELSE {s \in {"brute"} : h \in set}]
<1>1. "brute" \notin seen(found)[w]
  OBVIOUS
<1>2. seen(found') = [seen(found) EXCEPT ![w] = seen(found)[w] \cup {"brute"}]
  OBVIOUS
<1>3. seen(found)' = seen(found')
  OBVIOUS
<1> QED BY <1>1, <1>2, <1>3 DEF AsSource!BruteFinds, AsSource!mainVars

\* Brute implements the source "brute" of Discovery: hosts are added while it
\* runs, none once it has returned, and an error has the cause that Discovery
\* gives it (brute.go:45-55).
THEOREM PlaysItsPartHolds == Spec => PlaysItsPart
<1>1. Init => AsSource!Init
  BY SourcesOf DEF Init, AsSource!Init
<1>2. ASSUME Inv, [Next]_vars PROVE [AsSource!Next]_(AsSource!vars)
  <2> USE <1>2 DEF Inv
  <2>1. ASSUME NEW cause \in CtxCauses, CtxEnds(cause) PROVE AsSource!Next
    <3>1. AsSource!CtxEnds(cause)
      BY <2>1, SourcesOf DEF CtxEnds, mainVars, poolVars, AsSource!CtxEnds,
         AsSource!sourceVars, AsSource!mainVars
    <3> QED BY <2>1, <3>1 DEF AsSource!Next
  <2>2. ASSUME NEW k \in Workers, AddHost(k), word[k] \notin found PROVE AsSource!Next
    <3>1. /\ main # "returned" /\ UNCHANGED <<ctx, main, ret>> /\ found' = found \cup {word[k]}
          /\ word[k] \in 0..NWords /\ word[k] # 0
      BY <2>2, BruteAssumption DEF AddHost, Phases, Busy, mainVars, Words, BruteAssumption
    <3>2. PICK w \in 0..NWords : w # 0 /\ w \notin found /\ found' = found \cup {w}
      BY <2>2, <3>1
    <3>3. AsSource!BruteStep
      BY <3>1, <3>2, SeenFinding DEF AsSource!BruteStep
    <3> QED BY <3>3, Zenon DEF AsSource!Next
  <2>3. CASE Return \/ LoadFails
    <3>1. /\ main # "returned" /\ main' = "returned" /\ UNCHANGED <<ctx, found>>
          /\ ret' \in {"nil", "error"}
          /\ ret' = "error" => ctx # "live" \/ found = {}
      BY <2>3 DEF Return, LoadFails, Phases, TypeOK, poolVars
    <3>2. AsSource!BruteReturns
      BY <3>1 DEF AsSource!BruteReturns, AsSource!Return, AsSource!mainVars
    <3> QED BY <3>2 DEF AsSource!Next, AsSource!BruteStep
  <2>4. ASSUME NEW k \in Workers, Send(k) \/ Resolves(k) \/ YieldsNothing(k) \/ Exit(k)
        PROVE  UNCHANGED AsSource!vars
    BY <2>4, Unseen DEF Send, Resolves, YieldsNothing, Exit, mainVars
  <2>5. ASSUME NEW k \in Workers, AddHost(k), word[k] \in found
        PROVE  UNCHANGED AsSource!vars
    BY <2>5, Unseen DEF AddHost, mainVars
  <2>6. CASE LoadWords \/ Abandon \/ Close
    BY <2>6, Unseen DEF LoadWords, Abandon, Close, poolVars
  <2>7. CASE UNCHANGED vars
    BY <2>7, Unseen DEF vars
  <2> QED BY <2>1, <2>2, <2>3, <2>4, <2>5, <2>6, <2>7 DEF Next, MainStep, WorkerStep
<1> QED BY <1>1, <1>2, InvHolds, PTL DEF Spec, PlaysItsPart, AsSource!Spec
------------------------------------------------------------------------------
(* Progress. *)

Busy1(k) == at[k] \in Types \cup {"add"}

\* A word is with one worker at most, and has left the loop; the channel is
\* closed once Brute waits, and no worker leaves before that.
Orderly ==
    /\ \A k \in Workers : Busy1(k) => word[k] \in Words /\ word[k] < next
    /\ \A k, l \in Workers : k # l /\ Busy1(k) /\ Busy1(l) => word[k] # word[l]
    /\ main = "waiting" => closed
    /\ \A k \in Workers : at[k] = "exited" => closed

LEMMA OrderlyHolds == Spec => []Orderly
<1> USE DEF Busy1
<1>1. Init => Orderly
  BY DEF Init, Orderly, Types
<1>2. ASSUME Inv, Orderly, [Next]_vars PROVE Orderly'
  <2>0. /\ next \in 1..NWords + 1 /\ at \in [Workers -> {"idle", "add", "exited"} \cup Types]
        /\ word \in [Workers -> 0..NWords] /\ NWords \in Nat
    BY <1>2, BruteAssumption DEF Inv, TypeOK, BruteAssumption
  <2> USE <1>2, <2>0 DEF Orderly
  <2>1. ASSUME NEW cause \in CtxCauses, CtxEnds(cause) PROVE Orderly'
    BY <2>1 DEF CtxEnds, mainVars, poolVars
  <2>2. CASE LoadWords
    BY <2>2 DEF LoadWords, poolVars
  <2>3. CASE LoadFails
    BY <2>3 DEF LoadFails, poolVars
  <2>4. CASE Abandon
    BY <2>4 DEF Abandon, poolVars
  <2>5. CASE Close
    BY <2>5 DEF Close, poolVars
  <2>6. CASE Return
    BY <2>6 DEF Return, poolVars
  <2>7. ASSUME NEW k \in Workers, Send(k) PROVE Orderly'
    <3>1. next \in Words /\ \A l \in Workers : Busy1(l) => word[l] # next
      BY <2>7 DEF Send, More, Words
    <3> QED BY <2>7, <3>1 DEF Send, Types
  <2>8. ASSUME NEW k \in Workers, Resolves(k) PROVE Orderly'
    BY <2>8 DEF Resolves, mainVars, Types
  <2>9. ASSUME NEW k \in Workers, YieldsNothing(k) PROVE Orderly'
    <3>1. After(at[k]) \in Types \cup {"idle"}
      BY <2>9, AfterType DEF YieldsNothing, Types
    <3> QED BY <2>9, <3>1 DEF YieldsNothing, mainVars, Types
  <2>10. ASSUME NEW k \in Workers, AddHost(k) PROVE Orderly'
    BY <2>10 DEF AddHost, mainVars, Types
  <2>11. ASSUME NEW k \in Workers, Exit(k) PROVE Orderly'
    BY <2>11 DEF Exit, mainVars, Types
  <2>12. CASE UNCHANGED vars
    BY <2>12 DEF vars
  <2> QED BY <2>1, <2>2, <2>3, <2>4, <2>5, <2>6, <2>7, <2>8, <2>9, <2>10, <2>11, <2>12
          DEF Next, MainStep, WorkerStep
<1> QED BY <1>1, <1>2, InvHolds, PTL DEF Spec

LEMMA FromOf ==
    /\ From("A") = {"A", "AAAA", "CNAME", "add"} /\ From("AAAA") = {"AAAA", "CNAME", "add"}
    /\ From("CNAME") = {"CNAME", "add"} /\ From("add") = {"add"}
    /\ From("idle") = {} /\ From("exited") = {}
    /\ From("send") = {"send", "A", "AAAA", "CNAME", "add"}
BY DEF From

\* A worker's next stage lies behind it in the order of the stages.
LEMMA Onward ==
    ASSUME NEW k \in Workers, TypeOK, Resolves(k) \/ YieldsNothing(k) \/ AddHost(k)
    PROVE  /\ Busy1(k) /\ at' = [at EXCEPT ![k] = at'[k]]
           /\ From(at'[k]) \subseteq From(at[k]) \ {at[k]} /\ at[k] \in From(at[k])
           /\ at'[k] # "exited"
BY FromOf, AfterOf DEF Resolves, YieldsNothing, AddHost, Types, TypeOK, Busy1

\* What is ahead gets less.
Less == /\ CtxAhead' \subseteq CtxAhead /\ MainAhead' \subseteq MainAhead
        /\ Work' \subseteq Work /\ Pool' \subseteq Pool
        /\ ~UNCHANGED <<CtxAhead, MainAhead, Work, Pool>>

LEMMA StepsAreSpent == ASSUME Inv, Orderly, Next PROVE Less
<1>0. /\ next \in 1..NWords + 1 /\ at \in [Workers -> {"idle", "add", "exited"} \cup Types]
      /\ word \in [Workers -> 0..NWords] /\ NWords \in Nat
  BY BruteAssumption DEF Inv, TypeOK, BruteAssumption
<1>1. ASSUME NEW cause \in CtxCauses, CtxEnds(cause) PROVE Less
  <2>1. "live" \in CtxAhead \ CtxAhead' /\ CtxAhead' \subseteq CtxAhead
    BY <1>1, BruteAssumption DEF CtxEnds, CtxAhead, BruteAssumption
  <2> QED BY <1>1, <2>1 DEF CtxEnds, mainVars, poolVars, Less, MainAhead, Work, Owes, Pool
<1>2. CASE MainStep
  <2>1. /\ MainAhead' \subseteq MainAhead /\ MainAhead' # MainAhead
        /\ UNCHANGED <<ctx, next, poolVars>>
    BY <1>2 DEF MainStep, LoadWords, LoadFails, Abandon, Close, Return, MainAhead
  <2> QED BY <2>1 DEF poolVars, Less, CtxAhead, Work, Owes, Pool
<1>3. ASSUME NEW k \in Workers, Send(k) PROVE Less
  <2>1. /\ next \in Words /\ next' = next + 1 /\ at[k] = "idle"
        /\ at' = [at EXCEPT ![k] = "A"] /\ word' = [word EXCEPT ![k] = next]
        /\ UNCHANGED <<ctx, main>>
    BY <1>0, <1>3 DEF Send, More, Words
  <2>2. ASSUME NEW w \in Words, NEW g \in From("send"), NEW l \in Workers, Owes(l, w, g)'
        PROVE  next <= w \/ Owes(l, w, g)
    BY <1>0, <2>1, <2>2 DEF Owes, Words
  <2>3. Work' \subseteq Work
    BY <1>0, <2>1, <2>2 DEF Work, Words
  <2>4. <<next, "send">> \in Work \ Work'
    <3>1. \A l \in Workers : "send" \notin From(at'[l])
      BY <1>0, <2>1, FromOf DEF Types
    <3> QED BY <1>0, <2>1, <3>1, FromOf DEF Work, Owes, Words
  <2>5. CtxAhead' = CtxAhead /\ MainAhead' = MainAhead /\ Pool' = Pool
    BY <1>0, <2>1 DEF CtxAhead, MainAhead, Pool
  <2> QED BY <2>3, <2>4, <2>5 DEF Less
<1>4. ASSUME NEW k \in Workers, Resolves(k) \/ YieldsNothing(k) \/ AddHost(k) PROVE Less
  <2>1. /\ Busy1(k) /\ at' = [at EXCEPT ![k] = at'[k]]
        /\ From(at'[k]) \subseteq From(at[k]) \ {at[k]} /\ at[k] \in From(at[k])
        /\ at'[k] # "exited" /\ at[k] # "exited"
    BY <1>4, Onward, FromOf DEF Inv
  <2>2. UNCHANGED <<ctx, main, next, word>>
    BY <1>4 DEF Resolves, YieldsNothing, AddHost, mainVars
  <2>3. \A l \in Workers : From(at'[l]) \subseteq From(at[l])
    BY <1>0, <2>1
  <2>4. Work' \subseteq Work
    BY <2>2, <2>3 DEF Work, Owes
  <2>5. <<word[k], at[k]>> \in Work \ Work'
    <3>1. word[k] \in Words /\ word[k] < next /\ at[k] \in From("send")
      BY <2>1, FromOf DEF Orderly, Busy1, Types
    <3>2. \A l \in Workers \ {k} : word[l] = word[k] => From(at'[l]) = {}
      BY <1>0, <2>1, FromOf DEF Orderly, Busy1
    <3>3. \A l \in Workers : ~(word[l] = word[k] /\ at[k] \in From(at'[l]))
      BY <2>1, <3>2
    <3>4. ~(next <= word[k])
      BY <1>0, <3>1 DEF Words
    <3> QED BY <2>1, <2>2, <3>1, <3>3, <3>4 DEF Work, Owes
  <2>6. CtxAhead' = CtxAhead /\ MainAhead' = MainAhead /\ Pool' = Pool
    BY <1>0, <2>1, <2>2 DEF CtxAhead, MainAhead, Pool
  <2> QED BY <2>4, <2>5, <2>6 DEF Less
<1>5. ASSUME NEW k \in Workers, Exit(k) PROVE Less
  <2>1. at' = [at EXCEPT ![k] = "exited"] /\ at[k] = "idle" /\ UNCHANGED <<ctx, main, next, word>>
    BY <1>5 DEF Exit, mainVars
  <2>2. \A l \in Workers : From(at'[l]) \subseteq From(at[l])
    BY <1>0, <2>1, FromOf
  <2>3. Work' \subseteq Work
    BY <2>1, <2>2 DEF Work, Owes
  <2>4. k \in Pool \ Pool' /\ Pool' \subseteq Pool
    BY <1>0, <2>1 DEF Pool
  <2> QED BY <2>1, <2>3, <2>4 DEF Less, CtxAhead, MainAhead
<1> QED BY <1>1, <1>2, <1>3, <1>4, <1>5 DEF Next, WorkerStep

\* Nobody waits for ever: while Brute has not returned, either its loop meets an
\* idle worker, or a worker has a word, or all that is left is to leave.
LEMMA NeverStuck == Inv /\ Orderly => (main # "returned" => CanMove)
<1> SUFFICES ASSUME Inv, Orderly, main \in {"sending", "waiting"} PROVE CanMove
  BY DEF Inv, TypeOK, CanMove
<1>1. at \in [Workers -> {"idle", "add", "exited"} \cup Types]
  BY DEF Inv, TypeOK
<1>2. CASE \E k \in Workers : at[k] \in Types \cup {"add"}
  BY <1>2 DEF CanMove
<1>3. CASE \A k \in Workers : at[k] \in {"idle", "exited"}
  <2>1. CASE main = "sending"
    <3>1. PICK k \in Workers : TRUE
      BY BruteAssumption DEF BruteAssumption
    <3>2. at[k] = "idle"
      BY <1>3, <2>1 DEF Orderly, Inv, Phases
    <3> QED BY <2>1, <3>2 DEF CanMove
  <2>2. CASE main = "waiting"
    BY <1>3, <2>2 DEF Orderly, CanMove, PoolDone
  <2> QED BY <2>1, <2>2
<1> QED BY <1>1, <1>2, <1>3

LEMMA Finite ==
    /\ IsFiniteSet({"live"}) /\ Cardinality({"live"}) = 1
    /\ IsFiniteSet({"load", "loop", "join"}) /\ Cardinality({"load", "loop", "join"}) = 3
    /\ IsFiniteSet(Words \X From("send")) /\ Cardinality(Words \X From("send")) = 5 * NWords
    /\ IsFiniteSet(Workers) /\ NWords \in Nat
<1>1. NWords \in Nat /\ IsFiniteSet(Workers)
  BY BruteAssumption DEF BruteAssumption
<1>2. IsFiniteSet({"live"}) /\ Cardinality({"live"}) = 1
  BY FS_Singleton
<1>3. IsFiniteSet({"load", "loop", "join"}) /\ Cardinality({"load", "loop", "join"}) = 3
  <2>1. IsFiniteSet({"load"}) /\ Cardinality({"load"}) = 1
    BY FS_Singleton
  <2>2. IsFiniteSet({"load"} \cup {"loop"}) /\ Cardinality({"load"} \cup {"loop"}) = 2
    BY <2>1, FS_AddElement
  <2>3. /\ IsFiniteSet(({"load"} \cup {"loop"}) \cup {"join"})
        /\ Cardinality(({"load"} \cup {"loop"}) \cup {"join"}) = 3
    BY <2>2, FS_AddElement
  <2>4. ({"load"} \cup {"loop"}) \cup {"join"} = {"load", "loop", "join"}
    OBVIOUS
  <2> QED BY <2>3, <2>4
<1>4. IsFiniteSet(From("send")) /\ Cardinality(From("send")) = 5
  <2>1. IsFiniteSet({"send"}) /\ Cardinality({"send"}) = 1
    BY FS_Singleton
  <2>2. IsFiniteSet({"send"} \cup {"A"}) /\ Cardinality({"send"} \cup {"A"}) = 2
    BY <2>1, FS_AddElement
  <2>3. /\ IsFiniteSet(({"send"} \cup {"A"}) \cup {"AAAA"})
        /\ Cardinality(({"send"} \cup {"A"}) \cup {"AAAA"}) = 3
    BY <2>2, FS_AddElement
  <2>4. /\ IsFiniteSet((({"send"} \cup {"A"}) \cup {"AAAA"}) \cup {"CNAME"})
        /\ Cardinality((({"send"} \cup {"A"}) \cup {"AAAA"}) \cup {"CNAME"}) = 4
    BY <2>3, FS_AddElement
  <2>5. /\ IsFiniteSet(((({"send"} \cup {"A"}) \cup {"AAAA"}) \cup {"CNAME"}) \cup {"add"})
        /\ Cardinality(((({"send"} \cup {"A"}) \cup {"AAAA"}) \cup {"CNAME"}) \cup {"add"}) = 5
    BY <2>4, FS_AddElement
  <2>6. ((({"send"} \cup {"A"}) \cup {"AAAA"}) \cup {"CNAME"}) \cup {"add"} = From("send")
    BY FromOf
  <2> QED BY <2>5, <2>6
<1>5. IsFiniteSet(Words) /\ Cardinality(Words) = NWords
  BY <1>1, FS_Interval DEF Words
<1>6. IsFiniteSet(Words \X From("send")) /\ Cardinality(Words \X From("send")) = NWords * 5
  BY <1>4, <1>5, FS_Product
<1> QED BY <1>1, <1>2, <1>3, <1>6

LEMMA AheadIsFinite ==
    IsFiniteSet(CtxAhead) /\ IsFiniteSet(MainAhead) /\ IsFiniteSet(Work) /\ IsFiniteSet(Pool)
<1>1. CtxAhead \in SUBSET {"live"} /\ MainAhead \in SUBSET {"load", "loop", "join"}
  BY DEF CtxAhead, MainAhead
<1>2. Work \in SUBSET (Words \X From("send")) /\ Pool \in SUBSET Workers
  BY DEF Work, Pool
<1> QED BY <1>1, <1>2, Finite, FS_Subset

\* A part of what is ahead has fewer elements once it has lost one.
LEMMA Fewer ==
    ASSUME NEW S, NEW T, IsFiniteSet(S), T \subseteq S
    PROVE  /\ Cardinality(S) \in Nat /\ Cardinality(T) \in Nat /\ Cardinality(T) <= Cardinality(S)
           /\ T # S => Cardinality(T) < Cardinality(S)
<1>1. IsFiniteSet(T) /\ Cardinality(T) <= Cardinality(S) /\ (Cardinality(S) = Cardinality(T) => S = T)
  BY FS_Subset
<1> QED BY <1>1, FS_CardinalityType

LEMMA AtFirst == Init => StepsAhead = 4 + 5 * NWords + Cardinality(Workers)
<1> SUFFICES ASSUME Init PROVE StepsAhead = 4 + 5 * NWords + Cardinality(Workers)
  OBVIOUS
<1>1. CtxAhead = {"live"} /\ MainAhead = {"load", "loop", "join"} /\ Pool = Workers
  BY DEF Init, CtxAhead, MainAhead, Pool
<1>2. Work = Words \X From("send")
  BY BruteAssumption DEF Init, Work, Words, BruteAssumption
<1> QED BY <1>1, <1>2, Finite, FS_CardinalityType DEF StepsAhead

\* Brute cannot go on for ever and cannot get stuck, whatever the list, the zone
\* and the number of workers: each step leaves fewer ahead, and until Brute has
\* returned there is one to take.
THEOREM ConvergesHolds == Spec => Converges
<1>1. ASSUME Inv, Orderly, [Next]_vars PROVE [StepsAhead' < StepsAhead]_vars
  <2> SUFFICES ASSUME Next PROVE StepsAhead' < StepsAhead
    BY <1>1
  <2>1. Less
    BY <1>1, StepsAreSpent
  <2>2. /\ Cardinality(CtxAhead') <= Cardinality(CtxAhead)
        /\ Cardinality(MainAhead') <= Cardinality(MainAhead)
        /\ Cardinality(Work') <= Cardinality(Work)
        /\ Cardinality(Pool') <= Cardinality(Pool)
        /\ {Cardinality(CtxAhead'), Cardinality(MainAhead'), Cardinality(Work'), Cardinality(Pool'),
            Cardinality(CtxAhead), Cardinality(MainAhead), Cardinality(Work), Cardinality(Pool)} \subseteq Nat
    BY <2>1, AheadIsFinite, Fewer DEF Less
  <2>3. \/ Cardinality(CtxAhead') < Cardinality(CtxAhead)
        \/ Cardinality(MainAhead') < Cardinality(MainAhead)
        \/ Cardinality(Work') < Cardinality(Work)
        \/ Cardinality(Pool') < Cardinality(Pool)
    BY <2>1, AheadIsFinite, Fewer DEF Less
  <2>4. StepsAhead' = Cardinality(CtxAhead') + Cardinality(MainAhead')
                      + Cardinality(Work') + Cardinality(Pool')
    BY DEF StepsAhead
  <2> QED BY <2>2, <2>3, <2>4 DEF StepsAhead
<1> QED BY <1>1, AtFirst, NeverStuck, InvHolds, OrderlyHolds, PTL DEF Spec, Converges
==============================================================================
