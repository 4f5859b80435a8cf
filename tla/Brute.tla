-------------------------------- MODULE Brute --------------------------------
(***************************************************************************)
(* discover.Brute (internal/discover/brute.go): a pool of workers fed      *)
(* through an unbuffered channel looks up <word>.<domain> for every word   *)
(* of the list and adds the hosts that exist to the shared set.            *)
(*                                                                         *)
(* A word stands for its candidate host.  Words are numbered in the order  *)
(* of the list, in which they are dispatched.                              *)
(***************************************************************************)
EXTENDS Naturals, FiniteSets

CONSTANTS
    NWords,        \* the length of the word list
    Workers,       \* the goroutines of the pool; 50 or 60 of them in the code
    HasA, HasAAAA, HasCNAME,  \* the words whose query of that type has an answer
    FileList,      \* whether the list is read from a file
    QueriesFail,   \* whether a query can fail while the context is live
    CtxCauses      \* how the caller's context can end

Words == 1..NWords

ASSUME BruteAssumption ==
    /\ NWords \in Nat
    /\ IsFiniteSet(Workers) /\ Workers # {}
    /\ HasA \subseteq Words /\ HasAAAA \subseteq Words /\ HasCNAME \subseteq Words
    /\ FileList \in BOOLEAN /\ QueriesFail \in BOOLEAN
    /\ CtxCauses \subseteq {"deadline", "canceled"}

VARIABLES
    ctx,      \* the caller's context: "live", or why it ended
    main,     \* Brute itself: "loading", "sending", "waiting" for its pool, "returned"
    next,     \* the loop over words: the next word to send
    closed,   \* close(jobs) has been called
    ret,      \* what Brute returns: "none" until decided
    at,       \* at[k]: "idle" at the channel, at a query, "add", or "exited"
    word,     \* word[k]: the candidate worker k is looking up
    found,    \* the words whose host has been added to the set
    lost      \* history: the words some query of which had an answer that was lost
vars == <<ctx, main, next, closed, ret, at, word, found, lost>>
mainVars == <<main, next, closed, ret>>
poolVars == <<at, word, found, lost>>

Types == {"A", "AAAA", "CNAME"}
Has(t) == CASE t = "A" -> HasA [] t = "AAAA" -> HasAAAA [] t = "CNAME" -> HasCNAME
Resolving == HasA \cup HasAAAA \cup HasCNAME

Init ==
    /\ ctx = "live"
    /\ main = "loading" /\ next = 1 /\ closed = FALSE /\ ret = "none"
    /\ at = [k \in Workers |-> "idle"]
    /\ word = [k \in Workers |-> 0]
    /\ found = {} /\ lost = {}
------------------------------------------------------------------------------
CtxEnds(cause) ==
    /\ ctx = "live" /\ main # "returned"
    /\ ctx' = cause
    /\ UNCHANGED <<mainVars, poolVars>>

\* loadWordlist succeeds; with no path it returns the built-in list.
LoadWords ==
    /\ main = "loading" /\ main' = "sending"
    /\ UNCHANGED <<ctx, next, closed, ret, poolVars>>

\* Faulty: the file is still being read while its first words are sent.
FaultyLoadFails ==
    /\ FileList
    /\ main \in {"loading", "sending"} /\ main' = "returned" /\ ret' = "error"
    /\ UNCHANGED <<ctx, next, closed, poolVars>>
\* The file cannot be opened or read to its end: Brute returns before it
\* starts a worker.
LoadFails ==
    /\ FileList
    /\ main = "loading" /\ main' = "returned" /\ ret' = "error"
    /\ UNCHANGED <<ctx, next, closed, poolVars>>

\* Faulty: the loop runs one index too far.
FaultyMore == next <= NWords + 1
More == next <= NWords

\* jobs <- w meets a worker's receive.  The select has no preference, so this
\* can happen after the context has ended, too.
Send(k) ==
    /\ main = "sending" /\ More
    /\ at[k] = "idle"
    /\ at' = [at EXCEPT ![k] = "A"]
    /\ word' = [word EXCEPT ![k] = next]
    /\ next' = next + 1
    /\ UNCHANGED <<ctx, main, closed, ret, found, lost>>

\* The select takes <-ctx.Done() instead: the rest of the list is dropped.
Abandon ==
    /\ main = "sending" /\ More /\ ctx # "live"
    /\ main' = "waiting" /\ closed' = TRUE /\ ret' = "error"
    /\ UNCHANGED <<ctx, next, poolVars>>

\* Faulty: the channel is only closed when the context ends.
FaultyClose ==
    /\ main = "sending" /\ ~More
    /\ main' = "waiting" /\ ret' = "nil"
    /\ UNCHANGED <<ctx, next, closed, poolVars>>
\* The list has been sent.
Close ==
    /\ main = "sending" /\ ~More
    /\ main' = "waiting" /\ closed' = TRUE /\ ret' = "nil"
    /\ UNCHANGED <<ctx, next, poolVars>>

\* Faulty: the worker adds the candidate whatever the lookup says.
FaultyAnswers(t, w) == TRUE
Answers(t, w) == w \in Has(t)

\* A query of Exists has an answer: the other types are not asked.
Resolves(k) ==
    /\ at[k] \in Types /\ Answers(at[k], word[k])
    /\ at' = [at EXCEPT ![k] = "add"]
    /\ UNCHANGED <<ctx, mainVars, word, found, lost>>

\* Faulty: Exists forgets the CNAME query.
FaultyAfter(t) == CASE t = "A" -> "AAAA" [] t = "AAAA" -> "idle" [] t = "CNAME" -> "idle"
\* The order in which Exists asks; with no answer at all it returns false.
After(t) == CASE t = "A" -> "AAAA" [] t = "AAAA" -> "CNAME" [] t = "CNAME" -> "idle"

\* A query yields nothing: there is no such record, or the query failed, which
\* query() does not tell apart, and which an ended context makes it do.
YieldsNothing(k) ==
    /\ at[k] \in Types
    /\ word[k] \in Has(at[k]) => QueriesFail \/ ctx # "live"
    /\ at' = [at EXCEPT ![k] = After(at[k])]
    /\ lost' = IF word[k] \in Has(at[k]) THEN lost \cup {word[k]} ELSE lost
    /\ UNCHANGED <<ctx, mainVars, word, found>>

\* Set.Add, then back to the channel.
AddHost(k) ==
    /\ at[k] = "add"
    /\ found' = found \cup {word[k]}
    /\ at' = [at EXCEPT ![k] = "idle"]
    /\ UNCHANGED <<ctx, mainVars, word, lost>>

\* The range over the closed channel ends.
Exit(k) ==
    /\ at[k] = "idle" /\ closed
    /\ at' = [at EXCEPT ![k] = "exited"]
    /\ UNCHANGED <<ctx, mainVars, word, found, lost>>

\* Faulty: on the error path Brute returns without waiting.
FaultyPoolDone == ret = "error" \/ \A k \in Workers : at[k] = "exited"
\* wg.Wait lets go.
PoolDone == \A k \in Workers : at[k] = "exited"

Return ==
    /\ main = "waiting" /\ PoolDone
    /\ main' = "returned"
    /\ UNCHANGED <<ctx, next, closed, ret, poolVars>>

WorkerStep(k) == Resolves(k) \/ YieldsNothing(k) \/ AddHost(k) \/ Exit(k)
MainStep == LoadWords \/ LoadFails \/ Abandon \/ Close \/ Return

Next == \/ \E cause \in CtxCauses : CtxEnds(cause)
        \/ MainStep
        \/ \E k \in Workers : Send(k) \/ WorkerStep(k)

Spec == Init /\ [][Next]_vars

\* Goroutines that can run do, and a query answers or runs into its timeout.
Fairness == /\ WF_vars(MainStep \/ \E k \in Workers : Send(k))
            /\ \A k \in Workers : WF_vars(WorkerStep(k))
FairSpec == Spec /\ Fairness
------------------------------------------------------------------------------
TypeOK ==
    /\ ctx \in {"live"} \cup CtxCauses
    /\ main \in {"loading", "sending", "waiting", "returned"}
    /\ next \in 1..NWords + 1
    /\ closed \in BOOLEAN
    /\ ret \in {"none", "nil", "error"}
    /\ at \in [Workers -> {"idle", "add", "exited"} \cup Types]
    /\ word \in [Workers -> 0..NWords]
    /\ found \subseteq Words
    /\ lost \subseteq Words

\* Brute finds hosts that exist, whichever way it ends, and when it returns nil
\* all of them: every candidate was tried to the end, and one that exists is
\* missing only if an answer about it was lost (brute.go:37, 56).
FindsWhatResolves ==
    /\ found \subseteq Resolving
    /\ main = "returned" /\ ret = "nil" => Resolving \subseteq found \cup lost

\* Brute does what module Discovery has the source "brute" do, of which it only
\* shows the outside: hosts under the domain are added one by one while the
\* function runs and none once it has returned, and an error means that the
\* context has ended or that no host was found.  The apex is number 0 here, and
\* crt.sh, which is always there, is still to start.
AsSource == INSTANCE Discovery WITH
    Names <- 0..NWords, Apex <- 0, InScope <- 0..NWords, Nameservers <- {},
    WithKey <- {}, Passive <- {}, EnableAXFR <- FALSE, EnableBrute <- TRUE,
    EnableWhois <- FALSE, MaxAttempts <- 1,
    sctx <- [s \in {"crtsh"} |-> ctx],
    pc <- [s \in {"crtsh", "brute"} |->
             IF s = "crtsh" THEN "try" ELSE IF main = "returned" THEN "returned" ELSE "fetch"],
    err <- [s \in {"crtsh", "brute"} |->
             IF s = "brute" /\ main = "returned" /\ ret = "error" THEN "error" ELSE "nil"],
    found <- [h \in 0..NWords |-> IF h = 0 THEN {"seed"} ELSE {s \in {"brute"} : h \in found}],
    attempt <- 1, nsLeft <- {}, zones <- [ns \in {} |-> {}], whois <- "none", main <- "waiting",
    answer <- [s \in {"crtsh", "brute"} |-> {}],
    verdict <- [s \in {"crtsh", "brute"} |-> "none"],
    items <- [h \in 0..NWords |-> {}]
PlaysItsPart == AsSource!Spec

\* Brute returns: no send is left without a receiver and no worker is left at
\* an open channel.
BruteEnds == <>(main = "returned")
==============================================================================
