----------------------------- MODULE ReviewDesk -----------------------------
(***************************************************************************)
(* Reviewers at the tool's ReviewPage.  A page shows the first Episode of  *)
(* the review queue and the annotation it fetches for it, and sends the    *)
(* reviewer's decision, which names the Episode and no more.  The Platform *)
(* judges it by the Episode's status alone.  Requests overlap, and their   *)
(* answers arrive in any order or not at all.  Annotators submit again     *)
(* what was returned.                                                      *)
(***************************************************************************)
EXTENDS Naturals, SequencesExt

CONSTANTS Episodes,     \* Episodes 1 .. Episodes, by the time of their creation
          Desk,         \* pages
          MaxVersion,   \* bound: submissions of an Episode's annotation
          MaxClicks     \* bound: decisions sent

ASSUME DeskAssumption ==
    Episodes \in Nat \ {0} /\ MaxVersion \in Nat \ {0} /\ MaxClicks \in Nat

VARIABLES standing,     \* an Episode's status
          version,      \* the submission of its annotation that is stored
          current,      \* the Episode a page is at, as it came with the queue
          annotation,   \* the annotation a page holds
          fetching,     \* its requests for annotations, in order
          waiting,      \* the answer for the current Episode is still to come (history)
          overtaken,    \* an earlier one came after it (history)
          reloading,    \* requests for the queue not served yet
          queues,       \* answers to them on their way: their first Episodes
          click         \* decisions

stores == <<standing, version>>
held == <<current, annotation>>
asked == <<fetching, waiting, overtaken>>
deskVars == <<stores, held, asked, reloading, queues, click>>

------------------------------------------------------------------------------
Episode == 1 .. Episodes
Version == 1 .. MaxVersion
Click == 1 .. MaxClicks

\* A version of an Episode's segments.
Sight == [episode : Episode, version : Version]
Nothing == [episode |-> 0, version |-> 0]
Sights == Sight \cup {Nothing}

\* The answer of a fetch: its version, 0 before the Platform has read it.
Fetches == [episode : Episode, version : Version \cup {0}]

Clicks == [stage : {"none", "sent", "done", "refused", "over"}, desk : Desk, approve : BOOLEAN,
           of : Sights, shown : Sights, excused : BOOLEAN]

FetchOf(p, sight) ==
    /\ fetching' = [fetching EXCEPT ![p] = Append(@, [episode |-> sight.episode, version |-> 0])]
    /\ waiting' = [waiting EXCEPT ![p] = TRUE]
    /\ overtaken' = [overtaken EXCEPT ![p] = FALSE]

\* A page opens with the queue, or by a link with an Episode.
DeskInit ==
    /\ standing = [e \in Episode |-> "review"]
    /\ version = [e \in Episode |-> 1]
    /\ current \in [Desk -> {Nothing} \cup [episode : Episode, version : {1}]]
    /\ annotation = [p \in Desk |-> Nothing]
    /\ waiting = [p \in Desk |-> current[p] # Nothing]
    /\ fetching = [p \in Desk |-> IF waiting[p] THEN <<[episode |-> current[p].episode,
                                                        version |-> 0]>> ELSE <<>>]
    /\ overtaken = [p \in Desk |-> FALSE]
    /\ reloading = [p \in Desk |-> IF waiting[p] THEN 0 ELSE 1]
    /\ queues = [p \in Desk |-> {}]
    /\ click \in [Click -> {c \in Clicks : /\ c.stage = "none" /\ ~c.approve /\ ~c.excused
                                           /\ c.of = Nothing /\ c.shown = Nothing
                                           /\ c.desk = CHOOSE p \in Desk : TRUE}]

------------------------------------------------------------------------------
\* The queue

InReview == {e \in Episode : standing[e] = "review"}

\* review_queue, oldest first.
First == IF InReview = {} THEN Nothing
         ELSE LET e == Min(InReview) IN [episode |-> e, version |-> version[e]]

ServeQueue(p) ==
    /\ reloading[p] > 0
    /\ reloading' = [reloading EXCEPT ![p] = @ - 1]
    /\ queues' = [queues EXCEPT ![p] = @ \cup {First}]
    /\ UNCHANGED <<stores, held, asked, click>>

LoseQueue(p) ==
    \/ /\ reloading[p] > 0
       /\ reloading' = [reloading EXCEPT ![p] = @ - 1]
       /\ UNCHANGED <<stores, held, asked, queues, click>>
    \/ \E q \in queues[p] :
         /\ queues' = [queues EXCEPT ![p] = @ \ {q}]
         /\ UNCHANGED <<stores, held, asked, reloading, click>>

\* Mutant: the annotation is fetched when the Episode's id changes.
ShowOnNewId(p, sight) ==
    /\ current' = [current EXCEPT ![p] = sight]
    /\ IF sight = Nothing THEN /\ annotation' = [annotation EXCEPT ![p] = Nothing]
                               /\ UNCHANGED asked
       ELSE /\ UNCHANGED annotation
            /\ IF sight.episode = current[p].episode THEN UNCHANGED asked
                                                     ELSE FetchOf(p, sight)

\* setCurrent, and the effect that follows a new Episode object.  The annotation held
\* so far stays until the answer.
Show(p, sight) ==
    /\ current' = [current EXCEPT ![p] = sight]
    /\ IF sight = Nothing THEN /\ annotation' = [annotation EXCEPT ![p] = Nothing]
                               /\ UNCHANGED asked
       ELSE UNCHANGED annotation /\ FetchOf(p, sight)

TakeQueue(p) ==
    \E q \in queues[p] :
        /\ q # Nothing \/ current[p] # Nothing
        /\ Show(p, q)
        /\ queues' = [queues EXCEPT ![p] = @ \ {q}]
        /\ UNCHANGED <<stores, reloading, click>>

------------------------------------------------------------------------------
\* The annotation

\* get_annotation.
ServeFetch(p) ==
    \E i \in DOMAIN fetching[p] :
        /\ fetching[p][i].version = 0
        /\ fetching' = [fetching EXCEPT ![p][i].version = version[fetching[p][i].episode]]
        /\ UNCHANGED <<stores, held, waiting, overtaken, reloading, queues, click>>

\* Mutant: the body of an error answer is taken for an annotation.
TakeFailedFetch(p) ==
    \E i \in DOMAIN fetching[p] :
        LET newest == waiting[p] /\ i = Len(fetching[p]) IN
        /\ annotation' = [annotation EXCEPT ![p] = fetching[p][i]]
        /\ fetching' = [fetching EXCEPT ![p] = RemoveAt(@, i)]
        /\ waiting' = [waiting EXCEPT ![p] = @ /\ ~newest]
        /\ overtaken' = [overtaken EXCEPT ![p] = ~waiting[p]]
        /\ UNCHANGED <<stores, current, reloading, queues, click>>

\* setAnnotation, whichever Episode the page is at by now: with the answer, or with null
\* if the request failed.
TakeFetch(p) ==
    \E i \in DOMAIN fetching[p], arrived \in BOOLEAN :
        LET newest == waiting[p] /\ i = Len(fetching[p]) IN
        /\ arrived => fetching[p][i].version # 0
        /\ annotation' = [annotation EXCEPT ![p] = IF arrived THEN fetching[p][i] ELSE Nothing]
        /\ fetching' = [fetching EXCEPT ![p] = RemoveAt(@, i)]
        /\ waiting' = [waiting EXCEPT ![p] = @ /\ ~newest]
        /\ overtaken' = [overtaken EXCEPT ![p] = ~waiting[p]]
        /\ UNCHANGED <<stores, current, reloading, queues, click>>

\* annotation?.segments ?? current.segments
Displayed(p) == IF annotation[p] # Nothing THEN annotation[p] ELSE current[p]

------------------------------------------------------------------------------
\* The decision

StageTo(c, stage) == click' = [click EXCEPT ![c].stage = stage]

\* A button, which is not disabled while a decision is on its way.
Decide(p, c) ==
    /\ current[p] # Nothing
    /\ click[c].stage = "none"
    /\ \A d \in Click : d < c => click[d].stage # "none"
    /\ \E approve \in BOOLEAN :
         click' = [click EXCEPT ![c] = [stage |-> "sent", desk |-> p, approve |-> approve,
                                        of |-> current[p], shown |-> Displayed(p),
                                        excused |-> waiting[p] \/ overtaken[p]]]
    /\ UNCHANGED <<stores, held, asked, reloading, queues>>

\* submit_review.
Judge(c) ==
    LET e == click[c].of.episode IN
    /\ click[c].stage = "sent"
    /\ IF standing[e] = "review"
       THEN /\ standing' = [standing EXCEPT ![e] = IF click[c].approve THEN "published"
                                                                       ELSE "returned"]
            /\ StageTo(c, "done")
       ELSE StageTo(c, "refused") /\ UNCHANGED standing
    /\ UNCHANGED <<version, held, asked, reloading, queues>>

\* After a success the page asks for the queue again, and only then.
TakeAnswer(c) ==
    LET p == click[c].desk IN
    /\ click[c].stage \in {"done", "refused"}
    /\ StageTo(c, "over")
    /\ reloading' = IF click[c].stage = "done" THEN [reloading EXCEPT ![p] = @ + 1] ELSE reloading
    /\ UNCHANGED <<stores, held, asked, queues>>

LoseDecision(c) ==
    /\ click[c].stage \in {"sent", "done", "refused"}
    /\ StageTo(c, "over")
    /\ UNCHANGED <<stores, held, asked, reloading, queues>>

\* Who annotates submits another version.
Resubmit(e) ==
    /\ standing[e] = "returned" /\ version[e] < MaxVersion
    /\ standing' = [standing EXCEPT ![e] = "review"]
    /\ version' = [version EXCEPT ![e] = @ + 1]
    /\ UNCHANGED <<held, asked, reloading, queues, click>>

------------------------------------------------------------------------------
DeskNext ==
    \/ \E p \in Desk : ServeQueue(p) \/ LoseQueue(p) \/ TakeQueue(p)
    \/ \E p \in Desk : ServeFetch(p) \/ TakeFetch(p)
    \/ \E p \in Desk, c \in Click : Decide(p, c)
    \/ \E c \in Click : Judge(c) \/ TakeAnswer(c) \/ LoseDecision(c)
    \/ \E e \in Episode : Resubmit(e)

DeskSpec == DeskInit /\ [][DeskNext]_deskVars

------------------------------------------------------------------------------
\* The types of all parts.
DeskTypeOK ==
    /\ standing \in [Episode -> {"review", "returned", "published"}]
    /\ version \in [Episode -> Version]
    /\ current \in [Desk -> Sights]
    /\ annotation \in [Desk -> Sights]
    /\ fetching \in [Desk -> Seq(Fetches)]
    /\ waiting \in [Desk -> BOOLEAN] /\ overtaken \in [Desk -> BOOLEAN]
    /\ reloading \in [Desk -> Nat]
    /\ queues \in [Desk -> SUBSET Sights]
    /\ click \in [Click -> Clicks]

\* What is published is what the reviewer who approved it had on the page, unless it was
\* returned and submitted again after the page asked for the queue, or the page was
\* showing the annotation of the Episode before: the new one's was still to come, or had
\* come before the old one's.
PublishedAsShown ==
    [][\A c \in Click :
         click[c].stage = "sent" /\ click'[c].stage = "done" /\ click[c].approve =>
            LET e == click[c].of.episode IN
            \/ click[c].shown = [episode |-> e, version |-> version[e]]
            \/ version[e] > click[c].of.version
            \/ click[c].excused]_deskVars
=============================================================================
