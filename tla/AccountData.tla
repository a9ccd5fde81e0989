----------------------------- MODULE AccountData -----------------------------
(***************************************************************************)
(* The privacy notices and the consent choices of one account for one      *)
(* purpose. Posts may run side by side; a row gets its time when its       *)
(* INSERT starts and is seen once it is committed. Notices are published   *)
(* and retired by hand, in the database.                                   *)
(***************************************************************************)
EXTENDS Naturals, FiniteSets

CONSTANTS
    Posts,     \* posts of a choice, each made once
    Notices,   \* versions of the privacy notice
    NoNotice

ASSUME NoNoticeIsNone == NoNotice \notin Notices
ASSUME PostsAreFinite == IsFiniteSet(Posts)

VARIABLES
    notice,   \* of each version: "draft", "current" or "retired"
    offered,  \* the version the account page read last
    post,     \* of each post: how far it is, or "refused"
    names,    \* the version it names
    time,     \* recorded_at of its row
    earlier   \* history: posts that were answered when it began

dataVars == <<notice, offered, post, names, time, earlier>>

DataTypeOK ==
    /\ notice \in [Notices -> {"draft", "current", "retired"}]
    /\ offered \in Notices \cup {NoNotice}
    /\ post \in [Posts -> {"none", "checked", "stored", "written", "answered", "refused"}]
    /\ names \in [Posts -> Notices \cup {NoNotice}]
    /\ time \in [Posts -> 0 .. Cardinality(Posts)]
    /\ earlier \in [Posts -> SUBSET Posts]
    /\ \A v, w \in Notices : notice[v] = "current" /\ notice[w] = "current" => v = w
    /\ \A p \in Posts :
        post[p] \in {"stored", "written", "answered"} =>
            notice[names[p]] # "draft" /\ time[p] > 0

DataInit ==
    /\ notice = [v \in Notices |-> "draft"]
    /\ offered = NoNotice
    /\ post = [p \in Posts |-> "none"]
    /\ names = [p \in Posts |-> NoNotice]
    /\ time = [p \in Posts |-> 0]
    /\ earlier = [p \in Posts |-> {}]

Moves(p, stage) == post' = [post EXCEPT ![p] = stage]
Answered == {p \in Posts : post[p] = "answered"}
Rows == {p \in Posts : post[p] \in {"written", "answered"}}
Clock == Cardinality({p \in Posts : time[p] > 0})

\* privacy_notices_one_current_idx: the current notice is retired first.
Publish(v) ==
    /\ notice[v] = "draft" /\ \A w \in Notices : notice[w] # "current"
    /\ notice' = [notice EXCEPT ![v] = "current"]
    /\ UNCHANGED <<offered, post, names, time, earlier>>

Retire(v) ==
    /\ notice[v] = "current"
    /\ notice' = [notice EXCEPT ![v] = "retired"]
    /\ UNCHANGED <<offered, post, names, time, earlier>>

\* currentNotice
ReadNotice ==
    /\ \E v \in Notices : notice[v] = "current" /\ offered' = v
    /\ UNCHANGED <<notice, post, names, time, earlier>>

\* recordConsent checks the notice first: one that was retired since it was
\* read still counts.
CheckNotice(p) ==
    /\ post[p] = "none" /\ offered # NoNotice
    /\ names' = [names EXCEPT ![p] = offered]
    /\ earlier' = [earlier EXCEPT ![p] = Answered]
    /\ Moves(p, IF notice[offered] = "draft" THEN "refused" ELSE "checked")
    /\ UNCHANGED <<notice, offered, time>>

\* The INSERT: recorded_at is the time at which it starts.
StoreChoice(p) ==
    /\ post[p] = "checked"
    /\ time' = [time EXCEPT ![p] = Clock + 1]
    /\ Moves(p, "stored")
    /\ UNCHANGED <<notice, offered, names, earlier>>

CommitChoice(p) ==
    /\ post[p] = "stored"
    /\ Moves(p, "written")
    /\ UNCHANGED <<notice, offered, names, time, earlier>>

AnswerChoice(p) ==
    /\ post[p] = "written"
    /\ Moves(p, "answered")
    /\ UNCHANGED <<notice, offered, names, time, earlier>>

\* The statement fails, or its answer is lost with the row written.
ChoiceFails(p) ==
    /\ post[p] \in {"checked", "stored"}
    /\ Moves(p, "refused")
    /\ UNCHANGED <<notice, offered, names, time, earlier>>

\* Faulty variant of CurrentChoices: the rows are taken in the wrong order.
FirstChoices == {p \in Rows : \A q \in Rows : time[p] <= time[q]}

\* currentChoices: of the rows of a purpose the last one.
CurrentChoices == {p \in Rows : \A q \in Rows : time[q] <= time[p]}

DataNext ==
    \/ ReadNotice
    \/ \E v \in Notices : Publish(v) \/ Retire(v)
    \/ \E p \in Posts :
        \/ CheckNotice(p) \/ StoreChoice(p) \/ CommitChoice(p)
        \/ AnswerChoice(p) \/ ChoiceFails(p)

DataSpec == DataInit /\ [][DataNext]_dataVars

\* Somebody who changes a choice after an answer never finds the earlier
\* choice, a withdrawal least of all, in force again (recordConsent,
\* currentChoices).
LatestChoiceWins == \A p \in Rows : CurrentChoices \cap earlier[p] = {}

=============================================================================
