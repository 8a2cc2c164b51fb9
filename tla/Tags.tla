--------------------------------- MODULE Tags ---------------------------------
(***************************************************************************)
(* The tags of posts and groups: authors write labels, an administrator    *)
(* merges tags into synonyms and takes synonyms apart (core/models/        *)
(* tags.py, core/resolvers/mutation_tags.py).                               *)
(* Case of letters, the order of tags on a page and categories are left    *)
(* out.  One request runs at a time; nothing undoes one that fails.        *)
(***************************************************************************)
EXTENDS Integers, FiniteSets, Sequences
LOCAL INSTANCE SequencesExt

CONSTANTS
  Words,      \* what people write, in lower case
  Things,      \* posts; groups differ only in that their document is saved with them
  MaxTags,     \* bound on the tags ever made
  MaxTagRequests  \* bound on the requests

VARIABLES
  label,    \* label[t]: the label of tag t
  synonym,  \* synonym[l]: the tag that l is a synonym of
  refs,     \* refs[e]: the EntityTags of e, each a tag and the author's label
  summary,  \* summary[e]: the labels in the row of e, which lists filter on
  doc,      \* doc[e]: the labels in the search document of e
  due,      \* things a task will index
  there,    \* there[e]: whether e is yet to come, there or gone
  latest,     \* history: the request that came last, and whether it went through
  stale,    \* history: things whose last request failed halfway
  broken,   \* history: a request of the administrator failed halfway
  asked     \* requests so far

tagging == <<label, synonym, refs, summary, doc, due, there, latest, stale, broken, asked>>

TagIds   == 1..MaxTags
NoTag    == 0
NoLabel  == "no tag"     \* the tag is not there
Nameless == "uuid"       \* the temporary name that a merge gives to a tag

TagsTypeOK ==
  /\ label \in [TagIds -> Words \cup {NoLabel, Nameless}]
  /\ synonym \in [Words -> TagIds \cup {NoTag}]
  /\ \A e \in Things : \A i \in DOMAIN refs[e] : refs[e][i] \in [tag : TagIds, author : Words]
  /\ summary \in [Things -> SUBSET (Words \cup {Nameless})]
  /\ doc \in [Things -> SUBSET (Words \cup {Nameless})]
  /\ due \subseteq Things /\ stale \subseteq Things /\ broken \in BOOLEAN
  /\ there \in [Things -> {"new", "there", "gone"}]
  /\ latest \in [do : {"none", "edit", "delete", "merge", "extract"}, tag : Words \cup {NoLabel},
               other : Words \cup {NoLabel}, done : BOOLEAN]

Outcome(do, tag, other, done) == [do |-> do, tag |-> tag, other |-> other, done |-> done]

TagsInit ==
  /\ label = [t \in TagIds |-> NoLabel]
  /\ synonym = [l \in Words |-> NoTag]
  /\ refs = [e \in Things |-> <<>>]
  /\ summary = [e \in Things |-> {}] /\ doc = [e \in Things |-> {}]
  /\ due = {} /\ stale = {} /\ broken = FALSE /\ asked = 0
  /\ there = [e \in Things |-> "new"]
  /\ latest = Outcome("none", NoLabel, NoLabel, TRUE)

TagRequest == asked < MaxTagRequests /\ asked' = asked + 1
There == {e \in Things : there[e] = "there"}

-----------------------------------------------------------------------------
(***************************************************************************)
(* What the labels mean.                                                   *)
(***************************************************************************)
\* Mutant of Known: synonyms are not looked up.
KnownByName(names, l) == {t \in TagIds : names[t] = l}
\* The tag of a label: its own, or the one it is a synonym of.
Known(names, l) == {t \in TagIds : names[t] = l} \cup ({synonym[l]} \ {NoTag})

\* translate_tags: what a filter on label l looks for.
Translated(l) == IF synonym[l] = NoTag THEN l ELSE label[synonym[l]]

Synonyms(t) == {l \in Words : synonym[l] = t}
TagsOf(list) == {list[i].tag : i \in DOMAIN list}
Summarised(list, names) == {names[t] : t \in TagsOf(list)}
AllMatches(e) == UNION {{label[t]} \cup Synonyms(t) : t \in TagsOf(refs[e])}

-----------------------------------------------------------------------------
(***************************************************************************)
(* Authors.                                                                *)
(***************************************************************************)
Unused(names) == CHOOSE t \in TagIds : names[t] = NoLabel /\ \A u \in 1..(t - 1) : names[u] # NoLabel

\* The tags of the labels, made where there was none.
Expected(labels) ==
  FoldLeft(LAMBDA so, l :
             LET t == IF Known(so.names, l) # {} THEN CHOOSE u \in Known(so.names, l) : TRUE ELSE Unused(so.names)
             IN  [names |-> IF Known(so.names, l) # {} THEN so.names ELSE [so.names EXCEPT ![t] = l],
                  list  |-> IF t \in TagsOf(so.list) THEN so.list
                            ELSE Append(so.list, [tag |-> t, author |-> l])],
           [names |-> label, list |-> <<>>], labels)

\* A label that is no longer there takes the EntityTag of the tag with that
\* name along; the EntityTag of a synonym stays.  Two of them are an error.
Dropped(list, gone, names) ==
  FoldLeft(LAMBDA so, l :
             LET its == {i \in DOMAIN so.list : names[so.list[i].tag] = l}
             IN  IF so.failed \/ Cardinality(its) > 1 THEN [so EXCEPT !.failed = TRUE]
                 ELSE [so EXCEPT !.list = SelectSeq(@, LAMBDA r : names[r.tag] # l)],
           [list |-> list, failed |-> FALSE], gone)

\* get_or_create for each tag; the label the author wrote first is the one shown.
Written(so, wanted) ==
  FoldLeft(LAMBDA now, r :
             LET its == {i \in DOMAIN now.list : now.list[i].tag = r.tag}
             IN  CASE now.failed \/ Cardinality(its) > 1 -> [now EXCEPT !.failed = TRUE]
                   [] its = {} -> [now EXCEPT !.list = Append(@, r)]
                   [] OTHER    -> [now EXCEPT !.list[CHOOSE i \in its : TRUE].author = r.author],
           so, wanted)

SetTags(e, labels) ==
  LET x    == Expected(labels)
      gone == SelectSeq(refs[e], LAMBDA r : r.author \notin Summarised(x.list, x.names))
      so   == Written(Dropped(refs[e], [i \in DOMAIN gone |-> gone[i].author], x.names), x.list)
  IN  [names |-> x.names, list |-> so.list, failed |-> so.failed]

\* The row is saved after its tags were set, and its document with it; the
\* handler may refuse other fields in between, when the tags are stored already.
SaveRow(e, list, names) ==
  /\ summary' = [summary EXCEPT ![e] = Summarised(list, names)]
  /\ doc' = [doc EXCEPT ![e] = Summarised(list, names) \cup UNION {Synonyms(t) : t \in TagsOf(list)}]
  /\ stale' = stale \ {e}
NotSaved(e) == stale' = stale \cup {e} /\ UNCHANGED <<summary, doc>>

RoomFor(labels) ==
  Cardinality({l \in Range(labels) : Known(label, l) = {}}) <= Cardinality({t \in TagIds : label[t] = NoLabel})

\* A new thing that is refused is never there, but its EntityTags are.
Edit(e, labels) ==
  /\ TagRequest /\ there[e] # "gone" /\ RoomFor(labels)
  /\ \E passes \in BOOLEAN :
       LET so == SetTags(e, labels)
           ok == passes /\ ~so.failed
       IN  /\ label' = so.names
           /\ refs' = [refs EXCEPT ![e] = so.list]
           /\ IF ok THEN SaveRow(e, so.list, so.names) ELSE NotSaved(e)
           /\ there' = [there EXCEPT ![e] = IF ok THEN "there" ELSE IF @ = "new" THEN "gone" ELSE @]
           /\ latest' = Outcome("edit", NoLabel, NoLabel, ok)
  /\ UNCHANGED <<synonym, due, broken>>

\* A save of the row that does not touch its tags.
Touch(e) ==
  /\ TagRequest /\ e \in There
  /\ SaveRow(e, refs[e], label)
  /\ latest' = Outcome("edit", NoLabel, NoLabel, TRUE)
  /\ UNCHANGED <<label, synonym, refs, due, there, broken>>

\* delete takes the EntityTags along, the cascade of a deleted group does not.
Delete(e, cascade) ==
  /\ TagRequest /\ e \in There
  /\ there' = [there EXCEPT ![e] = "gone"]
  /\ refs' = [refs EXCEPT ![e] = IF cascade THEN @ ELSE <<>>]
  /\ latest' = Outcome("delete", NoLabel, NoLabel, TRUE)
  /\ UNCHANGED <<label, synonym, summary, doc, due, stale, broken>>

\* The indexing task reads what is there by then.
Index(e) ==
  /\ e \in due
  /\ due' = due \ {e}
  /\ doc' = [doc EXCEPT ![e] = AllMatches(e)]
  /\ UNCHANGED <<label, synonym, refs, summary, there, latest, stale, broken, asked>>

-----------------------------------------------------------------------------
(***************************************************************************)
(* The administrator.                                                      *)
(***************************************************************************)
Affected(some) == {e \in Things : Range(refs[e]) \cap some # {}}
Tagged(t)   == [tag : {t}, author : Words]
Authored(b) == [tag : TagIds, author : {b}]

\* The loop over EntityTags gives their things the new tag, saving each; at
\* one whose thing is gone it fails, its EntityTag changed, the rest untouched.
\* The order is the database's.
Reached(things) ==
  IF things \subseteq There THEN {things}
  ELSE {some \cup {e} : some \in SUBSET (things \cap There), e \in things \ There}

\* Mutant of Resaved: the rows are not saved.
NotResaved(things, names) == UNCHANGED summary
Resaved(things, names) ==
  summary' = [e \in Things |-> IF e \in things \cap There THEN Summarised(refs'[e], names) ELSE summary[e]]

\* Mutant of Moved: a thing that has both tags keeps both.
MovedAll(list, from, to) ==
  [i \in DOMAIN list |-> IF list[i].tag = from THEN [list[i] EXCEPT !.tag = to] ELSE list[i]]
\* Mutant of Moved: the tag is taken off.
TakenOff(list, from, to) == SelectSeq(list, LAMBDA r : r.tag # from)
Moved(list, from, to) ==
  FoldLeft(LAMBDA so, r : IF r.tag # from THEN Append(so, r)
                          ELSE IF to \in TagsOf(so) \cup TagsOf(list) THEN so
                          ELSE Append(so, [r EXCEPT !.tag = to]),
           <<>>, list)

MergeTags(a, b) ==
  LET s == CHOOSE t \in TagIds : label[t] = b
      t == CHOOSE u \in TagIds : label[u] = a
      things == Affected(Tagged(s))
      both   == There \cap (things \cup Affected(Tagged(t)))
  IN  /\ TagRequest /\ {a, b} \subseteq {label[u] : u \in TagIds}
      /\ \E some \in IF a = b THEN {{}} ELSE Reached(things) :
           LET done == a # b /\ some = things /\ things \subseteq There IN
           /\ label' = [label EXCEPT ![s] = IF done THEN NoLabel ELSE Nameless]
           /\ synonym' = [l \in Words |-> IF a # b /\ (l = b \/ synonym[l] = s) THEN t ELSE synonym[l]]
           /\ refs' = [e \in Things |-> IF e \in some THEN Moved(refs[e], s, t) ELSE refs[e]]
           /\ Resaved(some, label')
           /\ due' = IF done THEN due \cup both ELSE due
           /\ stale' = IF done THEN stale \ some ELSE stale \cup both
           /\ latest' = Outcome("merge", a, b, done)
           /\ broken' = (broken \/ ~done)
  /\ UNCHANGED <<doc, there>>

\* Mutant of ExtractTagSynonym: the EntityTags of the synonym stay with the tag.
ExtractBare(a, b) ==
  /\ TagRequest /\ synonym[b] # NoTag /\ \E t \in TagIds : label[t] = NoLabel
  /\ a \in {label[t] : t \in TagIds}
  /\ synonym' = [synonym EXCEPT ![b] = NoTag]
  /\ label' = [label EXCEPT ![Unused(label)] = b]
  /\ latest' = Outcome("extract", a, b, TRUE)
  /\ UNCHANGED <<refs, summary, doc, due, there, stale, broken>>
ExtractTagSynonym(a, b) ==
  LET s == Unused(label)
      things == Affected(Authored(b))
  IN  /\ TagRequest /\ synonym[b] # NoTag /\ \E t \in TagIds : label[t] = NoLabel
      /\ a \in {label[t] : t \in TagIds}
      /\ synonym' = [synonym EXCEPT ![b] = NoTag]
      /\ label' = [label EXCEPT ![s] = b]
      /\ \E some \in Reached(things) :
           LET done == things \subseteq There
               tag  == CHOOSE t \in TagIds : label[t] = a IN
           /\ refs' = [e \in Things |-> IF e \notin some THEN refs[e]
                        ELSE [i \in DOMAIN refs[e] |-> IF refs[e][i].author # b THEN refs[e][i]
                                                       ELSE [refs[e][i] EXCEPT !.tag = s]]]
           /\ Resaved(some, label')
           /\ due' = due \cup (There \cap (some \cup IF done THEN Affected(Tagged(tag)) \ some ELSE {}))
           /\ stale' = IF done THEN stale \ some ELSE stale \cup (There \cap things)
           /\ latest' = Outcome("extract", a, b, done)
           /\ broken' = (broken \/ ~done)
  /\ UNCHANGED <<doc, there>>

TagsNext ==
  \/ \E e \in Things, labels \in UNION {[1..n -> Words] : n \in 0..2} : Edit(e, labels)
  \/ \E e \in Things : Touch(e) \/ Index(e)
  \/ \E e \in Things, cascade \in BOOLEAN : Delete(e, cascade)
  \/ \E a, b \in Words : MergeTags(a, b) \/ ExtractTagSynonym(a, b)
TagsSpec == TagsInit /\ [][TagsNext]_tagging

-----------------------------------------------------------------------------
(***************************************************************************)
(* Correctness.                                                            *)
(***************************************************************************)
\* A label names one thing: no two tags have it, no tag has the name of a
\* synonym.  Two tables keep the labels, and no constraint relates them.
LabelOnce == \A l \in Words : Cardinality({t \in TagIds : label[t] = l}) + (IF synonym[l] = NoTag THEN 0 ELSE 1) <= 1

\* The copy of the tags in a row is right, after merges that rewrite the tags
\* behind it too, as long as the last request about it went through.
SummaryTrue == \A e \in There \ stale : summary[e] = Summarised(refs[e], label)

\* A list filtered on the label an author wrote shows the post, whatever the
\* label has been merged into since, and a tag is on a post once; until a merge
\* or an extraction fails halfway, which no later request makes good.
FoundByTag ==
  broken \/ \A e \in There \ stale : \A i \in DOMAIN refs[e] :
               /\ Translated(refs[e][i].author) \in summary[e]
               /\ \A k \in DOMAIN refs[e] \ {i} : refs[e][k].tag # refs[e][i].tag

\* Once the tasks have run, the search document of a post has every name of
\* every tag of it.
DocumentTells == \A e \in There \ (stale \cup due) : AllMatches(e) \subseteq doc[e]

\* What holds of the tags in every state.
TagsSound == TagsTypeOK /\ LabelOnce /\ SummaryTrue /\ FoundByTag /\ DocumentTells

\* A merge that goes through makes one tag of two: what was listed under
\* either label is listed under both.
MergeUnites ==
  [][(asked' # asked /\ latest'.do = "merge" /\ latest'.done) =>
       \A e \in There \ stale, l \in {latest'.tag, latest'.other} :
         summary[e] \cap {latest'.tag, latest'.other} # {} => Translated(l)' \in summary'[e]]_tagging
===============================================================================
