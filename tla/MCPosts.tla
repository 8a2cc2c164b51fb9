------------------------------- MODULE MCPosts -------------------------------
(***************************************************************************)
(* An instance of Notifications, and beside it the files of the posts:     *)
(* what leaves the storage (Downloads).  The part says which of the two    *)
(* moves.                                                                  *)
(***************************************************************************)
EXTENDS Notifications, Downloads

CONSTANTS ann, bob, f1, f2

\* The post is for everybody or for its owner; its text mentions bob or nobody.
Pair == {ann, bob}
Bob  == {bob}
BothAudiences == {Pair, {ann}}
BobOrNobody == {{}, {bob}}

Shape(c, g) == [class |-> c, grouped |-> g]
AllShapes == {Shape("event", TRUE), Shape("blog", TRUE), Shape("blog", FALSE),
              Shape("file", TRUE)}

VARIABLE part   \* "posts" or "files"

SomeTaints == {{<<f1, 0>>}, {<<f1, 1>>}}

\* The second file is only looked at.
SecondIsShown == \A p \in Servers :
  server[p] # Ready /\ server[p].step # "resizing" /\ server[p].file = f2
     => server[p].step = "missing" \/ (server[p].step = "loaded" /\ server[p].does = "stream")

PostsInit ==
  /\ part \in {"posts", "files"}
  /\ Init /\ DownloadsInit
  /\ part = "posts" => taint = {<<f1, 0>>}
PostsNext ==
  /\ UNCHANGED part
  /\ \/ part = "posts" /\ UNCHANGED downloads /\ Next
     \/ part = "files" /\ UNCHANGED vars /\ DownloadsNext /\ SecondIsShown'
PostsSpec ==
  /\ PostsInit /\ [][PostsNext]_<<vars, downloads, part>>
  /\ \A w \in Workers : WF_vars(Proceed(w))
  /\ \A w \in TaskWorkers : WF_vars(part = "posts" /\ Pick(w)) /\ WF_vars(part = "posts" /\ Hourly(w))
  /\ DownloadsFairness

\* What was begun comes to its end, once, also after workers died: notifications
\* of posts, and copies of images.
PostsKept == Settles /\ EventsAnnounced /\ ReadyStays /\ CopiesSettle
=============================================================================
