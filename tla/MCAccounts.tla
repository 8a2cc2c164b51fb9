------------------------------ MODULE MCAccounts ------------------------------
(***************************************************************************)
(* Instances of Accounts for TLC.  An execution is about one thing: how    *)
(* people get in, who shares an invitation, how rows change, the jobs, or  *)
(* the settings behind it all.                                             *)
(***************************************************************************)
EXTENDS Accounts, TLC

CONSTANTS ann, bob, cat, a, b, c3, w1, w2

OffByDefault == Allow :> "off"
OpenOrNot    == {Allow :> "on", Allow :> NoRow}

\* ann administers the site, a superadmin or not; bob has an account that was
\* imported, has logged in, or has none; cat is new, and may have no address.
Admin(super) == [NewRow(a) EXCEPT !.ext = ann, !.admin = TRUE, !.super = super]
Table(super, second) == 1 :> Admin(super) @@ 2 :> second @@ 3 :> NoUser
Known   == [NewRow(b) EXCEPT !.ext = bob]
Browser(i) == [Fresh EXCEPT !.user = i]
AnnIsIn == ann :> Browser(1) @@ bob :> Fresh @@ cat :> Fresh
BothIn  == ann :> Browser(1) @@ bob :> Browser(2) @@ cat :> Fresh
Profiles == ann :> [mail |-> a, super |-> FALSE] @@ bob :> [mail |-> b, super |-> FALSE]
              @@ cat :> [mail |-> c3, super |-> FALSE]

Offer(kinds, crew, bound, onboarding, table, browsers) ==
  [kinds |-> kinds, crew |-> crew, bound |-> bound, onboarding |-> onboarding,
   rows |-> table, session |-> browsers,
   provider |-> IF "move" \in kinds THEN [Profiles EXCEPT ![cat].mail = NoMail] ELSE Profiles]

GettingIn(o, n) == Offer({"login", "onboard", "link", "ask", "invite", "revoke", "answer"}, {w1}, n, o,
                      Table(FALSE, NoUser), AnnIsIn)
Sharing(o)   == Offer({"login", "link", "invite"}, {w1, w2}, 5, o, Table(FALSE, NoUser), AnnIsIn)
Changing(k, n) == Offer(Changes \cup {"login", "users", "sync", "fetch", "move"}, k, n, FALSE,
                      Table(TRUE, Known), BothIn)
Reporting    == Offer({"job", "crash", "ban", "login", "import"}, {w1, w2}, 1, FALSE,
                      Table(FALSE, Known), BothIn)
Setting      == Offer({"settings", "login"}, {w1}, 1, FALSE, Table(FALSE, NewRow(b)), AnnIsIn)

SomeOffers == {GettingIn(TRUE, 5), GettingIn(FALSE, 6), Sharing(FALSE), Changing({w1}, 4),
               Changing({w1, w2}, 3), Reporting, Setting}

Reports == [j \in Jobs |-> IF j = "bounce" THEN <<b, c3>> ELSE <<bob>>]
===============================================================================
