----------------------------- MODULE PostPages ------------------------------
(***************************************************************************)
(* Walking the pages of GET /v1/social/posts while posts are created and   *)
(* cancelled: newest first by creation and identifier, a page of limit     *)
(* posts, and a cursor that is the identifier of the page's last post.  A  *)
(* page is the set of its posts: their order is that of the posts.         *)
(***************************************************************************)
EXTENDS Naturals, FiniteSets, Sequences

CONSTANTS PostIds,    \* identifiers of posts, whose order has nothing to do with their age
          Workspaces, \* workspaces of the tenant
          Limit,      \* posts of a page
          Anything,   \* no filter, no cursor
          MaxAge      \* bound on the clock

(* The query's limit is 1 to 100; "no cursor" is no post's identifier.      *)
ASSUME PagesAssumption == PostIds \subseteq Nat /\ Limit \in Nat \ {0} /\ Anything \notin PostIds

VARIABLES kept, \* the posts: when each was created, its workspace and its status
          when, \* the clock
          walk  \* a client's walk over the pages

pageVars == <<kept, when, walk>>

NoWalk == [stage |-> "none", workspace |-> Anything, status |-> Anything, cursor |-> Anything, listed |-> << >>, from |-> {}]

PagesInit == kept = << >> /\ when = 1 /\ walk = NoWalk

Existing == DOMAIN kept

(* orderBy: createdAt and id, both descending. *)
Before(a, b) == kept[a].at > kept[b].at \/ (kept[a].at = kept[b].at /\ a > b)

Matches(id, w) ==
  /\ w.workspace # Anything => kept[id].workspace = w.workspace
  /\ w.status # Anything => kept[id].status = w.status

(* findMany with a cursor takes the rows that match from the cursor's place  *)
(* on and skips the first, which is the cursor's own as long as it matches.  *)
RowsFrom(w) ==
  LET rows == {id \in Existing : Matches(id, w) /\ (w.cursor = Anything \/ ~ Before(id, w.cursor))}
  IN {id \in rows : w.cursor = Anything \/ \E other \in rows : Before(other, id)}

Create(id, workspace) ==
  /\ id \notin Existing
  /\ kept' = [i \in Existing \cup {id} |->
                IF i = id THEN [at |-> when, workspace |-> workspace, status |-> "accepted"] ELSE kept[i]]
  /\ UNCHANGED <<when, walk>>

Cancel(id) ==
  /\ id \in Existing /\ kept[id].status = "accepted"
  /\ kept' = [kept EXCEPT ![id].status = "cancelled"]
  /\ UNCHANGED <<when, walk>>

Start(workspace, status) ==
  /\ walk.stage = "none"
  /\ walk' = [NoWalk EXCEPT !.stage = "walking", !.workspace = workspace, !.status = status,
                            !.from = {id \in Existing : Matches(id, [workspace |-> workspace, status |-> status])}]
  /\ UNCHANGED <<kept, when>>

(* The rows that come before a row, and the first of them, up to the limit. *)
Ahead(id, rows) == {other \in rows : Before(other, id)}

FirstOf(rows) == {id \in rows : Cardinality(Ahead(id, rows)) < Limit}

LastOf(page) == CHOOSE id \in page : \A other \in page : ~ Before(id, other)

(* take: limit + 1 tells whether there is more. *)
NextCursorUnlessExact(rows) == IF Cardinality(rows) > Limit + 1 THEN LastOf(FirstOf(rows)) ELSE Anything

NextCursor(rows) == IF Cardinality(rows) > Limit THEN LastOf(FirstOf(rows)) ELSE Anything

Walk ==
  LET rows == RowsFrom(walk) IN
  /\ walk.stage = "walking"
  /\ walk' = [walk EXCEPT !.listed = Append(@, FirstOf(rows)), !.cursor = NextCursor(rows),
                          !.stage = IF NextCursor(rows) = Anything THEN "walked" ELSE "walking"]
  /\ UNCHANGED <<kept, when>>

Later == when < MaxAge /\ when' = when + 1 /\ UNCHANGED <<kept, walk>>

PagesNext ==
  \/ \E id \in PostIds, workspace \in Workspaces : Create(id, workspace)
  \/ \E id \in PostIds : Cancel(id)
  \/ \E workspace \in Workspaces \cup {Anything}, status \in {Anything, "accepted", "cancelled"} : Start(workspace, status)
  \/ Walk
  \/ Later

PagesSpec == PagesInit /\ [][PagesNext]_pageVars

-----------------------------------------------------------------------------
ListedIds == UNION {walk.listed[i] : i \in DOMAIN walk.listed}

PagesTypeOK ==
  /\ Existing \subseteq PostIds
  /\ \A id \in Existing : kept[id].at \in 1 .. when /\ kept[id].workspace \in Workspaces
  /\ walk.from \cup ListedIds \subseteq Existing /\ walk.cursor \in Existing \cup {Anything}

(* However many posts are created and cancelled meanwhile, what a page lists *)
(* comes after everything on the pages before it, so that no post is listed *)
(* twice; and a walk that does not filter by status, which may change       *)
(* between two pages, ends with every post that was there when it began.    *)
PagesMissNothing ==
  /\ PagesTypeOK
  /\ \A i, j \in DOMAIN walk.listed : i < j => \A a \in walk.listed[i], b \in walk.listed[j] : Before(a, b)
  /\ walk.stage = "walked" /\ walk.status = Anything => walk.from \subseteq ListedIds
=============================================================================
