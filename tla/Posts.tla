------------------------------- MODULE Posts -------------------------------
(***************************************************************************)
(* The administrator's requests on posts and the readers' links            *)
(* (backend/internal/posts: Create, Update, Delete, AdminByID, SlugByID,   *)
(* BySlug; backend/internal/httpapi: adminPosts, post).  A request is      *)
(* several statements, each atomic, and requests of several windows        *)
(* interleave between them.  A slug is <<base, n>>: the slug of a title    *)
(* for n = 0, that slug with the suffix -n otherwise; the title stands for *)
(* all that an update replaces.                                            *)
(***************************************************************************)
EXTENDS Naturals, FiniteSets

CONSTANTS
    Clients,      \* windows of administrators
    Readers,
    Titles,       \* titles, identified with their slugs
    NamedSlugs,   \* slugs that a client names in a request
    MaxPosts,     \* bound: posts ever created
    MaxRequests,  \* bound: requests of administrators
    None

ASSUME PostsAssumption ==
    /\ MaxPosts \in Nat /\ MaxRequests \in Nat
    /\ NamedSlugs \subseteq Titles \X (0 .. MaxPosts + 1)
    /\ None \notin Titles \cup NamedSlugs

ASSUME RowAssumption == None \notin [title : Titles, slug : Titles \X Nat]

ASSUME AnswersApart ==
    None \notin {"ok", "not_found", "slug_conflict", "slug_immutable", "failed"}

VARIABLES
    posts,      \* the table
    lastId,     \* AUTOINCREMENT: ids are not handed out twice
    request,    \* what each client waits for
    link,       \* the link a reader keeps: the slug that post id had
    requests

vars == <<posts, lastId, request, link, requests>>

Ids == 1 .. MaxPosts
Slugs == Titles \X Nat
Rows == [title : Titles, slug : Slugs]

\* "before" is history: the post as the first statement of the request saw it.
Idle == [step |-> "idle", id |-> 0, title |-> None, slug |-> None,
         suffix |-> 1, before |-> None, answer |-> None]

Init ==
    /\ posts = [id \in Ids |-> None]
    /\ lastId = 0
    /\ request = [c \in Clients |-> Idle]
    /\ link = [r \in Readers |-> None]
    /\ requests = 0

-----------------------------------------------------------------------------
Answer(c, answer) == [request EXCEPT ![c].step = "answered", ![c].answer = answer]

Start(c, r) ==
    /\ request[c].step = "idle" /\ requests < MaxRequests
    /\ requests' = requests + 1
    /\ request' = [request EXCEPT ![c] = r]
    /\ UNCHANGED <<posts, lastId, link>>

\* A request that passed the limiter and Validate.
ArriveCreate(c) ==
    /\ lastId + Cardinality({d \in Clients : request[d].step = "insert"}) < MaxPosts
    /\ \E t \in Titles, s \in NamedSlugs \cup {None} :
          Start(c, [Idle EXCEPT !.step = "insert", !.title = t, !.slug = s])

ArriveUpdate(c) ==
    \E i \in Ids, t \in Titles, s \in NamedSlugs \cup {None} :
        Start(c, [Idle EXCEPT !.step = "update", !.id = i, !.title = t, !.slug = s])

ArriveOther(c) ==
    \E i \in Ids, step \in {"delete", "read"} :
        Start(c, [Idle EXCEPT !.step = step, !.id = i, !.before = posts[i]])

-----------------------------------------------------------------------------
Taken(slug) == \E id \in Ids : posts[id] # None /\ posts[id].slug = slug

\* The slug that a creation tries next.
Candidate(r) ==
    IF r.slug # None THEN r.slug
    ELSE <<r.title, IF r.suffix = 1 THEN 0 ELSE r.suffix>>

\* Mutant: the loop tries the same suffix again.
NextSuffixSame(r) == 2

NextSuffix(r) == r.suffix + 1

\* Create: INSERT ... ON CONFLICT(slug) DO NOTHING RETURNING id.
Insert(c) ==
    LET r == request[c]
    IN  /\ r.step = "insert"
        /\ lastId < MaxPosts  \* ArriveCreate left room for it
        /\ IF ~Taken(Candidate(r))
           THEN /\ lastId' = lastId + 1
                /\ posts' = [posts EXCEPT ![lastId'] =
                      [title |-> r.title, slug |-> Candidate(r)]]
                /\ request' = [request EXCEPT ![c].step = "read", ![c].id = lastId',
                                              ![c].before = posts'[lastId']]
           ELSE /\ request' = IF r.slug # None THEN Answer(c, "slug_conflict")
                              ELSE [request EXCEPT ![c].suffix = NextSuffix(r)]
                /\ UNCHANGED <<posts, lastId>>
        /\ UNCHANGED <<link, requests>>

\* Mutant: a new title gives the post a new slug.
UpdatedWithSlug(row, r) == [row EXCEPT !.title = r.title, !.slug = <<r.title, 0>>]

Updated(row, r) == [row EXCEPT !.title = r.title]

\* Update: WHERE id = ? AND (? = '' OR slug = ?).
Matches(row, r) == row # None /\ (r.slug = None \/ r.slug = row.slug)

Update(c) ==
    LET r == request[c]
        row == posts[r.id]
    IN  /\ r.step = "update"
        /\ IF Matches(row, r)
           THEN posts' = [posts EXCEPT ![r.id] = Updated(row, r)]
           ELSE UNCHANGED posts
        /\ request' = [request EXCEPT ![c].step = IF Matches(row, r) THEN "read" ELSE "lookup",
                                      ![c].before = row]
        /\ UNCHANGED <<lastId, link, requests>>

\* Mutant: an update of nothing is a refused slug.
LookupNothing(c) ==
    /\ request[c].step = "lookup"
    /\ request' = Answer(c, "slug_immutable")
    /\ UNCHANGED <<posts, lastId, link, requests>>

\* Update, after no row was changed: SlugByID.
Lookup(c) ==
    /\ request[c].step = "lookup"
    /\ request' = Answer(c, IF posts[request[c].id] = None THEN "not_found" ELSE "slug_immutable")
    /\ UNCHANGED <<posts, lastId, link, requests>>

\* Delete; comments and likes go with the post.
Delete(c) ==
    LET id == request[c].id
    IN  /\ request[c].step = "delete"
        /\ posts' = [posts EXCEPT ![id] = None]
        /\ request' = [Answer(c, IF posts[id] = None THEN "not_found" ELSE "ok")
                          EXCEPT ![c].before = posts[id]]
        /\ UNCHANGED <<lastId, link, requests>>

\* AdminByID, of a read or after a write.
ReadBack(c) ==
    /\ request[c].step = "read"
    /\ request' = Answer(c, IF posts[request[c].id] = None THEN "not_found" ELSE "ok")
    /\ UNCHANGED <<posts, lastId, link, requests>>

\* A statement fails, or the client's connection is gone before it.
Fail(c) ==
    /\ request[c].step \notin {"idle", "answered"}
    /\ request' = Answer(c, "failed")
    /\ UNCHANGED <<posts, lastId, link, requests>>

Close(c) ==
    /\ request[c].step = "answered"
    /\ request' = [request EXCEPT ![c] = Idle]
    /\ UNCHANGED <<posts, lastId, link, requests>>

\* A reader learns the slug of a post: from the feed, or from SlugByID and
\* the redirect of a legacy link, which browsers keep.
Learn(r) ==
    /\ link[r] = None
    /\ \E id \in Ids : /\ posts[id] # None
                       /\ link' = [link EXCEPT ![r] = [id |-> id, slug |-> posts[id].slug]]
    /\ UNCHANGED <<posts, lastId, request, requests>>

\* BySlug: the post that the slug leads to, if there is one.
BySlug(slug) == {id \in Ids : posts[id] # None /\ posts[id].slug = slug}

Steps(c) == Insert(c) \/ Update(c) \/ Lookup(c) \/ Delete(c) \/ ReadBack(c)

Next ==
    \/ \E c \in Clients :
        \/ ArriveCreate(c) \/ ArriveUpdate(c) \/ ArriveOther(c)
        \/ Steps(c) \/ Fail(c) \/ Close(c)
    \/ \E r \in Readers : Learn(r)

\* The handler of a request goes on.
Fairness == \A c \in Clients : WF_vars(Steps(c))

Spec == Init /\ [][Next]_vars /\ Fairness

-----------------------------------------------------------------------------
TypeOK ==
    /\ posts \in [Ids -> Rows \cup {None}]
    /\ lastId \in 0 .. MaxPosts
    /\ \A c \in Clients :
        /\ request[c].step \in {"idle", "insert", "update", "lookup", "delete", "read", "answered"}
        /\ request[c].answer \in
              {None, "ok", "not_found", "slug_conflict", "slug_immutable", "failed"}
        /\ request[c].suffix \in Nat
        /\ request[c].before \in Rows \cup {None}
    /\ \A id \in Ids : posts[id] # None =>
        /\ id <= lastId
        /\ \A other \in Ids \ {id} :
              posts[other] # None => posts[other].slug # posts[id].slug

(***************************************************************************)
(* A link once given leads to the post it was given for as long as that    *)
(* post exists, whatever was created, edited or deleted meanwhile; only    *)
(* after its deletion may it lead to another (the immutable slug of        *)
(* Update, the unique slug of Create, ids that are not used again).        *)
(***************************************************************************)
LinksLead ==
    \A r \in Readers : link[r] # None =>
        LET shown == BySlug(link[r].slug)
        IN  IF posts[link[r].id] # None THEN shown = {link[r].id} ELSE link[r].id \notin shown

(***************************************************************************)
(* A refusal tells what was the case: slug_immutable, that another slug    *)
(* than the post's was named, or that the post was created after the       *)
(* update; not_found, that there was no post when the request came, or     *)
(* that it was deleted since, which is so for one the request itself       *)
(* created; slug_conflict, that nothing was created (adminPosts, postError *)
(* and the two statements of Update).                                      *)
(***************************************************************************)
RefusalsAreTrue ==
    \A c \in Clients :
        LET r == request[c]
        IN  /\ r.answer = "slug_immutable" =>
                 IF r.before # None THEN r.slug \notin {None, r.before.slug} ELSE r.id <= lastId
            /\ r.answer = "not_found" => r.before = None \/ posts[r.id] = None
            /\ r.answer = "slug_conflict" => r.id = 0 /\ r.slug # None

(***************************************************************************)
(* A creation, however many others take the slugs it tries, and every      *)
(* other request is answered (the loop of Create).                         *)
(***************************************************************************)
Answered ==
    \A c \in Clients :
        request[c].step # "idle" ~> request[c].step \in {"idle", "answered"}
=============================================================================
