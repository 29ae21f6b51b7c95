---------------------------- MODULE PostsProofs ----------------------------
(***************************************************************************)
(* What Posts promises for every number of clients and readers, all titles *)
(* and slugs, and without bound on the requests; and what FeedPaging does  *)
(* for feeds and pages of every size.                                      *)
(***************************************************************************)
EXTENDS Posts, FeedPaging, FiniteSetTheorems, WellFoundedInduction, TLAPS

Answers == {None, "ok", "not_found", "slug_conflict", "slug_immutable", "failed"}

RequestTypes ==
    [step : {"idle", "insert", "update", "lookup", "delete", "read", "answered"},
     id : 0 .. MaxPosts, title : Titles \cup {None}, slug : NamedSlugs \cup {None},
     suffix : Nat, before : Rows \cup {None}, answer : Answers]

Types ==
    /\ posts \in [Ids -> Rows \cup {None}]
    /\ lastId \in 0 .. MaxPosts
    /\ request \in [Clients -> RequestTypes]
    /\ DOMAIN link = Readers

\* What the table guarantees: unique slugs, and ids in the order of creation.
Table ==
    /\ \A id \in Ids : posts[id] # None => id <= lastId
    /\ \A id, other \in Ids :
          posts[id] # None /\ posts[other] # None /\ posts[id].slug = posts[other].slug => id = other

\* A link names the slug of its post for as long as there is one.
Links ==
    \A r \in Readers : link[r] # None =>
        /\ link[r].id \in Ids /\ link[r].id <= lastId
        /\ posts[link[r].id] # None => posts[link[r].id].slug = link[r].slug

\* What a request carries to its next statement.
Carried(r) ==
    /\ r.step = "insert" => r.id = 0 /\ r.title \in Titles
    /\ r.step = "update" => r.title \in Titles
    /\ r.step \in {"update", "lookup", "delete", "read"} => r.id \in Ids
    /\ r.step = "lookup" => r.before = None \/ r.slug \notin {None, r.before.slug}
    /\ r.before # None => r.id \in Ids /\ r.id <= lastId
    /\ r.step \in {"insert", "update", "lookup", "delete", "read"} => r.answer = None
    /\ r.step = "idle" => r.answer = None

\* RefusalsAreTrue of one request.
Refused(r) ==
    /\ r.answer = "slug_immutable" =>
         IF r.before # None THEN r.slug \notin {None, r.before.slug} ELSE r.id <= lastId
    /\ r.answer = "not_found" => r.before = None \/ posts[r.id] = None
    /\ r.answer = "slug_conflict" => r.id = 0 /\ r.slug # None

Promised == \A c \in Clients : Carried(request[c]) /\ Refused(request[c])

IInv == Types /\ Table /\ Links /\ Promised

-----------------------------------------------------------------------------
LEMMA IdleType == /\ Idle \in RequestTypes /\ Idle.step = "idle" /\ Idle.id = 0
                  /\ Idle.answer = None /\ Idle.before = None
BY PostsAssumption DEF Idle, RequestTypes, Answers

LEMMA InitInv == Init => IInv
<1> SUFFICES ASSUME Init PROVE IInv
  OBVIOUS
<1>1. Types
  BY IdleType, PostsAssumption DEF Init, Types
<1>2. Table /\ Links
  BY DEF Init, Table, Links
<1>3. Promised
  BY IdleType, AnswersApart DEF Init, Promised, Carried, Refused
<1>4. QED
  BY <1>1, <1>2, <1>3 DEF IInv

\* The table and the links stay; one client goes on with a request that keeps
\* its promises.
LEMMA RequestInv ==
    ASSUME IInv, NEW c \in Clients, NEW r \in RequestTypes,
           request' = [request EXCEPT ![c] = r], UNCHANGED <<posts, lastId, link>>,
           Carried(r), Refused(r)
    PROVE  IInv'
<1> USE DEF IInv
<1>1. request'[c] = r /\ \A d \in Clients \ {c} : request'[d] = request[d]
  BY DEF Types
<1>2. Types'
  BY DEF Types
<1>3. Table' /\ Links'
  BY DEF Table, Links
<1>4. Promised'
  BY <1>1 DEF Promised, Carried, Refused
<1>5. QED
  BY <1>2, <1>3, <1>4

-----------------------------------------------------------------------------
LEMMA StartInv ==
    ASSUME IInv, NEW c \in Clients, NEW r \in RequestTypes, Start(c, r),
           Carried(r), r.answer = None
    PROVE  IInv'
<1>1. Refused(r)
  BY AnswersApart DEF Refused
<1>2. request' = [request EXCEPT ![c] = r] /\ UNCHANGED <<posts, lastId, link>>
  BY DEF Start
<1>3. QED
  BY <1>1, <1>2, RequestInv

LEMMA ArriveInv ==
    ASSUME IInv, NEW c \in Clients, ArriveCreate(c) \/ ArriveUpdate(c) \/ ArriveOther(c)
    PROVE  IInv'
<1> USE DEF Ids
<1>1. CASE ArriveCreate(c)
  <2>1. PICK t \in Titles, s \in NamedSlugs \cup {None} :
            Start(c, [Idle EXCEPT !.step = "insert", !.title = t, !.slug = s])
    BY <1>1 DEF ArriveCreate
  <2> DEFINE r == [Idle EXCEPT !.step = "insert", !.title = t, !.slug = s]
  <2>2. r \in RequestTypes
    BY IdleType, PostsAssumption DEF RequestTypes
  <2>3. /\ r.step = "insert" /\ r.id = 0 /\ r.title = t
        /\ r.before = None /\ r.answer = None
    BY IdleType DEF RequestTypes
  <2>4. Carried(r)
    BY <2>3 DEF Carried
  <2>5. QED
    BY <2>1, <2>2, <2>3, <2>4, StartInv
<1>2. CASE ArriveUpdate(c)
  <2>1. PICK i \in Ids, t \in Titles, s \in NamedSlugs \cup {None} :
            Start(c, [Idle EXCEPT !.step = "update", !.id = i, !.title = t, !.slug = s])
    BY <1>2 DEF ArriveUpdate
  <2> DEFINE r == [Idle EXCEPT !.step = "update", !.id = i, !.title = t, !.slug = s]
  <2>2. r \in RequestTypes
    <3>1. i \in 0 .. MaxPosts
      BY PostsAssumption
    <3>2. QED
      BY <3>1, IdleType DEF RequestTypes
  <2>3. /\ r.step = "update" /\ r.id = i /\ r.title = t
        /\ r.before = None /\ r.answer = None
    BY IdleType DEF RequestTypes
  <2>4. Carried(r)
    BY <2>3 DEF Carried
  <2>5. QED
    BY <2>1, <2>2, <2>3, <2>4, StartInv
<1>3. CASE ArriveOther(c)
  <2>1. PICK i \in Ids, step \in {"delete", "read"} :
            Start(c, [Idle EXCEPT !.step = step, !.id = i, !.before = posts[i]])
    BY <1>3 DEF ArriveOther
  <2> DEFINE r == [Idle EXCEPT !.step = step, !.id = i, !.before = posts[i]]
  <2>2. posts[i] \in Rows \cup {None} /\ (posts[i] # None => i <= lastId)
    BY DEF IInv, Types, Table
  <2>3. r \in RequestTypes
    <3>1. i \in 0 .. MaxPosts
      BY PostsAssumption
    <3>2. QED
      BY <2>2, <3>1, IdleType DEF RequestTypes
  <2>4. r.step = step /\ r.id = i /\ r.before = posts[i] /\ r.answer = None
    BY IdleType DEF RequestTypes
  <2>5. Carried(r)
    BY <2>2, <2>4 DEF Carried
  <2>6. QED
    BY <2>1, <2>3, <2>4, <2>5, StartInv
<1>4. QED
  BY <1>1, <1>2, <1>3

\* What a step is told about the request it serves.
LEMMA Known ==
    ASSUME IInv, NEW c \in Clients
    PROVE  /\ request[c] \in RequestTypes
           /\ Carried(request[c]) /\ Refused(request[c])
BY DEF IInv, Types, Promised

\* A request that is answered without a change of the table.
LEMMA AnswerInv ==
    ASSUME IInv, NEW c \in Clients, NEW a \in Answers, request' = Answer(c, a),
           UNCHANGED <<posts, lastId, link>>,
           LET r == request[c]
           IN  /\ a = "slug_immutable" =>
                     IF r.before # None THEN r.slug \notin {None, r.before.slug}
                     ELSE r.id <= lastId
               /\ a = "not_found" => r.before = None \/ posts[r.id] = None
               /\ a = "slug_conflict" => r.id = 0 /\ r.slug # None
    PROVE  IInv'
<1> DEFINE r == [request[c] EXCEPT !.step = "answered", !.answer = a]
<1>1. request[c] \in RequestTypes /\ Carried(request[c])
  BY Known
<1>2. request' = [request EXCEPT ![c] = r]
  BY <1>1 DEF Answer, IInv, Types, RequestTypes
<1>3. r \in RequestTypes
  BY <1>1 DEF RequestTypes
<1>4. Carried(r)
  BY <1>1 DEF Carried, RequestTypes
<1>5. Refused(r)
  BY <1>1 DEF Refused, RequestTypes
<1>6. QED
  BY <1>2, <1>3, <1>4, <1>5, RequestInv

LEMMA AnsweringInv ==
    ASSUME IInv, NEW c \in Clients, Lookup(c) \/ ReadBack(c) \/ Fail(c)
    PROVE  IInv'
<1> DEFINE r == request[c]
<1>1. r \in RequestTypes /\ Carried(r)
  BY Known
<1>2. CASE Lookup(c)
  <2>1. r.id \in Ids /\ (r.before = None \/ r.slug \notin {None, r.before.slug})
    BY <1>1, <1>2 DEF Lookup, Carried
  <2>2. CASE posts[r.id] = None
    BY <1>2, <2>2, AnswerInv DEF Lookup, Answers
  <2>3. CASE posts[r.id] # None
    <3>1. r.id <= lastId
      BY <2>1, <2>3 DEF IInv, Table
    <3>2. QED
      BY <1>2, <2>1, <2>3, <3>1, AnswerInv DEF Lookup, Answers
  <2>4. QED
    BY <2>2, <2>3
<1>3. CASE ReadBack(c)
  BY <1>3, AnswerInv DEF ReadBack, Answers
<1>4. CASE Fail(c)
  BY <1>4, AnswerInv DEF Fail, Answers
<1>5. QED
  BY <1>2, <1>3, <1>4

LEMMA CloseInv ==
    ASSUME IInv, NEW c \in Clients, Close(c)
    PROVE  IInv'
<1>1. Carried(Idle) /\ Refused(Idle)
  BY IdleType, AnswersApart DEF Carried, Refused
<1>2. QED
  BY <1>1, IdleType, RequestInv DEF Close

-----------------------------------------------------------------------------
LEMMA InsertInv ==
    ASSUME IInv, NEW c \in Clients, Insert(c)
    PROVE  IInv'
<1> DEFINE r == request[c]
<1> DEFINE slug == Candidate(r)
<1>1. r \in RequestTypes /\ Carried(r) /\ r.step = "insert" /\ r.id = 0 /\ r.title \in Titles
  BY Known DEF Insert, Carried
<1>2. slug \in Titles \X Nat
  BY <1>1, PostsAssumption DEF Candidate, RequestTypes
<1>3. CASE ~Taken(slug)
  <2> DEFINE id == lastId + 1
  <2> DEFINE row == [title |-> r.title, slug |-> slug]
  <2> DEFINE q == [r EXCEPT !.step = "read", !.id = id, !.before = row]
  <2>1. /\ id \in Ids /\ lastId' = id
        /\ posts' = [posts EXCEPT ![id] = row]
        /\ UNCHANGED <<link, requests>>
    BY <1>3, PostsAssumption DEF Insert, IInv, Types, Ids
  <2>2. row \in Rows /\ row # None /\ row.slug = slug
    BY <1>1, <1>2, RowAssumption DEF Rows, Slugs
  <2>3. posts'[id] = row /\ \A i \in Ids \ {id} : posts'[i] = posts[i]
    BY <2>1 DEF IInv, Types
  <2>4. request' = [request EXCEPT ![c] = q]
    BY <1>1, <1>3, <2>1, <2>3 DEF Insert, IInv, Types, RequestTypes
  <2>5. q \in RequestTypes
    <3>1. id \in 0 .. MaxPosts
      BY <2>1, PostsAssumption DEF Ids
    <3>2. row \in Rows \cup {None}
      BY <2>2
    <3> HIDE DEF row, id
    <3>3. QED
      BY <1>1, <3>1, <3>2 DEF RequestTypes
  <2>6. request'[c] = q /\ \A d \in Clients \ {c} : request'[d] = request[d]
    BY <2>4 DEF IInv, Types
  <2>7. posts[id] = None
    BY <2>1 DEF IInv, Table, Types, Ids
  <2>8. Types'
    BY <2>1, <2>2, <2>4, <2>5 DEF IInv, Types, Ids
  <2>9. Table'
    <3>1. \A i \in Ids : posts'[i] # None => i <= lastId'
      BY <2>1, <2>3 DEF IInv, Table, Types, Ids
    <3>2. \A i \in Ids : posts[i] # None => posts[i].slug # slug
      BY <1>3 DEF Taken
    <3>3. \A i, other \in Ids :
            posts'[i] # None /\ posts'[other] # None /\ posts'[i].slug = posts'[other].slug
              => i = other
      BY <2>2, <2>3, <3>2 DEF IInv, Table
    <3>4. QED
      BY <3>1, <3>3 DEF Table
  <2>10. Links'
    BY <2>1, <2>3, <2>7 DEF IInv, Links, Types, Ids
  <2>11. Promised'
    <3>1. q.step = "read" /\ q.id = id /\ q.answer = None
      <4> HIDE DEF row, id
      <4>1. QED
        BY <1>1 DEF Carried, RequestTypes
    <3>2. Carried(request[c])' /\ Refused(request[c])'
      <4>1. lastId' = request'[c].id /\ request'[c].step = "read" /\ request'[c].id \in Ids
            /\ request'[c].answer = None /\ id \in Nat
        BY <2>1, <2>6, <3>1, PostsAssumption DEF Ids
      <4>2. lastId' <= lastId'
        BY <2>1, <4>1
      <4>3. QED
        BY <4>1, <4>2, AnswersApart DEF Carried, Refused
    <3>3. ASSUME NEW d \in Clients \ {c} PROVE Carried(request[d])' /\ Refused(request[d])'
      <4>1. request'[d] = request[d] /\ Carried(request[d]) /\ Refused(request[d])
            /\ request[d] \in RequestTypes
        BY <2>6, Known
      <4>2. lastId \in Nat /\ lastId' = lastId + 1
        BY <2>1 DEF IInv, Types
      <4>3. Carried(request[d])'
        BY <4>1, <4>2 DEF Carried, RequestTypes
      <4>4. request[d].before # None => request[d].id # id
        BY <4>1, <4>2 DEF Carried, RequestTypes
      <4>5. request[d].answer = "not_found" =>
              request[d].before = None \/ posts'[request[d].id] = None
        BY <2>3, <4>1, <4>4 DEF Refused, Carried
      <4>6. Refused(request[d])'
        BY <4>1, <4>2, <4>5 DEF Refused, RequestTypes
      <4>7. QED
        BY <4>3, <4>6
    <3>4. QED
      BY <3>2, <3>3 DEF Promised
  <2>12. QED
    BY <2>8, <2>9, <2>10, <2>11 DEF IInv
<1>4. CASE Taken(slug)
  <2>1. CASE r.slug # None
    BY <1>1, <1>4, <2>1, AnswerInv DEF Insert, Answers
  <2>2. CASE r.slug = None
    <3> DEFINE q == [r EXCEPT !.suffix = NextSuffix(r)]
    <3>1. request' = [request EXCEPT ![c] = q] /\ UNCHANGED <<posts, lastId, link>>
      BY <1>4, <2>2 DEF Insert, IInv, Types, RequestTypes
    <3>2. q \in RequestTypes
      BY <1>1 DEF RequestTypes, NextSuffix
    <3>3. Carried(q) /\ Refused(q)
      BY <1>1, Known DEF Carried, Refused, RequestTypes
    <3>4. QED
      BY <3>1, <3>2, <3>3, RequestInv
  <2>3. QED
    BY <2>1, <2>2
<1>5. QED
  BY <1>3, <1>4

LEMMA UpdateInv ==
    ASSUME IInv, NEW c \in Clients, Update(c)
    PROVE  IInv'
<1> DEFINE r == request[c]
<1> DEFINE row == posts[r.id]
<1> DEFINE q == [r EXCEPT !.step = IF Matches(row, r) THEN "read" ELSE "lookup", !.before = row]
<1>1. /\ r \in RequestTypes /\ Carried(r) /\ r.step = "update" /\ r.id \in Ids
      /\ r.title \in Titles /\ r.answer = None
  BY Known DEF Update, Carried
<1>2. row \in Rows \cup {None} /\ (row # None => r.id <= lastId)
  BY <1>1 DEF IInv, Types, Table
<1>3. request' = [request EXCEPT ![c] = q] /\ UNCHANGED <<lastId, link, requests>>
  BY <1>1 DEF Update, IInv, Types, RequestTypes
<1>4. q \in RequestTypes
  BY <1>1, <1>2 DEF RequestTypes
<1>5. Carried(q)
  BY <1>1, <1>2 DEF Carried, RequestTypes, Matches
<1>6. Refused(q) /\ q.answer = None
  BY <1>1, AnswersApart DEF Refused, RequestTypes
<1>7. CASE ~Matches(row, r)
  BY <1>3, <1>4, <1>5, <1>6, <1>7, RequestInv DEF Update
<1>8. CASE Matches(row, r)
  <2> DEFINE new == Updated(row, r)
  <2>1. row \in Rows /\ row # None
    BY <1>2, <1>8 DEF Matches
  <2>2. new \in Rows /\ new.slug = row.slug /\ new # None
    BY <1>1, <2>1, RowAssumption DEF Updated, Rows, Slugs
  <2>3. posts' = [posts EXCEPT ![r.id] = new]
    BY <1>8 DEF Update
  <2>4. posts'[r.id] = new /\ \A i \in Ids \ {r.id} : posts'[i] = posts[i]
    BY <1>1, <2>3 DEF IInv, Types
  <2>5. /\ \A i \in Ids : posts'[i] = None <=> posts[i] = None
        /\ \A i \in Ids : posts[i] # None => posts'[i].slug = posts[i].slug
    BY <2>1, <2>2, <2>4
  <2>6. Types'
    BY <1>1, <1>3, <1>4, <2>2, <2>3 DEF IInv, Types
  <2>7. Table'
    BY <1>3, <2>5 DEF IInv, Table
  <2>8. Links'
    BY <1>3, <2>5 DEF IInv, Links
  <2>9. request'[c] = q /\ \A d \in Clients \ {c} : request'[d] = request[d]
    BY <1>3 DEF IInv, Types
  <2>10. ASSUME NEW d \in Clients PROVE Carried(request[d])' /\ Refused(request[d])'
    <3>1. request'[d] \in RequestTypes /\ Carried(request'[d]) /\ Refused(request'[d])
      BY <1>4, <1>5, <1>6, <2>9, Known
    <3>2. Carried(request[d])'
      BY <1>3, <3>1 DEF Carried
    <3>3. request'[d].answer = "not_found" =>
            request'[d].before = None \/ posts'[request'[d].id] = None
      BY <2>5, <3>1 DEF Refused, Carried
    <3>4. Refused(request[d])'
      BY <1>3, <3>1, <3>3 DEF Refused
    <3>5. QED
      BY <3>2, <3>4
  <2>11. QED
    BY <2>6, <2>7, <2>8, <2>10 DEF IInv, Promised
<1>9. QED
  BY <1>7, <1>8

LEMMA DeleteInv ==
    ASSUME IInv, NEW c \in Clients, Delete(c)
    PROVE  IInv'
<1> DEFINE r == request[c]
<1> DEFINE row == posts[r.id]
<1> DEFINE a == IF row = None THEN "not_found" ELSE "ok"
<1> DEFINE q == [r EXCEPT !.step = "answered", !.answer = a, !.before = row]
<1>1. r \in RequestTypes /\ Carried(r) /\ r.step = "delete" /\ r.id \in Ids
  BY Known DEF Delete, Carried
<1>2. row \in Rows \cup {None} /\ (row # None => r.id <= lastId)
  BY <1>1 DEF IInv, Types, Table
<1>3. request' = [request EXCEPT ![c] = q] /\ UNCHANGED <<lastId, link, requests>>
  BY <1>1 DEF Delete, Answer, IInv, Types, RequestTypes
<1>4. posts' = [posts EXCEPT ![r.id] = None]
  BY DEF Delete
<1>5. posts'[r.id] = None /\ \A i \in Ids \ {r.id} : posts'[i] = posts[i]
  BY <1>1, <1>4 DEF IInv, Types
<1>6. q \in RequestTypes
  BY <1>1, <1>2 DEF RequestTypes, Answers
<1>7. request'[c] = q /\ \A d \in Clients \ {c} : request'[d] = request[d]
  BY <1>3 DEF IInv, Types
<1>8. Types'
  BY <1>1, <1>3, <1>4, <1>6 DEF IInv, Types
<1>9. Table' /\ Links'
  BY <1>3, <1>5 DEF IInv, Table, Links
<1>10. Carried(q) /\ Refused(q)
  BY <1>1, <1>2 DEF Carried, Refused, RequestTypes
<1>11. ASSUME NEW d \in Clients PROVE Carried(request[d])' /\ Refused(request[d])'
  <2>1. Carried(request'[d]) /\ Refused(request'[d])
    BY <1>7, <1>10, Known
  <2>2. Carried(request[d])'
    BY <1>3, <2>1 DEF Carried
  <2>3. request'[d].answer = "not_found" =>
          request'[d].before = None \/ posts'[request'[d].id] = None
    BY <1>5, <2>1 DEF Refused, Carried
  <2>4. Refused(request[d])'
    BY <1>3, <2>1, <2>3 DEF Refused
  <2>5. QED
    BY <2>2, <2>4
<1>12. QED
  BY <1>8, <1>9, <1>11 DEF IInv, Promised

LEMMA LearnInv ==
    ASSUME IInv, NEW r \in Readers, Learn(r)
    PROVE  IInv'
<1>1. PICK id \in Ids : /\ posts[id] # None
                        /\ link' = [link EXCEPT ![r] = [id |-> id, slug |-> posts[id].slug]]
  BY DEF Learn
<1>2. UNCHANGED <<posts, lastId, request, requests>>
  BY DEF Learn
<1>3. Types' /\ Table' /\ Promised'
  BY <1>1, <1>2 DEF IInv, Types, Table, Promised, Carried, Refused
<1>4. Links'
  BY <1>1, <1>2 DEF IInv, Types, Table, Links
<1>5. QED
  BY <1>3, <1>4 DEF IInv

-----------------------------------------------------------------------------
LEMMA StepInv == IInv /\ [Next]_vars => IInv'
<1> SUFFICES ASSUME IInv, [Next]_vars PROVE IInv'
  OBVIOUS
<1>1. CASE UNCHANGED vars
  BY <1>1 DEF vars, IInv, Types, Table, Links, Promised, Carried, Refused
<1>2. ASSUME NEW c \in Clients, ArriveCreate(c) \/ ArriveUpdate(c) \/ ArriveOther(c)
      PROVE  IInv'
  BY <1>2, ArriveInv
<1>3. ASSUME NEW c \in Clients, Steps(c) \/ Fail(c) \/ Close(c)
      PROVE  IInv'
  BY <1>3, InsertInv, UpdateInv, AnsweringInv, DeleteInv, CloseInv DEF Steps
<1>4. ASSUME NEW r \in Readers, Learn(r)
      PROVE  IInv'
  BY <1>4, LearnInv
<1>5. QED
  BY <1>1, <1>2, <1>3, <1>4 DEF Next

LEMMA Invariance == Spec => []IInv
<1>1. QED
  BY InitInv, StepInv, PTL DEF Spec

(***************************************************************************)
(* The table, the counter of ids and what the requests carry are of their  *)
(* types; no two posts have one slug, and no post has an id that was not   *)
(* handed out (Create of backend/internal/posts/write.go).                 *)
(***************************************************************************)
THEOREM PostsTypes == Spec => []TypeOK
<1>1. IInv => TypeOK
  <2>1. SUFFICES ASSUME IInv PROVE TypeOK
    OBVIOUS
  <2>2. \A c \in Clients : request[c] \in RequestTypes
    BY <2>1 DEF IInv, Types
  <2>3. \A c \in Clients :
          /\ request[c].step \in
                {"idle", "insert", "update", "lookup", "delete", "read", "answered"}
          /\ request[c].answer \in Answers /\ request[c].suffix \in Nat
          /\ request[c].before \in Rows \cup {None}
    BY <2>2 DEF RequestTypes
  <2>4. QED
    BY <2>1, <2>3 DEF IInv, Types, Table, TypeOK, Answers
<1>2. QED
  BY <1>1, Invariance, PTL

(***************************************************************************)
(* A reader's link leads to the post it was given for while that post      *)
(* exists: the slug of a post does not change and no other post has it     *)
(* (Create, Update and Delete of backend/internal/posts/write.go).         *)
(***************************************************************************)
THEOREM LinksKeepLeading == Spec => []LinksLead
<1>1. IInv => LinksLead
  BY DEF IInv, Table, Links, LinksLead, BySlug
<1>2. QED
  BY <1>1, Invariance, PTL

(***************************************************************************)
(* A refusal of the administrator's request is true whatever the other     *)
(* windows did between its statements: an id is not handed out twice, so a *)
(* post that was not found stays away (adminPosts and postError).          *)
(***************************************************************************)
THEOREM RefusalsStayTrue == Spec => []RefusalsAreTrue
<1>1. IInv => RefusalsAreTrue
  BY DEF IInv, Promised, Refused, RefusalsAreTrue
<1>2. QED
  BY <1>1, Invariance, PTL
-----------------------------------------------------------------------------
(***************************************************************************)
(* The feed.  The request under way was sent with the cursor that is still *)
(* there, ids are not handed out again, and every card is before the       *)
(* cursor.                                                                 *)
(***************************************************************************)
LoadTypes ==
    [step : {"free", "sent", "answered"}, cursor : Cursors \cup {Missing},
     visit : 0 .. MaxAway, page : Seq(FeedIds), next : Cursors \cup {Missing}]

FeedTypes ==
    /\ feed \in [FeedIds -> (0 .. MaxTime) \cup {Missing}]
    /\ lastFeedId \in 0 .. MaxFeed /\ now \in 0 .. MaxTime
    /\ shown \in Seq(FeedIds) /\ cursor \in Cursors /\ loaded \subseteq Cursors
    /\ loading \in BOOLEAN /\ away \in BOOLEAN /\ visit \in 0 .. MaxAway
    /\ away => visit < MaxAway
    /\ since \subseteq FeedIds
    /\ load \in LoadTypes
    /\ loading <=> load.step # "free"
    /\ load.step # "free" => load.cursor = cursor /\ cursor \notin {NewestFirst, End}

\* The posts of a list that still exist are in the order of the feed.
Descending(ids) ==
    \A m, n \in DOMAIN ids :
        m < n /\ ids[m] \in Existing /\ ids[n] \in Existing =>
            Older(Key(ids[n]), Key(ids[m]))

HandedOut ==
    /\ \A id \in Existing : id <= lastFeedId
    /\ \A id \in since : id <= lastFeedId
    /\ \A n \in DOMAIN shown : shown[n] <= lastFeedId
    /\ \A n \in DOMAIN load.page : load.page[n] <= lastFeedId

ShownInv ==
    /\ Descending(shown)
    /\ \A n \in DOMAIN shown : shown[n] \in Existing => ~Older(Key(shown[n]), cursor)
    /\ cursor = NewestFirst => shown = <<>> /\ since = {}

Skipless ==
    \A id \in since \cap Existing :
        ~Older(Key(id), cursor) => \E n \in DOMAIN shown : shown[n] = id

\* An answer lies between its cursor and the next one, and leaves nothing out.
PageFits ==
    /\ load.next \in Cursors \ {NewestFirst} /\ Older(load.next, load.cursor)
    /\ Descending(load.page)
    /\ \A n \in DOMAIN load.page :
          /\ \A m \in DOMAIN shown : shown[m] # load.page[n]
          /\ load.page[n] \in Existing =>
                Older(Key(load.page[n]), load.cursor) /\ ~Older(Key(load.page[n]), load.next)
    /\ \A id \in since \cap Existing :
          Older(Key(id), load.cursor) /\ ~Older(Key(id), load.next) =>
              \E n \in DOMAIN load.page : load.page[n] = id

FeedInv ==
    /\ FeedTypes /\ HandedOut /\ ShownInv /\ Skipless
    /\ load.step = "answered" => PageFits

-----------------------------------------------------------------------------
\* Cursors are compared first by the second and then by the id.
Pairs == Int \X Int

LEMMA OlderTransitive ==
    ASSUME NEW a \in Pairs, NEW b \in Pairs, NEW c \in Pairs
    PROVE  /\ Older(a, b) /\ Older(b, c) => Older(a, c)
           /\ Older(a, b) /\ ~Older(c, b) => Older(a, c)
           /\ ~Older(a, b) /\ Older(c, b) => ~Older(a, c)
           /\ Older(a, b) => ~Older(b, a)
           /\ Older(a, b) \/ Older(b, a) \/ a = b
BY DEF Pairs, Older

LEMMA CursorPairs == Cursors \subseteq Pairs /\ NewestFirst \in Cursors /\ End \in Cursors
BY FeedAssumption DEF Cursors, Pairs, NewestFirst, End, FeedIds

\* The key of a post is older than no cursor yet, and not older than none any more.
LEMMA Keys ==
    ASSUME feed \in [FeedIds -> (0 .. MaxTime) \cup {Missing}], NEW id \in Existing
    PROVE  /\ id \in FeedIds /\ id \in Nat /\ feed[id] \in 0 .. MaxTime
           /\ Key(id) = <<feed[id], id>> /\ Key(id) \in Cursors \ {NewestFirst, End}
           /\ Key(id) \in Pairs
           /\ Older(Key(id), NewestFirst) /\ ~Older(Key(id), End) /\ Older(End, Key(id))
<1>1. id \in FeedIds /\ id \in Nat /\ id # 0 /\ feed[id] \in 0 .. MaxTime
  BY FeedAssumption DEF Existing, FeedIds
<1>2. Key(id) = <<feed[id], id>>
  BY DEF Key
<1>3. QED
  BY <1>1, <1>2, FeedAssumption DEF Cursors, NewestFirst, End, Older, Pairs

-----------------------------------------------------------------------------
\* What the query sorts: as many posts precede the n-th of them as numbers do n.
LEMMA Ranks ==
    ASSUME feed \in [FeedIds -> (0 .. MaxTime) \cup {Missing}], NEW S \in SUBSET Existing,
           NEW nth,
           nth = [n \in 1 .. Cardinality(S) |->
                    CHOOSE id \in S : Cardinality({i \in S : Precedes(i, id)}) = n - 1]
    PROVE  /\ IsFiniteSet(S) /\ Cardinality(S) \in Nat
           /\ \A n \in 1 .. Cardinality(S) : nth[n] \in S
           /\ \A m, n \in 1 .. Cardinality(S) : m < n => Precedes(nth[m], nth[n])
           /\ \A id \in S : \E n \in 1 .. Cardinality(S) : nth[n] = id
<1> DEFINE Before(id) == {i \in S : Precedes(i, id)}
           rank == [id \in S |-> Cardinality(Before(id)) + 1]
           size == Cardinality(S)
<1>1. IsFiniteSet(S) /\ size \in Nat
  <2>1. IsFiniteSet(FeedIds)
    BY FeedAssumption, FS_Interval DEF FeedIds
  <2>2. S \in SUBSET FeedIds
    BY DEF Existing
  <2>3. QED
    BY <2>1, <2>2, FS_Subset, FS_CardinalityType
<1>2. \A i, j \in S : /\ feed[i] \in Nat /\ i \in Nat
                      /\ i # j => (Precedes(i, j) <=> ~Precedes(j, i))
                      /\ ~Precedes(i, i)
  <2>1. \A i \in S : feed[i] \in Nat /\ i \in Nat
    BY Keys, FeedAssumption
  <2>2. QED
    BY <2>1 DEF Precedes
<1>3. \A i, j, k \in S : Precedes(i, j) /\ Precedes(j, k) => Precedes(i, k)
  BY <1>2 DEF Precedes
<1>4. \A id \in S : IsFiniteSet(Before(id)) /\ Cardinality(Before(id)) \in Nat
  BY <1>1, FS_Subset, FS_CardinalityType
<1>5. \A i, j \in S : Precedes(i, j) => Cardinality(Before(i)) < Cardinality(Before(j))
  <2> SUFFICES ASSUME NEW i \in S, NEW j \in S, Precedes(i, j)
               PROVE  Cardinality(Before(i)) < Cardinality(Before(j))
    OBVIOUS
  <2>1. Before(i) \in SUBSET Before(j)
    BY <1>3
  <2>2. Before(i) # Before(j)
    BY <1>2
  <2> HIDE DEF Before
  <2>3. QED
    BY <1>4, <2>1, <2>2, FS_Subset
<1>6. \A id \in S : Cardinality(Before(id)) < size
  <2> SUFFICES ASSUME NEW id \in S PROVE Cardinality(Before(id)) < size
    OBVIOUS
  <2>1. Before(id) \in SUBSET S /\ Before(id) # S
    BY <1>2
  <2> HIDE DEF Before
  <2>2. QED
    BY <1>1, <1>4, <2>1, FS_Subset
<1> HIDE DEF Before, size
<1>7. rank \in [S -> 1 .. size]
  BY <1>1, <1>4, <1>6
<1>8. \A i, j \in S : rank[i] = rank[j] => i = j
  BY <1>2, <1>4, <1>5
<1>9. rank \in Injection(S, 1 .. size)
  BY <1>7, <1>8 DEF Injection, IsInjective
<1>10. rank \in Surjection(S, 1 .. size)
  <2>1. IsFiniteSet(1 .. size) /\ Cardinality(1 .. size) = size
    BY <1>1, FS_Interval
  <2>2. QED
    BY <1>9, <2>1, FS_Injection DEF size
<1>11. \A n \in 1 .. size : nth[n] \in S /\ rank[nth[n]] = n
  <2> SUFFICES ASSUME NEW n \in 1 .. size PROVE nth[n] \in S /\ rank[nth[n]] = n
    OBVIOUS
  <2>1. PICK id \in S : rank[id] = n
    BY <1>10 DEF Surjection
  <2>2. Cardinality(Before(id)) = n - 1
    BY <1>4, <2>1
  <2>3. nth[n] = CHOOSE i \in S : Cardinality(Before(i)) = n - 1
    BY DEF size, Before
  <2>4. nth[n] \in S /\ Cardinality(Before(nth[n])) = n - 1
    BY <2>2, <2>3
  <2>5. QED
    BY <2>4
<1> HIDE DEF rank
<1>12. \A id \in S : rank[id] \in 1 .. size /\ nth[rank[id]] = id
  BY <1>7, <1>8, <1>11
<1>13. \A m, n \in 1 .. size : m < n => Precedes(nth[m], nth[n])
  <2> SUFFICES ASSUME NEW m \in 1 .. size, NEW n \in 1 .. size, m < n
               PROVE  Precedes(nth[m], nth[n])
    OBVIOUS
  <2>1. nth[m] \in S /\ nth[n] \in S /\ rank[nth[m]] < rank[nth[n]]
    BY <1>11
  <2>2. nth[m] # nth[n]
    <3>1. m # n
      BY <1>1
    <3>2. rank[nth[m]] = m /\ rank[nth[n]] = n
      BY <1>11
    <3>3. QED
      BY <3>1, <3>2
  <2>3. ~Precedes(nth[n], nth[m])
    BY <1>4, <1>5, <2>1 DEF rank
  <2>4. QED
    BY <1>2, <2>1, <2>2, <2>3
<1>14. QED
  BY <1>1, <1>11, <1>12, <1>13 DEF size

\* Feed: the page is what the next cursor has passed of what the cursor had not.
LEMMA FeedPage ==
    ASSUME feed \in [FeedIds -> (0 .. MaxTime) \cup {Missing}],
           NEW c \in Cursors, c # End
    PROVE  /\ Feed(c).page \in Seq(FeedIds)
           /\ \A n \in DOMAIN Feed(c).page :
                 /\ Feed(c).page[n] \in Existing
                 /\ Older(Key(Feed(c).page[n]), c)
                 /\ ~Older(Key(Feed(c).page[n]), Feed(c).next)
           /\ Descending(Feed(c).page)
           /\ Feed(c).next \in Cursors \ {NewestFirst} /\ Older(Feed(c).next, c)
           /\ \A id \in Existing :
                 Older(Key(id), c) /\ ~Older(Key(id), Feed(c).next) =>
                     \E n \in DOMAIN Feed(c).page : Feed(c).page[n] = id
<1> DEFINE S == After(c)
           size == Cardinality(S)
           more == size > Limit
           nth == [n \in 1 .. size |->
                      CHOOSE id \in S : Cardinality({i \in S : Precedes(i, id)}) = n - 1]
           last == IF more THEN Limit ELSE size
           page == Feed(c).page
           next == Feed(c).next
<1>1. S \in SUBSET Existing /\ \A id \in Existing : id \in S <=> Older(Key(id), c)
  BY DEF After
<1>2. /\ size \in Nat
      /\ \A n \in 1 .. size : nth[n] \in S
      /\ \A m, n \in 1 .. size : m < n => Precedes(nth[m], nth[n])
      /\ \A id \in S : \E n \in 1 .. size : nth[n] = id
  <2> HIDE DEF S
  <2>1. QED
    BY <1>1, Ranks
<1>3. last \in Nat /\ last <= size /\ (more => last = Limit /\ Limit \in 1 .. size)
  BY <1>2, FeedAssumption
<1>4. page = [n \in 1 .. last |-> nth[n]]
  <2>1. page = [n \in 1 .. last |->
                   CHOOSE id \in S : Cardinality({i \in S : Precedes(i, id)}) = n - 1]
    BY DEF Feed
  <2>2. \A n \in 1 .. last : n \in 1 .. size
    BY <1>2, <1>3
  <2>3. QED
    BY <2>1, <2>2
<1>5. next = IF more THEN Key(page[Limit]) ELSE End
  BY DEF Feed
<1> HIDE DEF S, size, nth, last, page, next, more
<1>6. DOMAIN page = 1 .. last /\ \A n \in 1 .. last : n \in 1 .. size /\ page[n] = nth[n]
  BY <1>2, <1>3, <1>4
<1>7. page \in Seq(FeedIds)
  BY <1>1, <1>2, <1>3, <1>4, <1>6 DEF Existing
<1>8. \A n \in DOMAIN page : page[n] \in S /\ page[n] \in Existing /\ Older(Key(page[n]), c)
  BY <1>1, <1>2, <1>6
<1>9. \A i, j \in Existing : Precedes(i, j) <=> Older(Key(j), Key(i))
  <2>1. \A i \in Existing : feed[i] \in Nat /\ i \in Nat /\ Key(i) = <<feed[i], i>>
    BY Keys, FeedAssumption
  <2>2. QED
    BY <2>1 DEF Precedes, Older
<1>10. \A m, n \in DOMAIN page : m < n => Older(Key(page[n]), Key(page[m]))
  BY <1>2, <1>6, <1>8, <1>9
<1>11. Descending(page)
  BY <1>10 DEF Descending
<1>12. CASE ~more
  <2>1. next = End /\ last = size
    BY <1>5, <1>12 DEF last
  <2>2. Older(End, c)
    BY FeedAssumption DEF Cursors, NewestFirst, End, Older
  <2>3. \A id \in Existing : ~Older(Key(id), End)
    BY Keys
  <2>4. End \in Cursors \ {NewestFirst}
    BY FeedAssumption DEF Cursors, NewestFirst, End
  <2>5. \A id \in S : \E n \in DOMAIN page : page[n] = id
    BY <1>2, <1>6, <2>1
  <2>6. QED
    BY <1>1, <1>7, <1>8, <1>11, <2>1, <2>2, <2>3, <2>4, <2>5 DEF page, next
<1>13. CASE more
  <2> DEFINE z == page[Limit]
  <2>1. last = Limit /\ Limit \in DOMAIN page /\ next = Key(z) /\ z \in Existing
    BY <1>3, <1>5, <1>6, <1>8, <1>13
  <2> HIDE DEF z
  <2>2. \A id \in Existing : Key(id) \in Pairs /\ Key(id) \in Cursors \ {NewestFirst, End}
    BY Keys
  <2>3. ASSUME NEW n \in DOMAIN page PROVE ~Older(Key(page[n]), Key(z))
    <3>1. CASE n = Limit
      <4>1. ~Older(Key(z), Key(z))
        BY <2>1, <2>2, OlderTransitive
      <4>2. QED
        BY <3>1, <4>1 DEF z
    <3>2. CASE n # Limit
      <4>1. n < Limit /\ n \in Nat
        BY <1>3, <1>6, <2>1, <3>2
      <4>2. Older(Key(z), Key(page[n]))
        BY <1>10, <2>1, <4>1 DEF z
      <4>3. QED
        BY <1>8, <2>1, <2>2, <4>2, OlderTransitive
    <3>3. QED
      BY <3>1, <3>2
  <2>4. ASSUME NEW id \in S, ~Older(Key(id), Key(z))
        PROVE  \E n \in DOMAIN page : page[n] = id
    <3>1. PICK n \in 1 .. size : nth[n] = id
      BY <1>2
    <3>2. CASE n <= Limit
      BY <1>6, <2>1, <3>1, <3>2
    <3>3. CASE n > Limit
      <4>1. Limit \in 1 .. size /\ z = nth[Limit]
        BY <1>3, <1>6, <1>13, <2>1 DEF z
      <4>2. Precedes(z, id)
        BY <1>2, <3>1, <3>3, <4>1
      <4>3. QED
        BY <1>1, <1>9, <2>1, <2>4, <4>2
    <3>4. QED
      BY <1>2, <1>3, <1>13, <3>1, <3>2, <3>3
  <2>5. Older(Key(z), c)
    BY <1>8, <2>1 DEF z
  <2>6. QED
    BY <1>1, <1>7, <1>8, <1>11, <2>1, <2>2, <2>3, <2>4, <2>5 DEF page, next
<1>14. QED
  BY <1>12, <1>13

\* A page of new cards is appended as it is.
LEMMA Appended ==
    ASSUME shown \in Seq(FeedIds), NEW page \in Seq(FeedIds),
           \A n \in DOMAIN page : \A m \in DOMAIN shown : shown[m] # page[n]
    PROVE  AppendFeedPage(page) = shown \o page
<1> DEFINE added == {n \in DOMAIN page : ~Contains(shown, page[n])}
<1>1. added = 1 .. Len(page)
  BY DEF Contains
<1>2. ASSUME NEW n \in Nat, n <= Len(page) PROVE Cardinality(added \cap (1 .. n)) = n
  <2>1. added \cap (1 .. n) = 1 .. n
    BY <1>1, <1>2
  <2>2. Cardinality(1 .. n) = n
    BY <1>2, FS_Interval
  <2>3. QED
    BY <2>1, <2>2
<1>3. Cardinality(added) = Len(page)
  <2>1. Len(page) \in Nat
    OBVIOUS
  <2>2. \A n \in Nat : Cardinality(1 .. n) = n
    BY FS_Interval
  <2> HIDE DEF added
  <2>3. QED
    BY <1>1, <2>1, <2>2
<1> HIDE DEF added
<1>4. ASSUME NEW k \in 1 .. Len(page)
      PROVE  (CHOOSE n \in added : Cardinality(added \cap (1 .. n)) = k) = k
  <2>1. \A n \in added : Cardinality(added \cap (1 .. n)) = n
    BY <1>1, <1>2
  <2>2. QED
    BY <1>1, <2>1
<1>5. AppendFeedPage(page) =
        shown \o [k \in 1 .. Cardinality(added) |->
                    page[CHOOSE n \in added : Cardinality(added \cap (1 .. n)) = k]]
  BY DEF AppendFeedPage, added
<1>6. [k \in 1 .. Cardinality(added) |->
         page[CHOOSE n \in added : Cardinality(added \cap (1 .. n)) = k]] = page
  <2>1. page = [k \in 1 .. Len(page) |-> page[k]]
    OBVIOUS
  <2>2. QED
    BY <1>3, <1>4, <2>1
<1>7. QED
  BY <1>5, <1>6

-----------------------------------------------------------------------------
LEMMA FreeType == Free \in LoadTypes /\ Free.step = "free" /\ Free.page = <<>>
<1>1. <<>> \in Seq(FeedIds) /\ 0 \in 0 .. MaxAway
  BY FeedAssumption
<1>2. QED
  BY <1>1 DEF Free, LoadTypes

LEMMA InitFeed == FeedInit => FeedInv
<1> SUFFICES ASSUME FeedInit PROVE FeedInv
  OBVIOUS
<1>1. Existing = {} /\ since = {} /\ shown = <<>> /\ load = Free
  BY DEF FeedInit, Existing
<1>2. FeedTypes
  <2>1. feed \in [FeedIds -> (0 .. MaxTime) \cup {Missing}]
    BY DEF FeedInit
  <2>2. /\ lastFeedId \in 0 .. MaxFeed /\ now \in 0 .. MaxTime /\ visit \in 0 .. MaxAway
        /\ loading = FALSE /\ away = FALSE /\ cursor \in Cursors /\ loaded = {}
    BY FeedAssumption, CursorPairs DEF FeedInit
  <2>3. shown \in Seq(FeedIds)
    BY <1>1
  <2>4. QED
    BY <1>1, <2>1, <2>2, <2>3, FreeType DEF FeedTypes
<1>3. HandedOut /\ ShownInv /\ Skipless
  <2>1. load.page = <<>> /\ DOMAIN shown = {} /\ DOMAIN load.page = {}
    BY <1>1, FreeType
  <2>2. QED
    BY <1>1, <2>1 DEF HandedOut, ShownInv, Skipless, Descending
<1>4. QED
  BY <1>1, <1>2, <1>3, FreeType DEF FeedInv

\* Posts that come get new ids, posts that stay keep their second.
LEMMA TableKept ==
    ASSUME FeedInv, FeedTypes', UNCHANGED <<shown, cursor, load, since>>,
           lastFeedId <= lastFeedId',
           \A id \in FeedIds : feed'[id] # Missing =>
               \/ id <= lastFeedId /\ feed'[id] = feed[id]
               \/ id > lastFeedId /\ id <= lastFeedId'
    PROVE  FeedInv'
<1> USE DEF FeedInv
<1>1. lastFeedId \in Nat /\ lastFeedId' \in Nat
  BY FeedAssumption DEF FeedTypes
<1>2. \A id \in Existing' : /\ id \in FeedIds /\ id \in Nat /\ id <= lastFeedId'
                            /\ id <= lastFeedId => id \in Existing /\ feed'[id] = feed[id]
  BY <1>1 DEF Existing, FeedIds
<1>3. /\ shown \in Seq(FeedIds) /\ load.page \in Seq(FeedIds) /\ since \subseteq FeedIds
  BY DEF FeedTypes, LoadTypes
<1>4. HandedOut'
  <2>1. \A id \in FeedIds : id \in Nat
    BY DEF FeedIds
  <2>2. \A id \in FeedIds : id <= lastFeedId => id <= lastFeedId'
    BY <1>1, <2>1
  <2>3. \A n \in DOMAIN shown : shown[n] \in FeedIds
    BY <1>3
  <2>4. \A n \in DOMAIN load.page : load.page[n] \in FeedIds
    BY <1>3
  <2>5. /\ \A id \in Existing' : id <= lastFeedId'
        /\ \A id \in since : id <= lastFeedId'
    BY <1>2, <1>3, <2>2 DEF HandedOut
  <2>6. /\ \A n \in DOMAIN shown : shown[n] <= lastFeedId'
        /\ \A n \in DOMAIN load.page : load.page[n] <= lastFeedId'
    BY <2>2, <2>3, <2>4 DEF HandedOut
  <2>7. QED
    BY <2>5, <2>6 DEF HandedOut
<1>5. /\ \A n \in DOMAIN shown : shown[n] \in Existing' =>
            shown[n] \in Existing /\ feed'[shown[n]] = feed[shown[n]]
      /\ \A n \in DOMAIN load.page : load.page[n] \in Existing' =>
            load.page[n] \in Existing /\ feed'[load.page[n]] = feed[load.page[n]]
      /\ \A id \in since : id \in Existing' => id \in Existing /\ feed'[id] = feed[id]
  <2>1. \A id \in Existing' : id <= lastFeedId => id \in Existing /\ feed'[id] = feed[id]
    BY <1>2
  <2>2. /\ \A n \in DOMAIN shown : shown[n] <= lastFeedId
        /\ \A n \in DOMAIN load.page : load.page[n] <= lastFeedId
        /\ \A id \in since : id <= lastFeedId
    BY DEF HandedOut
  <2>3. QED
    BY <2>1, <2>2
<1>6. Descending(shown)'
  BY <1>5 DEF Descending, ShownInv, Key
<1>7. ShownInv'
  BY <1>5, <1>6 DEF ShownInv, Key
<1>8. Skipless'
  BY <1>5 DEF Skipless, Key
<1>9. ASSUME load.step = "answered" PROVE PageFits'
  <2>1. PageFits
    BY <1>9
  <2>2. Descending(load.page)'
    BY <1>5, <2>1 DEF PageFits, Descending, Key
  <2>3. QED
    BY <1>5, <2>1, <2>2 DEF PageFits, Key
<1>10. QED
  BY <1>4, <1>7, <1>8, <1>9

\* What writes the posts, and the clock.
LEMMA TableInv ==
    ASSUME FeedInv, Publish \/ Tick \/ \E id \in FeedIds : Unpublish(id)
    PROVE  FeedInv'
<1>1. FeedTypes
  BY DEF FeedInv
<1>2. UNCHANGED <<shown, cursor, loaded, loading, load, visit, away, since>>
  BY DEF Publish, Tick, Unpublish
<1>3. /\ feed' \in [FeedIds -> (0 .. MaxTime) \cup {Missing}]
      /\ lastFeedId' \in 0 .. MaxFeed /\ now' \in 0 .. MaxTime
      /\ lastFeedId <= lastFeedId'
      /\ \A id \in FeedIds : feed'[id] # Missing =>
            \/ id <= lastFeedId /\ feed'[id] = feed[id]
            \/ id > lastFeedId /\ id <= lastFeedId'
  <2>1. \A id \in FeedIds : feed[id] # Missing => id <= lastFeedId
    BY DEF FeedInv, HandedOut, Existing
  <2>2. CASE Publish
    <3>1. lastFeedId' = lastFeedId + 1 /\ lastFeedId' \in FeedIds /\ lastFeedId \in Nat
          /\ feed' = [feed EXCEPT ![lastFeedId'] = now] /\ now' = now
      BY <1>1, <2>2, FeedAssumption DEF Publish, FeedTypes, FeedIds
    <3>2. QED
      BY <1>1, <2>1, <3>1, FeedAssumption DEF FeedTypes, FeedIds
  <2>3. CASE Tick
    BY <1>1, <2>1, <2>3, FeedAssumption DEF Tick, FeedTypes
  <2>4. CASE \E id \in FeedIds : Unpublish(id)
    BY <1>1, <2>1, <2>4, FeedAssumption DEF Unpublish, FeedTypes
  <2>5. QED
    BY <2>2, <2>3, <2>4
<1>4. FeedTypes'
  BY <1>1, <1>2, <1>3 DEF FeedTypes, LoadTypes
<1>5. QED
  BY <1>2, <1>3, <1>4, TableKept

\* The cards stay, and a request is under way, or none.
LEMMA ReaderKept ==
    ASSUME FeedInv, FeedTypes', UNCHANGED <<feed, lastFeedId, shown, cursor, since>>,
           load' = load \/ (load'.step # "answered" /\ load'.page = <<>>)
    PROVE  FeedInv'
<1> USE DEF FeedInv
<1>1. Existing' = Existing
  BY DEF Existing
<1>2. HandedOut'
  <2>1. CASE load' = load
    BY <1>1, <2>1 DEF HandedOut
  <2>2. CASE load'.page = <<>>
    BY <1>1, <2>2 DEF HandedOut
  <2>3. QED
    BY <2>1, <2>2
<1>3. ShownInv'
  BY <1>1 DEF ShownInv, Descending, Key
<1>4. Skipless'
  BY <1>1 DEF Skipless, Key
<1>5. ASSUME load'.step = "answered" PROVE PageFits'
  BY <1>1, <1>5 DEF PageFits, Descending, Key
<1>6. QED
  BY <1>2, <1>3, <1>4, <1>5

LEMMA ReaderInv ==
    ASSUME FeedInv, LoadMore \/ Settle \/ FailLoading \/ Leave \/ Return
    PROVE  FeedInv'
<1>1. FeedTypes
  BY DEF FeedInv
<1>2. UNCHANGED <<feed, lastFeedId, now, shown, cursor, loaded, since>>
  BY DEF LoadMore, Settle, FailLoading, Leave, Return, server
<1>3. CASE LoadMore
  <2> DEFINE sent == [Free EXCEPT !.step = "sent", !.cursor = cursor, !.visit = visit]
             a == [Free EXCEPT !.step = "sent"]
             b == [a EXCEPT !.cursor = cursor]
  <2>1. /\ cursor \notin {NewestFirst, End} /\ load' = sent /\ loading' = TRUE
        /\ visit' = visit /\ away' = away
    BY <1>3 DEF LoadMore
  <2>2. sent = [b EXCEPT !.visit = visit]
    OBVIOUS
  <2> HIDE DEF sent
  <2>3. /\ sent.step = "sent" /\ sent.cursor = cursor /\ sent.page = <<>> /\ sent \in LoadTypes
    <3>1. a \in LoadTypes /\ a.step = "sent" /\ a.page = <<>>
      BY FreeType DEF LoadTypes
    <3> HIDE DEF a
    <3>2. b \in LoadTypes /\ b.step = "sent" /\ b.page = <<>> /\ b.cursor = cursor
      BY <1>1, <3>1 DEF FeedTypes, LoadTypes
    <3> HIDE DEF b
    <3>3. QED
      BY <1>1, <2>2, <3>2 DEF FeedTypes, LoadTypes
  <2>4. FeedTypes'
    BY <1>1, <1>2, <2>1, <2>3 DEF FeedTypes, LoadTypes
  <2>5. QED
    BY <1>2, <2>1, <2>3, <2>4, ReaderKept
<1>4. CASE Settle \/ FailLoading
  <2>1. load' = Free /\ loading' = FALSE /\ visit' = visit /\ away' = away
    BY <1>4 DEF Settle, FailLoading
  <2>2. FeedTypes'
    BY <1>1, <1>2, <2>1, FreeType DEF FeedTypes, LoadTypes
  <2>3. QED
    BY <1>2, <2>1, <2>2, FreeType, ReaderKept
<1>5. CASE Leave \/ Return
  <2>1. load' = load /\ loading' = loading
    BY <1>5 DEF Leave, Return
  <2>2. visit' \in 0 .. MaxAway /\ away' \in BOOLEAN /\ (away' => visit' < MaxAway)
    <3>1. visit \in 0 .. MaxAway /\ (away => visit < MaxAway)
      BY <1>1 DEF FeedTypes
    <3>2. CASE Leave
      BY <3>1, <3>2 DEF Leave
    <3>3. CASE Return
      <4>1. visit' = visit + 1 /\ visit < MaxAway /\ ~away'
        BY <3>1, <3>3, Zenon DEF Return
      <4>2. visit' \in 0 .. MaxAway
        BY <3>1, <4>1, FeedAssumption
      <4>3. away' \in BOOLEAN
        BY <3>3, Zenon DEF Return
      <4>4. QED
        BY <4>1, <4>2, <4>3
    <3>4. QED
      BY <1>5, <3>2, <3>3
  <2>3. FeedTypes'
    BY <1>1, <1>2, <2>1, <2>2 DEF FeedTypes, LoadTypes
  <2>4. QED
    BY <1>2, <2>1, <2>3, ReaderKept
<1>6. QED
  BY <1>3, <1>4, <1>5

\* The first page continues nothing.
LEMMA FirstInv == ASSUME FeedInv, First PROVE FeedInv'
<1> DEFINE f == Feed(NewestFirst)
<1>1. /\ cursor = NewestFirst /\ shown' = f.page /\ cursor' = f.next /\ since' = Existing
      /\ UNCHANGED <<feed, lastFeedId, now, loaded, loading, load, visit, away>>
  BY DEF First, server
<1>2. FeedTypes /\ load.step = "free"
  BY <1>1 DEF FeedInv, FeedTypes, LoadTypes
<1>3. NewestFirst \in Cursors /\ NewestFirst # End
  BY CursorPairs, FeedAssumption DEF NewestFirst, End
<1>4. /\ f.page \in Seq(FeedIds)
      /\ \A n \in DOMAIN f.page :
            f.page[n] \in Existing /\ ~Older(Key(f.page[n]), f.next)
      /\ Descending(f.page)
      /\ f.next \in Cursors \ {NewestFirst}
      /\ \A id \in Existing :
            Older(Key(id), NewestFirst) /\ ~Older(Key(id), f.next) =>
                \E n \in DOMAIN f.page : f.page[n] = id
  BY <1>2, <1>3, FeedPage DEF FeedTypes
<1> HIDE DEF f
<1>5. Existing' = Existing
  BY <1>1 DEF Existing
<1>6. FeedTypes'
  BY <1>1, <1>2, <1>4 DEF FeedTypes, LoadTypes, Existing
<1>7. HandedOut'
  BY <1>1, <1>4, <1>5 DEF FeedInv, HandedOut
<1>8. ShownInv'
  <2>1. Descending(shown)'
    BY <1>1, <1>4, <1>5 DEF Descending, Key
  <2>2. QED
    BY <1>1, <1>4, <1>5, <2>1 DEF ShownInv, Key
<1>9. Skipless'
  <2>1. \A id \in Existing : Older(Key(id), NewestFirst)
    BY <1>2, Keys DEF FeedTypes
  <2>2. QED
    BY <1>1, <1>4, <1>5, <2>1 DEF Skipless, Key
<1>10. QED
  BY <1>1, <1>2, <1>6, <1>7, <1>8, <1>9 DEF FeedInv

\* The server answers from the posts there are now.
LEMMA ServeFeedInv == ASSUME FeedInv, Serve PROVE FeedInv'
<1> DEFINE f == Feed(load.cursor)
           a == [load EXCEPT !.step = "answered"]
           b == [a EXCEPT !.page = f.page]
<1>1. /\ load.step = "sent"
      /\ load' = [load EXCEPT !.step = "answered", !.page = f.page, !.next = f.next]
      /\ UNCHANGED <<feed, lastFeedId, now, shown, cursor, loaded, loading, visit, away, since>>
  BY DEF Serve, server
<1>2. FeedTypes /\ load.cursor = cursor /\ cursor \in Cursors \ {NewestFirst, End}
  BY <1>1 DEF FeedInv, FeedTypes
<1>3. /\ f.page \in Seq(FeedIds)
      /\ \A n \in DOMAIN f.page :
            /\ f.page[n] \in Existing
            /\ Older(Key(f.page[n]), cursor) /\ ~Older(Key(f.page[n]), f.next)
      /\ Descending(f.page)
      /\ f.next \in Cursors \ {NewestFirst} /\ Older(f.next, cursor)
      /\ \A id \in Existing :
            Older(Key(id), cursor) /\ ~Older(Key(id), f.next) =>
                \E n \in DOMAIN f.page : f.page[n] = id
  BY <1>2, FeedPage DEF FeedTypes
<1> HIDE DEF f
<1>4. /\ load' \in LoadTypes /\ load'.step = "answered" /\ load'.page = f.page
      /\ load'.next = f.next /\ load'.cursor = cursor
  <2>1. load' = [b EXCEPT !.next = f.next]
    BY <1>1
  <2>2. a \in LoadTypes /\ a.step = "answered" /\ a.cursor = cursor
    BY <1>2 DEF FeedTypes, LoadTypes
  <2> HIDE DEF a
  <2>3. b \in LoadTypes /\ b.step = "answered" /\ b.cursor = cursor /\ b.page = f.page
    BY <1>3, <2>2 DEF LoadTypes
  <2> HIDE DEF b
  <2>4. QED
    BY <1>3, <2>1, <2>3 DEF LoadTypes
<1>5. Existing' = Existing
  BY <1>1 DEF Existing
<1>6. FeedTypes'
  BY <1>1, <1>2, <1>4 DEF FeedTypes, LoadTypes
<1>7. HandedOut'
  BY <1>1, <1>3, <1>4, <1>5 DEF FeedInv, HandedOut
<1>8. ShownInv' /\ Skipless'
  BY <1>1, <1>5 DEF FeedInv, ShownInv, Skipless, Descending, Key
<1>9. PageFits'
  <2>1. Descending(load.page)'
    BY <1>1, <1>3, <1>4, <1>5 DEF Descending, Key
  <2>2. \A n \in DOMAIN f.page : \A m \in DOMAIN shown : shown[m] # f.page[n]
    BY <1>3 DEF FeedInv, ShownInv
  <2>3. \A id \in since \cap Existing :
           Older(Key(id), cursor) /\ ~Older(Key(id), f.next) =>
               \E n \in DOMAIN f.page : f.page[n] = id
    BY <1>3
  <2>4. QED
    BY <1>1, <1>3, <1>4, <1>5, <2>1, <2>2, <2>3 DEF PageFits, Key
<1>10. QED
  BY <1>6, <1>7, <1>8, <1>9 DEF FeedInv

\* An answer continues the cards.
LEMMA PageBelow ==
    ASSUME FeedTypes, ShownInv, PageFits, load.cursor = cursor
    PROVE  Descending(shown \o load.page)
<1> DEFINE page == load.page
           ids == shown \o page
<1>1. shown \in Seq(FeedIds) /\ page \in Seq(FeedIds) /\ cursor \in Pairs
  BY CursorPairs DEF FeedTypes, LoadTypes
<1>2. /\ DOMAIN ids = 1 .. Len(shown) + Len(page)
      /\ \A n \in DOMAIN ids :
            /\ n \in DOMAIN shown => ids[n] = shown[n]
            /\ n \notin DOMAIN shown =>
                  /\ n > Len(shown) /\ n - Len(shown) \in DOMAIN page
                  /\ ids[n] = page[n - Len(shown)]
  BY <1>1
<1>3. /\ \A n \in DOMAIN shown : shown[n] \in Existing => ~Older(Key(shown[n]), cursor)
      /\ \A n \in DOMAIN page : page[n] \in Existing => Older(Key(page[n]), cursor)
  BY DEF ShownInv, PageFits
<1>4. \A id \in Existing : Key(id) \in Pairs
  BY Keys DEF FeedTypes
<1>5. Descending(shown) /\ Descending(page)
  BY DEF ShownInv, PageFits
<1> HIDE DEF page, ids
<1>6. ASSUME NEW m \in DOMAIN ids, NEW n \in DOMAIN ids, m < n,
             ids[m] \in Existing, ids[n] \in Existing
      PROVE  Older(Key(ids[n]), Key(ids[m]))
  <2>1. CASE n \in DOMAIN shown
    <3>1. m \in DOMAIN shown
      BY <1>1, <1>2, <1>6, <2>1
    <3>2. QED
      BY <1>2, <1>5, <1>6, <2>1, <3>1 DEF Descending
  <2>2. CASE m \in DOMAIN shown /\ n \notin DOMAIN shown
    <3>1. Older(Key(ids[n]), cursor) /\ ~Older(Key(ids[m]), cursor)
      BY <1>2, <1>3, <1>6, <2>2
    <3>2. QED
      BY <1>1, <1>4, <1>6, <3>1, OlderTransitive
  <2>3. CASE m \notin DOMAIN shown /\ n \notin DOMAIN shown
    <3>1. m - Len(shown) < n - Len(shown)
      BY <1>1, <1>2, <1>6
    <3>2. QED
      BY <1>2, <1>5, <1>6, <2>3, <3>1 DEF Descending
  <2>4. QED
    BY <2>1, <2>2, <2>3
<1>7. QED
  BY <1>6 DEF Descending, ids, page

\* The answer of the present visit goes below the cards.
LEMMA ReceiveInv == ASSUME FeedInv, Receive PROVE FeedInv'
<1> DEFINE page == load.page
           next == load.next
<1>1. /\ load.step = "answered" /\ load' = Free /\ loading' = FALSE
      /\ UNCHANGED <<feed, lastFeedId, now, visit, away, since>>
      /\ \/ UNCHANGED <<shown, cursor, loaded>>
         \/ /\ shown' = AppendFeedPage(load.page) /\ cursor' = load.next
            /\ loaded' = loaded \cup {load.cursor}
  BY DEF Receive, server
<1>2. /\ FeedTypes /\ HandedOut /\ ShownInv /\ Skipless /\ PageFits
      /\ load.cursor = cursor
  BY <1>1 DEF FeedInv, FeedTypes
<1>3. CASE UNCHANGED <<shown, cursor, loaded>>
  <2>1. FeedTypes'
    BY <1>1, <1>2, <1>3, FreeType DEF FeedTypes, LoadTypes
  <2>2. QED
    BY <1>1, <1>3, <2>1, FreeType, ReaderKept
<1>4. CASE /\ shown' = AppendFeedPage(load.page) /\ cursor' = load.next
           /\ loaded' = loaded \cup {load.cursor}
  <2>1. /\ shown \in Seq(FeedIds) /\ page \in Seq(FeedIds)
        /\ next \in Cursors \ {NewestFirst} /\ cursor \in Cursors /\ Older(next, cursor)
    BY <1>2 DEF FeedTypes, LoadTypes, PageFits
  <2>2. shown' = shown \o page
    BY <1>2, <1>4, <2>1, Appended DEF PageFits
  <2>3. /\ shown' \in Seq(FeedIds) /\ DOMAIN shown' = 1 .. Len(shown) + Len(page)
        /\ \A n \in DOMAIN shown : n \in DOMAIN shown' /\ shown'[n] = shown[n]
        /\ \A n \in DOMAIN page :
              n + Len(shown) \in DOMAIN shown' /\ shown'[n + Len(shown)] = page[n]
        /\ \A n \in DOMAIN shown' :
              \/ n \in DOMAIN shown /\ shown'[n] = shown[n]
              \/ n - Len(shown) \in DOMAIN page /\ shown'[n] = page[n - Len(shown)]
    BY <2>1, <2>2
  <2> HIDE DEF page, next
  <2>4. Existing' = Existing /\ feed' = feed /\ cursor' = next
    BY <1>1, <1>4 DEF Existing, next
  <2>5. \A id \in Existing : Key(id) \in Pairs
    BY <1>2, Keys DEF FeedTypes
  <2>6. next \in Pairs /\ cursor \in Pairs
    BY <2>1, CursorPairs
  <2>7. FeedTypes'
    BY <1>1, <1>2, <1>4, <2>1, <2>3, FreeType DEF FeedTypes, LoadTypes, next
  <2>8. HandedOut'
    <3>1. \A n \in DOMAIN shown' : shown'[n] <= lastFeedId
      BY <1>2, <2>3 DEF HandedOut, page
    <3>2. DOMAIN Free.page = {}
      BY FreeType
    <3>3. QED
      BY <1>1, <1>2, <2>4, <3>1, <3>2 DEF HandedOut
  <2>9. /\ \A n \in DOMAIN shown : shown[n] \in Existing =>
              ~Older(Key(shown[n]), cursor) /\ ~Older(Key(shown[n]), next)
        /\ \A n \in DOMAIN page : page[n] \in Existing =>
              Older(Key(page[n]), cursor) /\ ~Older(Key(page[n]), next)
    <3>1. \A n \in DOMAIN shown : shown[n] \in Existing => ~Older(Key(shown[n]), cursor)
      BY <1>2 DEF ShownInv
    <3>2. \A n \in DOMAIN page : page[n] \in Existing =>
              Older(Key(page[n]), cursor) /\ ~Older(Key(page[n]), next)
      BY <1>2 DEF PageFits, page, next
    <3>3. \A id \in Existing : ~Older(Key(id), cursor) => ~Older(Key(id), next)
      BY <2>1, <2>5, <2>6, OlderTransitive
    <3>4. QED
      BY <3>1, <3>2, <3>3
  <2>10. Descending(shown \o page)
    BY <1>2, PageBelow DEF page
  <2>11. ShownInv'
    <3>1. Descending(shown)'
      BY <2>2, <2>4, <2>10 DEF Descending, Key
    <3>2. \A n \in DOMAIN shown' : shown'[n] \in Existing => ~Older(Key(shown'[n]), next)
      BY <2>3, <2>9
    <3>3. next # NewestFirst
      BY <2>1
    <3>4. QED
      BY <2>4, <3>1, <3>2, <3>3 DEF ShownInv, Key
  <2>12. Skipless'
    <3>1. ASSUME NEW id \in since \cap Existing, ~Older(Key(id), next)
          PROVE  \E n \in DOMAIN shown' : shown'[n] = id
      <4>1. CASE Older(Key(id), cursor)
        <5>1. PICK n \in DOMAIN page : page[n] = id
          BY <1>2, <3>1, <4>1 DEF PageFits, page, next
        <5>2. QED
          BY <2>3, <5>1
      <4>2. CASE ~Older(Key(id), cursor)
        <5>1. PICK n \in DOMAIN shown : shown[n] = id
          BY <1>2, <3>1, <4>2 DEF Skipless
        <5>2. QED
          BY <2>3, <5>1
      <4>3. QED
        BY <4>1, <4>2
    <3>2. QED
      BY <1>1, <2>4, <3>1 DEF Skipless, Key
  <2>13. QED
    BY <1>1, <2>7, <2>8, <2>11, <2>12, FreeType DEF FeedInv
<1>5. QED
  BY <1>1, <1>3, <1>4

LEMMA NextFeed == FeedInv /\ [FeedNext]_feedVars => FeedInv'
<1> SUFFICES ASSUME FeedInv, [FeedNext]_feedVars PROVE FeedInv'
  OBVIOUS
<1>1. CASE FeedNext
  BY <1>1, TableInv, ReaderInv, FirstInv, ServeFeedInv, ReceiveInv DEF FeedNext
<1>2. CASE UNCHANGED feedVars
  <2>1. FeedTypes'
    BY <1>2 DEF FeedInv, FeedTypes, LoadTypes, feedVars
  <2>2. QED
    BY <1>2, <2>1, ReaderKept DEF feedVars
<1>3. QED
  BY <1>1, <1>2

LEMMA FeedInvariant == FeedSpec => []FeedInv
BY InitFeed, NextFeed, PTL DEF FeedSpec

(***************************************************************************)
(* What a reader has of the feed is a part of it without repetitions, gaps *)
(* or disorder, for feeds, pages and clocks of every size and however      *)
(* often the reader leaves and requests fail (Feed's keyset pagination and *)
(* loadMore).                                                              *)
(***************************************************************************)
THEOREM FeedIsContinued == FeedSpec => []FeedContinues
<1>1. FeedInv => FeedContinues
  <2> SUFFICES ASSUME FeedInv PROVE FeedContinues
    OBVIOUS
  <2>1. FeedTypeOK
    BY DEF FeedInv, FeedTypes, FeedTypeOK, LoadTypes
  <2>2. NothingSkipped
    <3>1. shown \in Seq(FeedIds)
      BY DEF FeedInv, FeedTypes
    <3>2. QED
      BY <3>1 DEF FeedInv, Skipless, NothingSkipped, Contains
  <2>3. PagesContinue
    <3>1. Descending(shown)
      BY DEF FeedInv, ShownInv
    <3>2. ASSUME load.step = "answered"
          PROVE  /\ \A id \in Range(load.page) : ~Contains(shown, id)
                 /\ Descending(shown \o load.page)
      <4>1. FeedTypes /\ ShownInv /\ PageFits /\ load.cursor = cursor
        BY <3>2 DEF FeedInv, FeedTypes
      <4>2. shown \in Seq(FeedIds) /\ load.page \in Seq(FeedIds)
        BY <4>1 DEF FeedTypes, LoadTypes
      <4>3. QED
        BY <4>1, <4>2, PageBelow DEF PageFits, Range, Contains
    <3>3. QED
      BY <3>1, <3>2 DEF PagesContinue, Descending
  <2>4. QED
    BY <2>1, <2>2, <2>3 DEF FeedContinues
<1>2. QED
  BY <1>1, FeedInvariant, PTL
=============================================================================
