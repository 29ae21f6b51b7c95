------------------------------ MODULE Composer ------------------------------
(***************************************************************************)
(* The administrator's editor and its draft (frontend/app/components/      *)
(* admin/Composer.vue: persist, reset, newPost, publish, the hooks and the *)
(* watcher).  A draft lives in the component and, some 400 ms later, in    *)
(* the browser's storage, from which the next instance recovers it.  The   *)
(* component goes when the administrator logs out or is logged out by a    *)
(* 401, or with the whole page, while a publication may be under way.      *)
(* One browser tab; a draft is known by the number of its last edit.       *)
(***************************************************************************)
EXTENDS Naturals

CONSTANTS
    MaxEdits,      \* bound: edits, over all instances
    MaxInstances,  \* bound: how often the editor is opened
    MaxSends,      \* bound: publications that are sent
    Nothing        \* no draft in the storage, no publication under way

ASSUME ComposerAssumption ==
    /\ MaxEdits \in Nat /\ MaxInstances \in Nat /\ MaxSends \in Nat
    /\ Nothing \notin 0 .. MaxEdits

Instances == 1 .. MaxInstances
Drafts == 0 .. MaxEdits

\* The draft of a new post.
Initial == 0

VARIABLES
    mounted,       \* the component is on the page
    draft,         \* the draft it holds
    valid,         \* the editor could translate its document into blocks
    timer,         \* a persist is due
    saved,         \* the page says that the draft is saved
    storageError,  \* the page says that it could not be
    recovered,     \* the page says that the draft is an older, unpublished one
    result,        \* the draft of the instance was published
    instance,      \* the number of the instance
    storage,       \* localStorage under the draft's key
    full,          \* the browser refuses to store
    sent,          \* the publication of each instance that waits for its answer
    edits, sends,  \* history: how many edits and publications there were
    published,     \* the drafts that the server made posts of
    overlapped     \* history: an instance was opened while an earlier one published

shown == <<draft, valid, recovered, result>>
page == <<mounted, instance, shown, timer, saved, storageError>>
outside == <<full, sent, edits, sends, published, overlapped>>
composerVars == <<page, storage, outside>>

ComposerInit ==
    /\ mounted = FALSE /\ instance = 0
    /\ draft = Initial /\ valid = TRUE /\ recovered = FALSE /\ result = FALSE
    /\ timer = FALSE /\ saved = FALSE /\ storageError = FALSE
    /\ storage = Nothing /\ full = FALSE
    /\ sent = [i \in Instances |-> Nothing]
    /\ edits = 0 /\ sends = 0 /\ published = {} /\ overlapped = FALSE

Busy == sent[instance] # Nothing

-----------------------------------------------------------------------------
\* persist, of the component as it is: nothing to do, stored, or refused.
PersistIf(condition) ==
    IF ~condition THEN UNCHANGED <<storage, saved, storageError>>
    ELSE IF full THEN storageError' = TRUE /\ UNCHANGED <<storage, saved>>
    ELSE storage' = draft /\ saved' = TRUE /\ storageError' = FALSE
\* A published draft is stored again.
PersistAlways == PersistIf(valid)
Persist == PersistIf(valid /\ ~result)

\* onMounted: the draft in the storage is recovered; the watcher sees it.
Open ==
    /\ ~mounted /\ instance < MaxInstances
    /\ mounted' = TRUE /\ instance' = instance + 1
    /\ draft' = IF storage = Nothing THEN Initial ELSE storage
    /\ recovered' = (storage # Nothing) /\ timer' = (storage # Nothing)
    /\ valid' = TRUE /\ result' = FALSE /\ saved' = FALSE /\ storageError' = FALSE
    /\ overlapped' = (overlapped \/ \E i \in Instances : sent[i] # Nothing)
    /\ UNCHANGED <<storage, full, sent, edits, sends, published>>

\* The watcher: the draft is not saved any more, and will be in 400 ms.
Watch == saved' = FALSE /\ timer' = TRUE

\* The draft changes; update makes it valid, a new title does not.
Edit ==
    /\ mounted /\ ~result /\ ~Busy /\ edits < MaxEdits
    /\ edits' = edits + 1 /\ draft' = edits + 1
    /\ valid' \in {valid, TRUE}
    /\ Watch
    /\ UNCHANGED <<mounted, instance, recovered, result, storageError, storage,
                   full, sent, sends, published, overlapped>>

\* The editor holds what cannot be a post; the draft keeps the blocks it had.
Spoil ==
    /\ mounted /\ ~result /\ ~Busy /\ valid
    /\ valid' = FALSE
    /\ UNCHANGED <<mounted, instance, draft, recovered, result, timer, saved, storageError,
                   storage, outside>>

Timeout ==
    /\ mounted /\ timer
    /\ timer' = FALSE /\ Persist
    /\ UNCHANGED <<mounted, instance, shown, outside>>

\* reset: the initial draft is stored, and the watcher sees it afterwards.
Reset ==
    /\ mounted /\ ~result /\ ~Busy
    /\ draft' = Initial /\ valid' = TRUE /\ recovered' = FALSE
    /\ Watch
    /\ \/ full /\ storageError' = TRUE /\ UNCHANGED storage
       \/ ~full /\ storageError' = FALSE /\ storage' = Initial
    /\ UNCHANGED <<mounted, instance, result, outside>>

\* newPost, after a publication.
NewPost ==
    /\ mounted /\ result
    /\ draft' = Initial /\ recovered' = FALSE /\ result' = FALSE
    /\ Watch
    /\ UNCHANGED <<mounted, instance, valid, storageError, storage, outside>>

-----------------------------------------------------------------------------
\* publish, up to the await: the draft is stored first.
Publish ==
    /\ mounted /\ ~result /\ ~Busy /\ valid /\ draft # Initial /\ sends < MaxSends
    /\ sends' = sends + 1
    /\ sent' = [sent EXCEPT ![instance] = [draft |-> draft, answer |-> "none"]]
    /\ timer' = FALSE /\ Persist
    /\ UNCHANGED <<mounted, instance, shown, full, edits, published, overlapped>>

\* The server makes a post of the draft, or refuses it.
Serve(i) ==
    /\ sent[i] # Nothing /\ sent[i].answer = "none"
    /\ \/ /\ sent' = [sent EXCEPT ![i].answer = "saved"]
          /\ published' = published \cup {sent[i].draft}
       \/ sent' = [sent EXCEPT ![i].answer = "refused"] /\ UNCHANGED published
    /\ UNCHANGED <<page, storage, full, edits, sends, overlapped>>

\* publish, after the await: also of an instance that has left the page.
Answered(i) ==
    /\ sent[i] # Nothing /\ sent[i].answer = "saved"
    /\ sent' = [sent EXCEPT ![i] = Nothing]
    /\ storage' = Nothing
    /\ IF mounted /\ instance = i THEN result' = TRUE /\ timer' = FALSE ELSE UNCHANGED <<result, timer>>
    /\ UNCHANGED <<mounted, instance, draft, valid, recovered, saved, storageError,
                   full, edits, sends, published, overlapped>>

\* The server's refusal arrives, or the request or its answer is lost.
Failed(i) ==
    /\ sent[i] # Nothing
    /\ sent' = [sent EXCEPT ![i] = Nothing]
    /\ UNCHANGED <<page, storage, full, edits, sends, published, overlapped>>

\* onBeforeUnmount: the administrator closes the editor or is logged out.
Leave ==
    /\ mounted
    /\ mounted' = FALSE /\ timer' = FALSE /\ Persist
    /\ UNCHANGED <<instance, shown, outside>>

\* The page goes without a word, and with it whoever waits for an answer.
Crash ==
    /\ mounted
    /\ mounted' = FALSE /\ timer' = FALSE
    /\ UNCHANGED <<instance, shown, saved, storageError, storage, full, edits, sends, overlapped>>
    /\ sent' = [i \in Instances |-> Nothing]
    /\ published' \in {published} \cup
         {published \cup {sent[i].draft} : i \in {j \in Instances : sent[j] # Nothing}}

\* The browser's storage fills up or is emptied by other pages.
Fill == full' = ~full /\ UNCHANGED <<page, storage, sent, edits, sends, published, overlapped>>

ComposerNext ==
    \/ Open \/ Edit \/ Spoil \/ Timeout \/ Reset \/ NewPost \/ Publish
    \/ Leave \/ Crash \/ Fill
    \/ \E i \in Instances : Serve(i) \/ Answered(i) \/ Failed(i)

ComposerSpec == ComposerInit /\ [][ComposerNext]_composerVars

-----------------------------------------------------------------------------
ComposerTypeOK ==
    /\ instance \in 0 .. MaxInstances /\ (mounted => instance > 0)
    /\ draft \in Drafts /\ storage \in Drafts \cup {Nothing}
    /\ \A i \in Instances : sent[i] # Nothing => i <= instance /\ sent[i].draft \in Drafts
    /\ published \subseteq Drafts \ {Initial}
    /\ timer => mounted
    /\ result => draft \in published

(***************************************************************************)
(* When the page says that the draft is saved on this device, it is: the   *)
(* draft it holds is the one in the storage.  An instance that was opened  *)
(* while an earlier one still published is excepted: the late answer       *)
(* removes what the later one stored (publish, removeItem).                *)
(***************************************************************************)
SavedIsStored ==
    mounted /\ saved /\ ~result /\ ~overlapped => storage = draft

(***************************************************************************)
(* Nothing is left unsaved for longer than the timer: without one, and     *)
(* without a warning, the draft is in the storage whatever edits, resets   *)
(* and failed publications came before (persist and its callers).          *)
(***************************************************************************)
NothingUnsaved ==
    mounted /\ valid /\ ~result /\ ~timer /\ ~storageError /\ ~overlapped =>
        storage = draft \/ (storage = Nothing /\ draft = Initial)

(***************************************************************************)
(* A draft that the page reported as published is not offered again, not   *)
(* after leaving the page either (publish, persist).                       *)
(***************************************************************************)
PublishedIsGone == result => storage = Nothing

(***************************************************************************)
(* A draft that is said to be saved is stored, no other goes without a     *)
(* timer or a warning, and a published one does not come back.             *)
(***************************************************************************)
DraftsAreKept ==
    /\ ComposerTypeOK
    /\ SavedIsStored
    /\ NothingUnsaved
    /\ PublishedIsGone

(***************************************************************************)
(* What the page says of a recovered draft (frontend/app/utils/i18n.ts):   *)
(* "Changes are not published yet."                                        *)
(***************************************************************************)
RecoveredIsUnpublished ==
    mounted /\ recovered /\ ~result => draft \notin published
=============================================================================
