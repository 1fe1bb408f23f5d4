--------------------------- MODULE Announcements ---------------------------
(***************************************************************************)
(* System announcements (announcement_service.py): administrators upload   *)
(* images, write and delete announcements; users list them and mark them   *)
(* as read.  An image is a file beside the row that refers to it: it is    *)
(* deleted by a request of its own, after the transaction that has removed *)
(* it.  A change of an announcement makes it unread for everybody.         *)
(***************************************************************************)
EXTENDS Naturals, FiniteSets

CONSTANTS
  Posts, Manual,       (* announcements; the default one, in Posts          *)
  Images,              (* uploads, a fresh name each                        *)
  Editors, Readers,
  NoPost,
  FreshForms,          (* TRUE: a form is saved only if its announcement    *)
                       (* has not changed since it was opened               *)
  PromptReads,         (* TRUE: what is marked as read has not changed      *)
                       (* since it was listed                               *)
  MaxEdits             (* bound: saved changes                              *)

PostConstants ==
  /\ Manual \in Posts /\ NoPost \notin Posts
  /\ FreshForms \in BOOLEAN /\ PromptReads \in BOOLEAN
  /\ MaxEdits \in Nat
ASSUME PostAssumption == PostConstants

VARIABLES
  post,    \* rows of lt_system_announcements
  reads,   \* rows of lt_system_announcement_reads
  files,   \* stored images
  fresh,   \* images that are not yet uploaded
  form,    \* of an editor: its announcement and what it will be saved as
  doomed,  \* images that an editor's request has yet to look at
  gone,    \* those it has found without a reference
  view     \* what a reader was shown last

postVars == <<post, reads, files, fresh, form, doomed, gone, view>>

Row == [version : 1..MaxEdits, images : SUBSET Images, published : BOOLEAN]
NoRow == [version |-> 0, images |-> {}, published |-> FALSE]
NoForm == [post |-> NoPost, version |-> 0, images |-> {}]

Exists(x) == post[x].version # 0
Versions == {post[x].version : x \in Posts} \cup {view[u][x] : u \in Readers, x \in Posts}
               \cup {form[e].version : e \in Editors}
(* The next version: the history of a row is the time of its last change.   *)
Newest == CHOOSE n \in Versions : \A k \in Versions : k <= n
Finished(e) == doomed[e] = {} /\ gone[e] = {}

-----------------------------------------------------------------------------
(* A form is opened for a row, or for a new one; images are added to it by  *)
(* save_announcement_image and taken off it.                                *)
Open(e, x) ==
  /\ Finished(e) /\ form[e] = NoForm
  /\ Exists(x) \/ x # Manual
  /\ form' = [form EXCEPT ![e] = [post |-> x, version |-> post[x].version,
                                  images |-> post[x].images]]
  /\ UNCHANGED <<post, reads, files, fresh, doomed, gone, view>>

SaveImage(e) ==
  /\ form[e] # NoForm /\ Finished(e)
  /\ \E i \in fresh :
       /\ fresh' = fresh \ {i}
       /\ files' = files \cup {i}
       /\ form' = [form EXCEPT ![e].images = @ \cup {i}]
  /\ UNCHANGED <<post, reads, doomed, gone, view>>

TakeOff(e, i) ==
  /\ i \in form[e].images /\ Finished(e)
  /\ form' = [form EXCEPT ![e].images = @ \ {i}]
  /\ doomed' = [doomed EXCEPT ![e] = IF i \in post[form[e].post].images THEN {} ELSE {i}]
  /\ UNCHANGED <<post, reads, files, fresh, gone, view>>

CancelForm(e) ==
  /\ form[e] # NoForm /\ Finished(e)
  /\ form' = [form EXCEPT ![e] = NoForm]
  /\ UNCHANGED <<post, reads, files, fresh, doomed, gone, view>>

(* create_announcement and update_announcement: the images that the row no  *)
(* longer names are looked at after the commit.                             *)
ReadsOfOthers(x) == {r \in reads : r[1] # x}
SavePost(e, published) ==
  LET mine == form[e].post IN
  /\ form[e] # NoForm /\ Finished(e)
  /\ Newest < MaxEdits
  /\ Exists(mine) \/ form[e].version = 0    \* "the announcement does not exist"
  /\ FreshForms => form[e].version = post[mine].version
  /\ post' = [post EXCEPT ![mine] = [version |-> Newest + 1, images |-> form[e].images,
                                  published |-> published]]
  /\ reads' = ReadsOfOthers(mine)
  /\ doomed' = [doomed EXCEPT ![e] = post[mine].images \ form[e].images]
  /\ form' = [form EXCEPT ![e] = NoForm]
  /\ UNCHANGED <<files, fresh, gone, view>>

(* delete_announcement: the reads go with the row.                          *)
DeletePost(e, x) ==
  /\ Finished(e) /\ Exists(x)
  /\ post' = [post EXCEPT ![x] = NoRow]
  /\ reads' = {r \in reads : r[1] # x}
  /\ doomed' = [doomed EXCEPT ![e] = post[x].images]
  /\ UNCHANGED <<files, fresh, form, gone, view>>

(* delete_unreferenced_announcement_image: the rows are read, then the file *)
(* is deleted, or stays if that fails.                                      *)
Referenced(i) == \E x \in Posts : i \in post[x].images
Check(e, i) ==
  /\ i \in doomed[e]
  /\ doomed' = [doomed EXCEPT ![e] = @ \ {i}]
  /\ gone' = IF Referenced(i) THEN gone ELSE [gone EXCEPT ![e] = @ \cup {i}]
  /\ UNCHANGED <<post, reads, files, fresh, form, view>>
DeleteImage(e, i) ==
  /\ i \in gone[e]
  /\ gone' = [gone EXCEPT ![e] = @ \ {i}]
  /\ files' \in {files, files \ {i}}
  /\ UNCHANGED <<post, reads, fresh, form, doomed, view>>

(* ensure_default_manual_announcement, on a start of a new version, or of   *)
(* the same after the row was edited: its text is restored, its images stay.*)
EnsureManual ==
  /\ Newest < MaxEdits
  /\ post' = [post EXCEPT ![Manual] = [@ EXCEPT !.version = Newest + 1, !.published = TRUE]]
  /\ reads' = ReadsOfOthers(Manual)
  /\ UNCHANGED <<files, fresh, form, doomed, gone, view>>

-----------------------------------------------------------------------------
(* list_announcements                                                       *)
Show(u) ==
  /\ view' = [view EXCEPT ![u] =
                [x \in Posts |-> IF post[x].published THEN post[x].version ELSE 0]]
  /\ UNCHANGED <<post, reads, files, fresh, form, doomed, gone>>

(* mark_announcements_read: those that are still published                  *)
MarkRead(u) ==
  LET marked == {x \in Posts : view[u][x] # 0 /\ post[x].published} IN
  /\ marked # {}
  /\ PromptReads => \A x \in marked : view[u][x] = post[x].version
  /\ reads' = reads \cup (marked \X {u})
  /\ UNCHANGED <<post, files, fresh, form, doomed, gone, view>>

PostInit ==
  /\ post = [x \in Posts |-> NoRow]
  /\ reads = {}
  /\ files = {} /\ fresh = Images
  /\ form = [e \in Editors |-> NoForm]
  /\ doomed = [e \in Editors |-> {}] /\ gone = [e \in Editors |-> {}]
  /\ view = [u \in Readers |-> [x \in Posts |-> 0]]

PostNext ==
  \/ EnsureManual
  \/ \E u \in Readers : Show(u) \/ MarkRead(u)
  \/ \E e \in Editors :
       \/ SaveImage(e) \/ CancelForm(e)
       \/ \E published \in BOOLEAN : SavePost(e, published)
       \/ \E x \in Posts : Open(e, x) \/ DeletePost(e, x)
       \/ \E i \in Images : TakeOff(e, i) \/ Check(e, i) \/ DeleteImage(e, i)
PostSpec == PostInit /\ [][PostNext]_postVars

-----------------------------------------------------------------------------
PostTypeOK ==
  /\ post \in [Posts -> Row \cup {NoRow}]
  /\ reads \subseteq Posts \X Readers
  /\ files \cap fresh = {} /\ files \cup fresh \subseteq Images
  /\ \A e \in Editors : form[e].images \cup doomed[e] \cup gone[e] \subseteq Images
  /\ view \in [Readers -> [Posts -> 0..MaxEdits]]

(* delete_unreferenced_announcement_image: the images of an announcement    *)
(* are there, over drafts given up, edits of two administrators and the     *)
(* deletions that follow them.                                              *)
ImagesThere == \A x \in Posts : post[x].images \subseteq files

(* update_announcement: what a user has marked as read is what he was shown:*)
(* every change makes it unread again.                                      *)
ReadMeansShown == \A r \in reads : Exists(r[1]) /\ view[r[2]][r[1]] = post[r[1]].version
=============================================================================
