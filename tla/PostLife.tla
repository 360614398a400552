------------------------------ MODULE PostLife ------------------------------
(***************************************************************************)
(* What publishing promises: "A recording is one post for its whole life"  *)
(* (recording_service.py, publish), and the crew's work on that post in    *)
(* wp-admin is theirs.                                                     *)
(***************************************************************************)
VARIABLE post   \* the recording's post as a reader of the site knows it:
                \*   none, or one, last written from here or in wp-admin

Init == post \in {"none", "theirs"}

\* Published or updated from here, never over the crew's own changes
Publish == post \in {"none", "ours"} /\ post' = "ours"

\* Edited, or removed, in wp-admin
Edit == post # "none" /\ post' = "theirs"
Remove == post # "none" /\ post' = "none"

Spec == Init /\ [][Publish \/ Edit \/ Remove]_post
=============================================================================
