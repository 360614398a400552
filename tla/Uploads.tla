------------------------------- MODULE Uploads -------------------------------
(***************************************************************************)
(* How one file of a recording gets into the WordPress media library and   *)
(* into its post: wordpress_publisher.py (upload_media, upload_export_file *)
(* and what they call), once per publish.  Files have names of their own   *)
(* ("rec<id>_..."), so they do not meet in the library.                    *)
(*                                                                         *)
(* The library is WordPress's.  It makes an attachment of whatever bytes   *)
(* reached it, gives it another name where the name is taken, and puts a   *)
(* "-scaled" copy in front of a wide photo.                                *)
(***************************************************************************)
EXTENDS Naturals, FiniteSets

CONSTANTS
    Version,        \* contents the file has had: a plot may be drawn again
    Size,           \* their lengths
    NoFile,         \* no file, no attachment
    MaxTries,       \* max_retries
    MaxUploads      \* bound: attachments ever made

ASSUME UploadsAssumption ==
    /\ Size \in [Version -> Nat \ {0}] /\ NoFile \notin Version
    /\ MaxTries \in Nat \ {0} /\ MaxUploads \in Nat

VARIABLES
    wide,       \* a photo wider than 2560 px, never changed
    local,      \* the version on the Pi
    library,    \* attachments: their number, whether they got the name asked
                \*   for, whether a scaled copy is in front, and what is in them
    made,       \* attachments ever made
    step,       \* of the publish: idle, look, send, check, clean, post
    reading,    \* the version being uploaded
    tries,      \* requests made
    hand,       \* the attachment the publish has, NoFile if the upload failed
    shown,      \* the attachment in the post as readers see it
    misled,     \* history: a look could not be made, or a server error hid an
                \*   upload, so that another was made
    unsure      \* history: attachments kept without their size confirmed

fileVars == <<wide, local>>
publishVars == <<step, reading, tries, hand>>
libraryVars == <<library, made>>
pastUploads == <<misled, unsure>>
uploadVars == <<fileVars, libraryVars, publishVars, shown, pastUploads>>

Attachment == [id : Nat, named : BOOLEAN, scaled : BOOLEAN, version : Version, whole : BOOLEAN]

\* What arrived of the file: 0 stands for any other length
Length(a) == IF a.whole THEN Size[a.version] ELSE 0

\* The file's own name, and the name of what source_url points to
UploadedFile(a) == a.named
SourceUrl(a) == a.named /\ ~a.scaled

UploadsInit ==
    /\ wide \in BOOLEAN /\ local \in Version /\ library = {} /\ made = 0
    /\ step = "idle" /\ reading = NoFile /\ tries = 0 /\ hand = NoFile
    /\ shown = NoFile /\ misled = FALSE /\ unsure = {}

\* A publish is at this file
Publish ==
    /\ step = "idle"
    /\ step' = "look" /\ reading' = local /\ hand' = NoFile /\ tries' = 0
    /\ UNCHANGED <<fileVars, libraryVars, shown, pastUploads>>

-----------------------------------------------------------------------------
\* Mutant: only the name has to match
ExistingByName == {a \in library : UploadedFile(a)}

\* Attachments that already hold this exact file: its name and its length
Existing == {a \in library : UploadedFile(a) /\ Length(a) = Size[reading]}

Reuse ==
    /\ step = "look"
    /\ \E a \in Existing : hand' = a
    /\ step' = "post"
    /\ UNCHANGED <<fileVars, reading, tries, libraryVars, shown, pastUploads>>

LookInVain ==
    /\ step = "look" /\ Existing = {} /\ step' = "send"
    /\ UNCHANGED <<fileVars, reading, tries, hand, libraryVars, shown, pastUploads>>

\* No answer to the search: taken for none there
LookFails ==
    /\ step = "look" /\ step' = "send"
    /\ misled' = TRUE
    /\ UNCHANGED <<fileVars, reading, tries, hand, libraryVars, shown, unsure>>

-----------------------------------------------------------------------------
(* The POST of the file                                                    *)

\* The attachment WordPress makes of what it got
Stores(whole, scaled) ==
    /\ made < MaxUploads
    /\ scaled => wide
    /\ whole /\ wide => scaled
    /\ made' = made + 1
    /\ library' = library \cup
          {[id |-> made', named |-> \A a \in library : ~a.named,
            scaled |-> scaled, version |-> reading, whole |-> whole]}

StoresSome == \E whole, scaled \in BOOLEAN : Stores(whole, scaled)
JustStored == CHOOSE a \in library' : a.id = made'

SendAnswered ==
    /\ step = "send" /\ StoresSome
    /\ hand' = JustStored /\ step' = "check"
    /\ UNCHANGED <<fileVars, reading, tries, shown, pastUploads>>

\* Refused for good, over the limit, or not to be read: no attachment
SendRefused ==
    /\ step = "send" /\ step' = "post" /\ hand' = NoFile
    /\ UNCHANGED <<fileVars, reading, tries, libraryVars, shown, pastUploads>>

\* A request that failed some other way is made again, up to MaxTries
Again ==
    IF tries + 1 < MaxTries
    THEN tries' = tries + 1 /\ step' = "send" /\ hand' = hand
    ELSE tries' = 0 /\ step' = "post" /\ hand' = NoFile

SendFails ==
    /\ step = "send" /\ Again
    /\ UNCHANGED <<fileVars, reading, libraryVars, shown, pastUploads>>

\* A server error after the file was stored
SendErrs ==
    /\ step = "send" /\ StoresSome /\ Again
    /\ misled' = TRUE
    /\ UNCHANGED <<fileVars, reading, shown, unsure>>

\* Mutant: a timeout is worth another attempt
SendTimesOutAgain ==
    /\ step = "send" /\ (StoresSome \/ UNCHANGED libraryVars) /\ Again
    /\ UNCHANGED <<fileVars, reading, shown, pastUploads>>

\* Out of time, which is never tried again: any part of it may have arrived
SendTimesOut ==
    /\ step = "send" /\ (StoresSome \/ UNCHANGED libraryVars)
    /\ step' = "clean" /\ hand' = NoFile
    /\ UNCHANGED <<fileVars, reading, tries, shown, pastUploads>>

-----------------------------------------------------------------------------
\* Mutant: the answer is taken at its word
CheckNot ==
    /\ step = "check" /\ step' = "post"
    /\ UNCHANGED <<fileVars, reading, tries, hand, libraryVars, shown, pastUploads>>

\* The stored size is compared; of a scaled photo's original it has to be
\* asked for, and is not known where that fails.  What arrived short goes
Check ==
    /\ step = "check" /\ step' = "post"
    /\ \/ Length(hand) = Size[reading] /\ UNCHANGED <<library, hand, unsure>>
       \/ hand.scaled /\ unsure' = unsure \cup {hand.id} /\ UNCHANGED <<library, hand>>
       \/ /\ Length(hand) # Size[reading]
          /\ library' \in {library, library \ {hand}}     \* the DELETE may fail
          /\ hand' = NoFile /\ UNCHANGED unsure
    /\ UNCHANGED <<fileVars, reading, tries, made, shown, misled>>

\* Truncated attachments found by the name of what source_url points to
Partial == {a \in library : SourceUrl(a) /\ Length(a) # Size[reading]}

Clean ==
    /\ step = "clean" /\ step' = "post"
    /\ \E gone \in SUBSET Partial : library' = library \ gone
    /\ UNCHANGED <<fileVars, reading, tries, made, hand, shown, pastUploads>>

-----------------------------------------------------------------------------
\* The post is made, or made again, of what there is
Post ==
    /\ step = "post" /\ step' = "idle" /\ reading' = NoFile /\ tries' = 0
    /\ shown' = hand /\ hand' = NoFile
    /\ UNCHANGED <<fileVars, libraryVars, pastUploads>>

\* The post could not be sent, or the service died
Gives ==
    /\ step # "idle" /\ step' = "idle" /\ reading' = NoFile /\ tries' = 0 /\ hand' = NoFile
    /\ UNCHANGED <<fileVars, libraryVars, shown, pastUploads>>

\* A reset recording is drawn again
Redraw ==
    /\ step = "idle" /\ ~wide
    /\ local' \in Version \ {local}
    /\ UNCHANGED <<wide, libraryVars, publishVars, shown, pastUploads>>

UploadsNext ==
    \/ Publish \/ Reuse \/ LookInVain \/ LookFails
    \/ SendAnswered \/ SendRefused \/ SendFails \/ SendErrs \/ SendTimesOut
    \/ Check \/ Clean \/ Post \/ Gives \/ Redraw

UploadsSpec == UploadsInit /\ [][UploadsNext]_uploadVars
-----------------------------------------------------------------------------
\* The file a post is made of is the one on the Pi and all of it, unless its
\* size could not be learned (_uploaded_whole: "the file WordPress stored is
\* the file that was sent"): no truncated copy an earlier attempt left, no
\* older drawing of the same name
PostedIsWhole ==
    step = "post" /\ hand # NoFile /\ hand.id \notin unsure
        => hand.whole /\ Size[hand.version] = Size[reading]

\* A file that is in the library whole and under its name is not sent again,
\* whatever times out, dies or fails to post, unless an answer led the service
\* astray ("each retry of an upload too slow to finish leaves behind another
\* truncated copy of the file"; "the library had forty copies of the CSV")
SentOnce ==
    [][made' # made /\ ~misled' =>
        ~\E a \in library : a.whole /\ a.named /\ a.version = reading]_uploadVars

\* A file is posted whole, and sent only while WordPress does not have it so:
\* neither promise is kept at the price of the other (wordpress_publisher.py:215,
\* :276, :361)
WholeAndSentOnce == []PostedIsWhole /\ SentOnce

\* However often it is published, a file that was never drawn again has one
\* whole copy.  It is not so once a truncated copy has kept the name: every
\* publish then makes another
OneCopy ==
    (~misled /\ \A a, b \in library : a.version = b.version)
        => Cardinality({a \in library : a.whole}) <= 1

\* What readers see in the post is in the library.  It is not so once a plot
\* has been drawn again: a timeout of its upload removes the one shown
ShownIsHeld == shown # NoFile => shown \in library
==============================================================================
