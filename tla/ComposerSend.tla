------------------------------ MODULE ComposerSend ------------------------------
(***************************************************************************)
(* new_mail_widget's headers, attachments and sending: the header editors, *)
(* the list of attachments, the local images of the page, check_validity,  *)
(* and the store of the message, which runs the event loop while it        *)
(* uploads files, and which may fail and be tried again.                   *)
(***************************************************************************)
EXTENDS Naturals, Sequences, FiniteSets, Functions

CONSTANTS Addresses,     \* well-formed addresses
          Fields,        \* among "To", "Cc", "Bcc", "ReplyTo"
          Files,         \* the files that may be attached
          MaxEditors,    \* bound on the header editors
          MaxTries       \* bound on the attempts to send

VARIABLES editors,       \* m_header_editors: [field, addrs]
          attached,      \* the list view of the attachments
          image,         \* the page's image: "none", "local" or "cid"
          identity,      \* m_from: "mine", one of m_ids, "other", or "unknown"
          msg,           \* m_msg: what make_message and send have put in it
          storing,       \* the calls of mail_msg::store under way
          tries,         \* history: the stores begun
          asked,         \* history: what the window showed when send was called
          sendPhase,     \* "open", "sent", or "freed": a list cleared under its reader
          arrived        \* history: the message stored, if it is

sendVars == <<editors, attached, image, identity, msg, storing, tries, asked,
              sendPhase, arrived>>

BadAddress == "bad"             \* refused by ExtractAddresses, or by basic_syntax_check
NothingAsked == [lines |-> {}, files |-> {}, image |-> "none"]
NoHeaders == [f \in Fields |-> {}]
Image == "image"                \* the attachment made for the local image

TypeOK ==
  /\ editors \in Seq([field : Fields, addrs : SUBSET (Addresses \cup {BadAddress})])
  /\ Len(editors) <= MaxEditors
  /\ attached \subseteq Files /\ image \in {"none", "local", "cid"}
  /\ identity \in {"mine", "other", "unknown"} /\ storing \in 0..2 /\ tries \in 0..MaxTries
  /\ msg \in [headers : [Fields -> SUBSET Addresses], files : SUBSET (Files \cup {Image}),
              refs : BOOLEAN, counts : 0..MaxTries]
  /\ sendPhase \in {"open", "sent", "freed"} /\ Cardinality(arrived) <= 1

(* The constructor: the To and Cc of the message, its attachments, and the  *)
(* identity that load_identities chooses.  default_identity may be one that *)
(* the preferences no longer define.                                        *)
Init ==
  /\ \E to \in SUBSET Addresses :
       /\ editors = <<[field |-> "To", addrs |-> to]>>
       /\ msg = [headers |-> [NoHeaders EXCEPT !["To"] = to], files |-> {}, refs |-> FALSE, counts |-> 0]
  /\ attached = {} /\ image = "none" /\ identity \in {"mine", "unknown"}
  /\ asked = NothingAsked
  /\ storing = 0 /\ tries = 0 /\ sendPhase = "open" /\ arrived = {}

-----------------------------------------------------------------------------
(* Editing, which goes on while the event loop runs in a store.             *)

Editable == sendPhase = "open"

(* header_field_editor::cb_changed: a field, "Add..." or "Remove..."; a new  *)
(* line comes with the To of m_msg, the original or that of the last try.   *)
(* One address is typed in a line; the others have those that came with it. *)
cb_changed(i) ==
  \/ \E f \in Fields : editors' = [editors EXCEPT ![i].field = f]
  \/ editors' = SubSeq(editors, 1, i - 1) \o SubSeq(editors, i + 1, Len(editors))

EditHeaders ==
  /\ Editable
  /\ \/ \E i \in DOMAIN editors :
          \/ cb_changed(i)
          \/ \E a \in Addresses \cup {BadAddress} : editors' = [editors EXCEPT ![i].addrs = {a}]
     \/ /\ Len(editors) < MaxEditors                                  \* add_field_editor
        /\ editors' = Append(editors, [field |-> "To", addrs |-> msg.headers["To"]])
  /\ UNCHANGED <<attached, image, identity, msg, storing, tries, asked, sendPhase,
                 arrived>>

attach_files ==
  /\ Editable
  /\ \E f \in Files : attached' = IF f \in attached THEN attached \ {f} ELSE attached \cup {f}
  /\ UNCHANGED <<editors, image, identity, msg, storing, tries, asked, sendPhase,
                 arrived>>

insert_image ==
  /\ Editable /\ image = "none" /\ image' = "local"
  /\ UNCHANGED <<editors, attached, identity, msg, storing, tries, asked, sendPhase,
                 arrived>>

(* change_identity, and other_identity when its dialog is accepted          *)
other_identity ==
  /\ Editable /\ \E i \in {"mine", "other"} \ {identity} : identity' = i
  /\ UNCHANGED <<editors, attached, image, msg, storing, tries, asked, sendPhase,
                 arrived>>

-----------------------------------------------------------------------------
(* send_now, send_later and send.                                           *)

(* get_field_name and check_addresses: an empty line has no field.          *)
Lines == {editors[i] : i \in {j \in DOMAIN editors : editors[j].addrs # {}}}

(* The addresses of a field, in all its lines.                              *)
(* Mutant: a field that comes again replaces the first. *)
LastLineOnly(lines) ==
  [f \in Fields |-> LET l == {x \in lines : x.field = f}
                    IN IF l = {} THEN {} ELSE (CHOOSE x \in l : TRUE).addrs]
Collected(lines) == [f \in Fields |-> UNION {l.addrs : l \in {x \in lines : x.field = f}}]

(* The question about the missing subject may be answered with Cancel.      *)
check_validity ==
  /\ \A l \in Lines : BadAddress \notin l.addrs
  /\ \E l \in Lines : l.field \in {"To", "Bcc"}

(* The local image becomes an attachment and a reference to its content-id. *)
(* Mutant: the attachments of the page are lost when the list is collected. *)
ListViewOnly == attached
CollectAttachments == attached \cup IF image = "local" THEN {Image} ELSE {}

(* make_message refuses a message without a sender; the references of the   *)
(* page are replaced by then.  Then store begins.  Another store under way  *)
(* iterates on m_msg.attachments(), which send clears.                      *)
send ==
  /\ Editable /\ storing < 2 /\ tries < MaxTries /\ check_validity
  /\ storing = 1 => msg.files # {}                    \* events run while files are uploaded
  /\ image' = IF image = "local" THEN "cid" ELSE image
  /\ IF identity = "unknown"
     THEN /\ msg' = [msg EXCEPT !.files = CollectAttachments, !.refs = image # "none"]
          /\ UNCHANGED <<storing, tries, asked>>
     ELSE /\ msg' = [msg EXCEPT !.headers = Collected(Lines), !.files = CollectAttachments,
                                !.refs = image # "none", !.counts = @ + 1]
          /\ storing' = storing + 1 /\ tries' = tries + 1
          /\ asked' = [lines |-> Lines, files |-> attached, image |-> image]
  /\ sendPhase' = IF storing > 0 THEN "freed" ELSE "open"
  /\ UNCHANGED <<editors, attached, identity, arrived>>

(* mail_msg::store succeeds and the window closes, or it fails and the       *)
(* window stays.  The transitions of the tags' counters that a failed store *)
(* has added to the message are still in it at the next.                    *)
store ==
  /\ storing = 1 /\ storing' = 0 /\ sendPhase = "open"
  /\ \/ sendPhase' = "sent" /\ arrived' = {msg}
          /\ UNCHANGED asked
     \/ asked' = NothingAsked /\ UNCHANGED <<sendPhase, arrived>>
  /\ UNCHANGED <<editors, attached, image, identity, msg, tries>>

Next == EditHeaders \/ attach_files \/ insert_image \/ other_identity \/ send \/ store

Spec == Init /\ [][Next]_sendVars

-----------------------------------------------------------------------------
(* The message that arrives goes to the addresses of every line that the    *)
(* window showed, and it has the files of the list and the image that the   *)
(* page was given since the last attempt.                                   *)
StoredIsWhole ==
  \A m \in arrived :
    /\ \A l \in asked.lines : l.addrs \subseteq m.headers[l.field]
    /\ asked.files \subseteq m.files
    /\ asked.image = "local" => Image \in m.files

(* The same for an image given before: no, once its reference has become a  *)
(* content-id, the attachment is left out by the next attempt.              *)
RetryKeepsImages == \A m \in arrived : m.refs => Image \in m.files

(* The counters of the tags change once for a message: no, twice after a    *)
(* store that failed.                                                       *)
CountedOnce == \A m \in arrived : m.counts = 1

(* Send is not run while a message is stored: it is, by the event loop that *)
(* shows the progress of the upload.                                        *)
SendOnce == sendPhase # "freed"
=============================================================================
