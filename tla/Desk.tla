---------------------------------- MODULE Desk ----------------------------------
(***************************************************************************)
(* What the user reads, selects, writes and filters with: the search bar,  *)
(* the selection dialog, the text and the sending of a composer window, the*)
(* tree of the list, the filters' rules and their expressions, the         *)
(* preferences.  These parts share no state: a behaviour is of one of them,*)
(* `part`, and the variables of the others stay 0.                         *)
(***************************************************************************)
EXTENDS Naturals, Sequences

CONSTANTS BarTokens, MaxBarTokens, BarMails,
          StatusBits, SelectFields, SelectTexts, SelectMails,
          Identities, MaxEdits,
          Addresses, Fields, Files, MaxEditors, MaxTries,
          Msgs, ReplyTo,
          RuleNames, Loaded, NewActions, MaxChanges,
          Keyboards, Conditions, Message, MaxTokens,
          Emails, Names, Options, FirstIdentities, FirstConfig, FirstPrograms, Viewers, Named,
          m_default_values, Faults, MaxPrefsEdits, MaxOthers

VARIABLES part,
          typed, parse,
          select_dialog, filter, running,
          format, plain, html, source, covered, external, modified, editable, sender, asking,
          latest, slip, composed,
          editors, attached, image, identity, msg, storing, tries, asked, sendPhase, arrived,
          kids, listed, threaded, ascending, current, gone,
          table, rules, rows, sortedBy, selected, actionRows, window, renumbered, strayed, changes,
          keyboard, text,
          identities, config, programs, seq, mapconf, dialog, meant, base, before, saved, slips,
          edits, others

Bar    == INSTANCE SearchBar WITH Tokens <- BarTokens, MaxTokens <- MaxBarTokens, Mails <- BarMails
Select == INSTANCE SelectionDialog WITH
            dialog <- select_dialog, Fields <- SelectFields, Texts <- SelectTexts, Mails <- SelectMails
Text   == INSTANCE ComposerText
Send   == INSTANCE ComposerSend
Tree   == INSTANCE MailTree
Rules  == INSTANCE FilterRules
Eval   == INSTANCE FilterEval
Prefs  == INSTANCE Preferences WITH MaxEdits <- MaxPrefsEdits

---------------------------------------------------------------------------------
barVars    == <<typed, parse>>
selectVars == <<select_dialog, filter, running>>
textVars   == <<format, plain, html, source, covered, external, modified, editable, sender,
                asking, latest, slip, composed>>
sendVars   == <<editors, attached, image, identity, msg, storing, tries, asked, sendPhase, arrived>>
treeVars   == <<kids, listed, threaded, ascending, current, gone>>
ruleVars   == <<table, rules, rows, sortedBy, selected, actionRows, window, renumbered, strayed,
                changes>>
evalVars   == <<keyboard, text>>
prefsVars  == <<identities, config, programs, seq, mapconf, dialog, meant, base, before, saved,
                slips, edits, others>>

NoBar == typed = 0 /\ parse = 0
NoSelect == select_dialog = 0 /\ filter = 0 /\ running = 0
NoText == /\ format = 0 /\ plain = 0 /\ html = 0 /\ source = 0 /\ covered = 0 /\ external = 0
          /\ modified = 0 /\ editable = 0 /\ sender = 0 /\ asking = 0 /\ latest = 0 /\ slip = 0 /\ composed = 0
NoSend == /\ editors = 0 /\ attached = 0 /\ image = 0 /\ identity = 0 /\ msg = 0 /\ storing = 0
          /\ tries = 0 /\ asked = 0 /\ sendPhase = 0 /\ arrived = 0
NoTree == kids = 0 /\ listed = 0 /\ threaded = 0 /\ ascending = 0 /\ current = 0 /\ gone = 0
NoRules == /\ table = 0 /\ rules = 0 /\ rows = 0 /\ sortedBy = 0 /\ selected = 0 /\ actionRows = 0
           /\ window = 0 /\ renumbered = 0 /\ strayed = 0 /\ changes = 0
NoEval == keyboard = 0 /\ text = 0
NoPrefs == /\ identities = 0 /\ config = 0 /\ programs = 0 /\ seq = 0 /\ mapconf = 0 /\ dialog = 0
           /\ meant = 0 /\ base = 0 /\ before = 0 /\ saved = 0 /\ slips = 0 /\ edits = 0
           /\ others = 0

Parts == {"bar", "select", "text", "send", "tree", "rules", "eval", "preferences"}

Init ==
  /\ part \in Parts
  /\ IF part = "bar" THEN Bar!Init ELSE NoBar
  /\ IF part = "select" THEN Select!Init ELSE NoSelect
  /\ IF part = "text" THEN Text!Init ELSE NoText
  /\ IF part = "send" THEN Send!Init ELSE NoSend
  /\ IF part = "tree" THEN Tree!Init ELSE NoTree
  /\ IF part = "rules" THEN Rules!Init ELSE NoRules
  /\ IF part = "eval" THEN Eval!Init ELSE NoEval
  /\ IF part = "preferences" THEN Prefs!Init ELSE NoPrefs

Next ==
  \/ part = "bar" /\ Bar!Next
     /\ UNCHANGED <<part, selectVars, textVars, sendVars, treeVars, ruleVars, evalVars, prefsVars>>
  \/ part = "select" /\ Select!Next
     /\ UNCHANGED <<part, barVars, textVars, sendVars, treeVars, ruleVars, evalVars, prefsVars>>
  \/ part = "text" /\ Text!Next
     /\ UNCHANGED <<part, barVars, selectVars, sendVars, treeVars, ruleVars, evalVars, prefsVars>>
  \/ part = "send" /\ Send!Next
     /\ UNCHANGED <<part, barVars, selectVars, textVars, treeVars, ruleVars, evalVars, prefsVars>>
  \/ part = "tree" /\ Tree!Next
     /\ UNCHANGED <<part, barVars, selectVars, textVars, sendVars, ruleVars, evalVars, prefsVars>>
  \/ part = "rules" /\ Rules!Next
     /\ UNCHANGED <<part, barVars, selectVars, textVars, sendVars, treeVars, evalVars, prefsVars>>
  \/ part = "eval" /\ Eval!Next
     /\ UNCHANGED <<part, barVars, selectVars, textVars, sendVars, treeVars, ruleVars, prefsVars>>
  \/ part = "preferences" /\ Prefs!Next
     /\ UNCHANGED <<part, barVars, selectVars, textVars, sendVars, treeVars, ruleVars, evalVars>>

vars == <<part, barVars, selectVars, textVars, sendVars, treeVars, ruleVars, evalVars, prefsVars>>
Spec == Init /\ [][Next]_vars

---------------------------------------------------------------------------------
TypeOK ==
  /\ part \in Parts
  /\ part = "bar" => Bar!TypeOK
  /\ part = "select" => Select!TypeOK
  /\ part = "text" => Text!TypeOK
  /\ part = "send" => Send!TypeOK
  /\ part = "tree" => Tree!TypeOK
  /\ part = "rules" => Rules!TypeOK
  /\ part = "eval" => Eval!TypeOK
  /\ part = "preferences" => Prefs!TypeOK

(* The search bar and the selection dialog find what they are asked for.    *)
SelectsAsAsked     == /\ part = "bar"    => Bar!FoundWithinLimits
                      /\ part = "select" => Select!DialogAgrees
(* The text that is sent is the text that the composer shows.               *)
SentAsComposed     == part = "text"   => Text!SentAsComposed
(* A stored message has the recipients, files and image of its window.      *)
StoredIsWhole      == part = "send"   => Send!StoredIsWhole
(* The list is a tree of replies with one row for each message.             *)
TreeOfReplies      == part = "tree"   => Tree!TreeOfReplies
(* The rules and their actions are saved as the window lists them.          *)
RulesSavedAsShown  == part = "rules"  => Rules!RulesSavedAsShown
(* The value of a condition is the one that its grammar gives it.           *)
EvaluatesAsWritten == part = "eval"   => Eval!EvaluatesAsWritten
(* The preferences are saved as the dialog showed them.                     *)
PreferencesSaved   == part = "preferences" => Prefs!PreferencesSaved
=================================================================================
