----------------------------- MODULE LogFollower -----------------------------
(***************************************************************************)
(* What a page that follows the log of a subject promises, however the     *)
(* entries reach it: it shows entries of that log only, and while it stays *)
(* with its subject it never takes back one it has shown.                  *)
(***************************************************************************)
CONSTANTS Subjects, NoSubject

VARIABLES
  entries,  \* the log of each subject, as a set
  subject,  \* what the page is about, NoSubject when it is closed
  shown     \* the entries it shows

Entries(s) == IF s = NoSubject THEN {} ELSE entries[s]

Init == subject = NoSubject /\ shown = {}

(* A log only grows.                                                       *)
Grow ==
  /\ DOMAIN entries' = Subjects
  /\ \A s \in Subjects : entries[s] \subseteq entries'[s]
  /\ subject' = subject /\ shown' = shown

Learn ==
  /\ shown \subseteq shown'
  /\ shown' \subseteq Entries(subject)
  /\ subject' = subject /\ entries' = entries

(* Another subject, the same one afresh, or none.                          *)
Turn ==
  /\ subject' # subject
  /\ subject' \in Subjects \cup {NoSubject}
  /\ entries' = entries
  /\ shown' \subseteq Entries(subject')

Next == Grow \/ Learn \/ Turn

vars == <<entries, subject, shown>>

Spec == Init /\ [][Next]_vars
=============================================================================
