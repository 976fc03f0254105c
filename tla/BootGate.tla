------------------------------ MODULE BootGate ------------------------------
(***************************************************************************)
(* What the rescue TUI promises about booting an ISO, without rows,        *)
(* overlays or workers: the operator picks one ISO, which stays the one    *)
(* spoken of until it is left; its verdict and its command line only       *)
(* change while it is picked; each question is asked where it applies; and *)
(* what is handed to the kernel is that ISO, past every gate.  The screens *)
(* of RescueTui.tla implement this specification.                          *)
(***************************************************************************)
CONSTANTS ISO, Cmdline, None,
          Verdict,          \* what hashing an ISO can say
          DefaultCmdline,   \* ISO -> the command line of its boot config
          Installer,        \* ISOs that may write to the disks
          Blocked(_, _),    \* this ISO with this verdict never boots
          Doubtful(_, _)    \* neither hash nor signature vouches for it

VARIABLES listed,     \* the ISOs there are to pick from
          verdict,    \* ISO -> its hash verdict
          edited,     \* ISO -> the operator's command line for it, or None
          picked,     \* the ISO being booted, or None
          word,       \* "boot" stands in the answer to the challenge
          agreed,     \* installers were accepted in this session
          request     \* what was last handed to the kernel, or None

vars == <<listed, verdict, edited, picked, word, agreed, request>>

Init ==
  /\ listed \in SUBSET ISO
  /\ verdict \in [ISO -> Verdict]
  /\ edited \in [listed -> Cmdline \cup {None}]
  /\ picked = None /\ word = FALSE /\ agreed = FALSE /\ request = None

Refused == Blocked(picked, verdict[picked])
Challenged == Doubtful(picked, verdict[picked])

(* The installer warning is shown, and accepted. *)
Accepts == picked \in Installer /\ ~ Refused /\ agreed' = TRUE

Pick ==
  /\ picked = None
  /\ picked' \in listed
  /\ UNCHANGED <<listed, verdict, edited, word, agreed, request>>

Judge ==
  /\ picked # None /\ ~ word
  /\ \E v \in Verdict : verdict' = [verdict EXCEPT ![picked] = v]
  /\ UNCHANGED <<listed, edited, picked, word, agreed, request>>

Edit ==
  /\ picked # None /\ ~ word
  /\ \E c \in Cmdline : edited' = [edited EXCEPT ![picked] = c]
  /\ UNCHANGED <<listed, verdict, picked, word, agreed, request>>

Accept ==
  /\ picked # None /\ Accepts
  /\ UNCHANGED <<listed, verdict, edited, picked, word, request>>

Answer ==
  /\ picked # None /\ Challenged /\ ~ Refused
  /\ picked \in Installer => agreed
  /\ word' \in BOOLEAN
  /\ UNCHANGED <<listed, verdict, edited, picked, agreed, request>>

Leave ==
  /\ picked # None
  /\ picked' = None /\ word' = FALSE
  /\ Accepts \/ UNCHANGED agreed
  /\ UNCHANGED <<listed, verdict, edited, request>>

Load ==
  /\ picked # None /\ ~ Refused
  /\ Challenged <=> word
  /\ \/ Accepts
     \/ UNCHANGED agreed /\ (picked \in Installer => agreed)
  /\ request' = [iso |-> picked,
                 cmdline |-> IF edited[picked] # None THEN edited[picked]
                             ELSE DefaultCmdline[picked],
                 verdict |-> verdict[picked], typed |-> word, consented |-> agreed']
  /\ picked' = None /\ word' = FALSE
  /\ UNCHANGED <<listed, verdict, edited>>

(* The error of the last attempt is dismissed. *)
Forget ==
  /\ picked = None /\ request' = None
  /\ UNCHANGED <<listed, verdict, edited, picked, word, agreed>>

Delete ==
  /\ picked = None
  /\ \E i \in listed : listed' = listed \ {i}
  /\ edited' = [i \in listed' |-> edited[i]]
  /\ UNCHANGED <<verdict, picked, word, agreed, request>>

Next ==
  \/ Pick \/ Judge \/ Edit \/ Accept \/ Answer \/ Leave \/ Load \/ Forget \/ Delete

Spec == Init /\ [][Next]_vars
=============================================================================
