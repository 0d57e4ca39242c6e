----------------------------- MODULE AtomicFile -----------------------------
(***************************************************************************)
(* What internal/fsx promises about one target path: a file whose content  *)
(* is replaced as a whole, at one instant inside the call, or not at all.  *)
(* A call that returns an error never replaced the content, and neither a  *)
(* killed process nor a power loss leaves anything but a whole content.    *)
(***************************************************************************)
CONSTANTS
    Writers,    \* goroutines or processes that call WriteFileAtomic
    Contents,   \* whole contents of a file
    None        \* content of a path that does not exist

VARIABLES
    content,    \* what a reader of the path sees now
    stable,     \* what the path holds after a power loss
    call        \* call[w]: the state of w's call and the content it writes

avars == <<content, stable, call>>

States == {"idle", "open", "landed", "ok", "error"}
Calls  == [state : States, value : Contents]

AInit == /\ content \in Contents \cup {None}
         /\ stable = content
         /\ call \in [Writers -> Calls]
         /\ \A w \in Writers : call[w].state = "idle"

Move(w, s) == call' = [call EXCEPT ![w].state = s]

Open(w, v) == /\ call[w].state \notin {"open", "landed"}
              /\ call' = [call EXCEPT ![w] = [state |-> "open", value |-> v]]
              /\ UNCHANGED <<content, stable>>

Land(w) == /\ call[w].state = "open"
           /\ content' = call[w].value
           /\ Move(w, "landed")
           /\ UNCHANGED stable

Succeed(w) == /\ call[w].state = "landed"
              /\ Move(w, "ok")
              /\ UNCHANGED <<content, stable>>

Refuse(w) == /\ call[w].state = "open"
             /\ Move(w, "error")
             /\ UNCHANGED <<content, stable>>

Die(w) == /\ Move(w, "idle")
          /\ UNCHANGED <<content, stable>>

Settle == /\ stable' = content
          /\ UNCHANGED <<content, call>>

PowerLoss == /\ content' = stable
             /\ call' = [w \in Writers |-> [call[w] EXCEPT !.state = "idle"]]
             /\ UNCHANGED stable

ANext == \/ \E w \in Writers : \/ \E v \in Contents : Open(w, v)
                               \/ Land(w) \/ Succeed(w) \/ Refuse(w) \/ Die(w)
         \/ Settle
         \/ PowerLoss

ASpec == AInit /\ [][ANext]_avars
=============================================================================
