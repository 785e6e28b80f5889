---------------------------- MODULE SealedExchange ---------------------------
(***************************************************************************)
(* What the message layer promises, without files, clocks, builds or       *)
(* errors: letters are sealed under a master key and possibly a key pair,  *)
(* and a receiver gets at most one plaintext, of a letter that was already *)
(* sealed under exactly the factors this receiver has shown.               *)
(***************************************************************************)
CONSTANTS Sender, Receiver, Factors, Nothing

VARIABLES
  letters,    (* sender |-> the factors its letter is sealed under, or Nothing *)
  shown,      (* receiver |-> the factors it has shown, or Nothing             *)
  opened      (* receiver |-> whose plaintext it got, or Nothing               *)

exchangeVars == <<letters, shown, opened>>

Init ==
  /\ letters = [s \in Sender |-> Nothing]
  /\ shown = [r \in Receiver |-> Nothing]
  /\ opened = [r \in Receiver |-> Nothing]

Seal(s, f) ==
  /\ letters[s] = Nothing
  /\ letters' = [letters EXCEPT ![s] = f]
  /\ UNCHANGED <<shown, opened>>

Show(r, f) ==
  /\ shown[r] = Nothing
  /\ shown' = [shown EXCEPT ![r] = f]
  /\ UNCHANGED <<letters, opened>>

Open(r, s) ==
  /\ opened[r] = Nothing
  /\ shown[r] # Nothing
  /\ letters[s] = shown[r]
  /\ opened' = [opened EXCEPT ![r] = s]
  /\ UNCHANGED <<letters, shown>>

Next ==
  \/ \E s \in Sender, f \in Factors : Seal(s, f)
  \/ \E r \in Receiver, f \in Factors : Show(r, f)
  \/ \E r \in Receiver, s \in Sender : Open(r, s)

Spec == Init /\ [][Next]_exchangeVars
==============================================================================
