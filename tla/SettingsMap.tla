---------------------------- MODULE SettingsMap ----------------------------
(***************************************************************************)
(* What the calls of the switch library promise about the settings of the  *)
(* chip, seen from outside: every setting is a cell of its own.  A call    *)
(* changes the settings it asks for and no other, and when it reports      *)
(* success they read what it asked for; what it reads and writes besides,  *)
(* it gives back as it was.                                                *)
(*                                                                         *)
(* Two processes may call at once, and nothing keeps them apart.  Settings *)
(* that live in one place of the chip (Home) can then disturb each other,  *)
(* so the promise is made to a call that met no other call at the places   *)
(* it works on.                                                            *)
(***************************************************************************)
EXTENDS Integers, Sequences

CONSTANTS
  Setting,    \* everything that can be set
  Home,       \* Home[s]: the places of the chip setting s lives in
  Call,       \* what can be asked: [puts: a sequence of settings and codes, ok]
  Caller,     \* the processes
  Idle        \* what a process that is in no call does

VARIABLES
  val,        \* val[s]: what reading setting s returns, as a set of bits
  doing,      \* doing[c]: the call process c is in, or Idle
  alone       \* alone[c]: no other call met it at the places it works on

vars == <<val, doing, alone>>

-----------------------------------------------------------------------------

Named(k) == {k.puts[i].setting : i \in DOMAIN k.puts}

(* A put that keeps names a setting to give it back. *)
Changed(k) == {k.puts[i].setting : i \in {j \in DOMAIN k.puts : k.puts[j].how # "keep"}}

Places(k) == UNION {Home[s] : s \in Named(k)}

Meet(k, l) == Places(k) \cap Places(l) # {}

(* The last code a call puts into a setting is the one it asks for. *)
Asks(k, i) ==
  /\ k.puts[i].how # "keep"
  /\ \A j \in DOMAIN k.puts : (j > i /\ k.puts[j].how # "keep") => k.puts[j].setting # k.puts[i].setting

-----------------------------------------------------------------------------

Init ==
  /\ val \in [Setting -> SUBSET Nat]
  /\ doing = [c \in Caller |-> Idle]
  /\ alone = [c \in Caller |-> TRUE]

Start(c) ==
  /\ doing[c] = Idle
  /\ doing'[c] \in Call
  /\ doing' = [doing EXCEPT ![c] = doing'[c]]
  /\ LET met == {d \in Caller : doing[d] # Idle /\ Meet(doing'[c], doing[d])}
     IN alone' = [d \in Caller |-> IF d = c THEN met = {} ELSE alone[d] /\ d \notin met]
  /\ UNCHANGED val

Touch(c) ==
  /\ doing[c] # Idle
  /\ \A s \in Setting :
       val'[s] # val[s] =>
         \/ s \in Changed(doing[c])
         \/ ~alone[c] /\ Home[s] \cap Places(doing[c]) # {}
  /\ UNCHANGED <<doing, alone>>

Finish(c) ==
  /\ doing[c] # Idle
  /\ (alone[c] /\ doing[c].ok) =>
       \A i \in DOMAIN doing[c].puts :
         Asks(doing[c], i) => val[doing[c].puts[i].setting] = doing[c].puts[i].code
  /\ doing' = [doing EXCEPT ![c] = Idle]
  /\ UNCHANGED <<val, alone>>

Next == \E c \in Caller : Start(c) \/ Touch(c) \/ Finish(c)

Spec == Init /\ [][Next]_vars
=============================================================================
