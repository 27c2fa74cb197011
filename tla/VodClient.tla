----------------------------- MODULE VodClient -----------------------------
(***************************************************************************)
(* The pictures a video-on-demand session draws over the film              *)
(* (sendtoqam.pl).  The main thread answers the keys of the remote         *)
(* control: it draws pictures, asks for some to be cleared later, and      *)
(* remembers which picture it last drew in the first area of the screen.   *)
(* A second thread clears what was asked for once three seconds have       *)
(* passed since the last picture.  The threads share the four variables    *)
(* below; only the list is used under the semaphore, by both.              *)
(*                                                                         *)
(* A handler is the sequence of its accesses to what the threads share;    *)
(* each access is a step of the main thread.  The picture library GET_IMG  *)
(* and the set-top box that draws are outside the repository: a picture is *)
(* taken to have a place of its own, and the box to accept every packet.   *)
(***************************************************************************)
EXTENDS Naturals, Sequences, FiniteSets

CONSTANT MaxList    \* bound: names queued for clearing

ASSUME ListAssumption == MaxList \in Nat \ {0}

Images == {"play", "stop", "left", "right", "bar", "audio", "MuteIcon"}
Keys   == {"PLAY", "PAUSE", "SELECT", "LEFT", "RIGHT", "VOLUME", "MUTE", "BACK",
           "STOP", "KILL", "EXIT_ACK"}
undef  == "undef"

VARIABLES
    clearlist,         \* pictures to clear; del_clear_event leaves "" in a place
    img_clear_expire,  \* undef, "later", or "past" once the three seconds are over
    area1_img_state,   \* what the threads think is drawn in the first area
    sem,               \* who holds sem_img_clear between steps: "none" or "thread"
    vod_pause, wait_ok,
    todo,              \* what is left of the handler that runs
    key,               \* the last key, "die" when the process is gone
    thread,            \* the clearing thread: its place and its next name
    shown              \* the pictures on the screen

shared == <<clearlist, img_clear_expire, area1_img_state, sem>>
vars   == <<shared, vod_pause, wait_ok, todo, key, thread, shown>>

(***************************************************************************)
(* The subroutines of the main thread, as sequences of accesses.           *)
(***************************************************************************)
Op(what, name) == [what |-> what, name |-> name]

add_clear_event(n) == <<Op("add", n)>>
del_clear_event(n) == <<Op("del", n)>>
send_img(n)        == <<Op("draw", n), Op("expire", undef)>>
send_clear_img(n)  == <<Op("wipe", n)>>
set_area1(v)       == <<Op("area1", v)>>

Cleared(n)  == del_clear_event(n) \o send_clear_img(n)
clear_area1 ==
    Cleared("play") \o Cleared("stop") \o Cleared("left") \o Cleared("right") \o set_area1(undef)
clear_area2 == Cleared("bar")

\* Left and right draw their picture unless it is there already.
LeftHandler_DrawsFirst ==
    (IF area1_img_state # "left"
     THEN del_clear_event("left") \o send_img("left") \o set_area1("left") ELSE <<>>)
    \o send_img("bar") \o del_clear_event("bar")
LeftHandler ==
    (IF area1_img_state # "left"
     THEN del_clear_event("left") \o send_img("left") \o set_area1("left") ELSE <<>>)
    \o del_clear_event("bar") \o send_img("bar")
RightHandler ==
    (IF area1_img_state # "right" THEN send_img("right") \o set_area1("right") ELSE <<>>)
    \o send_img("bar")

\* area1_img_state never is "audio", so everything in the first area is
\* cleared at every volume key (line 478), and the state is not "MuteIcon" when
\* lines 485-487 look at it.
VolumeHandler(mute) ==
    clear_area1 \o (IF mute THEN send_img("MuteIcon") \o set_area1("MuteIcon")
                            ELSE send_img("audio") \o add_clear_event("bar"))

Resumes(k) == vod_pause /\ k \in {"PLAY"} \cup (IF wait_ok THEN {} ELSE {"SELECT"})
Pauses(k)  == ~vod_pause /\ k \in {"PAUSE"} \cup (IF wait_ok THEN {} ELSE {"SELECT"})
Chooses(k) == wait_ok /\ k = "SELECT"

\* What a key asks the handler to do, and the flags it leaves.
Handler(k) ==
    CASE Resumes(k)            -> clear_area1 \o send_img("play") \o add_clear_event("play")
      [] Pauses(k)             -> clear_area1 \o send_img("stop")
      [] Chooses(k)            -> send_img("bar") \o add_clear_event("bar") \o add_clear_event("left")
      [] k = "LEFT"            -> LeftHandler
      [] k = "RIGHT"           -> RightHandler
      [] k \in {"VOLUME", "MUTE"} -> VolumeHandler(k = "MUTE")
      [] k = "BACK" /\ wait_ok -> clear_area1 \o clear_area2
      [] k = "STOP"            -> clear_area1 \o clear_area2 \o <<Op("ask", undef)>>
      [] OTHER                 -> <<>>

Flags(k) ==
    /\ vod_pause' = IF Resumes(k) THEN FALSE ELSE vod_pause \/ Pauses(k)
    /\ wait_ok' = (k \in {"LEFT", "RIGHT"} \cup (IF wait_ok THEN Keys \ {"SELECT", "BACK"} ELSE {}))

(***************************************************************************)
(* The main thread.                                                        *)
(***************************************************************************)
Idle  == key # "die" /\ todo = <<>>
Doing(what) == key # "die" /\ todo # <<>> /\ Head(todo).what = what
Done  == todo' = Tail(todo) /\ UNCHANGED <<key, vod_pause, wait_ok>>
name  == Head(todo).name

\* Bound: no key is pressed while another queued name would not fit.
Adds(ops) == Cardinality({i \in DOMAIN ops : ops[i].what = "add"})
Room(ops) == Len(clearlist) + Adds(ops) <= MaxList

\* A line with a key arrived; "KILL" ends the process at once.
Key(k) ==
    /\ Idle /\ k # "KILL" /\ Room(Handler(k))
    /\ key' = k /\ todo' = Handler(k) /\ Flags(k)
    /\ UNCHANGED <<shared, thread, shown>>

\* The film is over, the server closed the session, or the box said to stop.
Exit ==
    /\ Idle
    /\ key' = "die"
    /\ UNCHANGED <<shared, vod_pause, wait_ok, todo, thread, shown>>

\* After STOP the box answers: EXIT_ACK ends the process, any other key is
\* handled as if it had come by itself (but not as a second STOP).
Ask(k) ==
    /\ Doing("ask")
    /\ IF k \in {"EXIT_ACK", "KILL"}
       THEN key' = "die" /\ todo' = <<>> /\ UNCHANGED <<vod_pause, wait_ok>>
       ELSE /\ key' = k
            /\ todo' = IF k = "STOP" THEN <<>> ELSE Handler(k)
            /\ Room(todo')
            /\ Flags(k)
    /\ UNCHANGED <<shared, thread, shown>>

Add ==
    /\ Doing("add") /\ sem = "none"
    /\ clearlist' = Append(clearlist, name)
    /\ Done
    /\ UNCHANGED <<img_clear_expire, area1_img_state, sem, thread, shown>>

Del ==
    /\ Doing("del") /\ sem = "none"
    /\ clearlist' = [j \in DOMAIN clearlist |-> IF clearlist[j] = name THEN "" ELSE clearlist[j]]
    /\ Done
    /\ UNCHANGED <<img_clear_expire, area1_img_state, sem, thread, shown>>

Draw ==
    /\ Doing("draw")
    /\ shown' = shown \cup {name}
    /\ Done
    /\ UNCHANGED <<shared, thread>>

Wipe ==
    /\ Doing("wipe")
    /\ shown' = shown \ {name}
    /\ Done
    /\ UNCHANGED <<shared, thread>>

SetExpire ==
    /\ Doing("expire")
    /\ img_clear_expire' = "later"
    /\ Done
    /\ UNCHANGED <<clearlist, area1_img_state, sem, thread, shown>>

SetArea1 ==
    /\ Doing("area1")
    /\ area1_img_state' = name
    /\ Done
    /\ UNCHANGED <<clearlist, img_clear_expire, sem, thread, shown>>

Main == Add \/ Del \/ Draw \/ Wipe \/ SetExpire \/ SetArea1

(***************************************************************************)
(* thread_clear_img.                                                       *)
(***************************************************************************)
At(pc)  == key # "die" /\ thread.pc = pc
Go(pc, j) == thread' = [pc |-> pc, j |-> j]

\* Once a second the thread looks at the clock.
See ==
    /\ At("sleep") /\ img_clear_expire = "past"
    /\ Go("down", 1)
    /\ UNCHANGED <<shared, shown>>

Down ==
    /\ At("down") /\ sem = "none"
    /\ sem' = "thread"
    /\ Go("state", 1)
    /\ UNCHANGED <<clearlist, img_clear_expire, area1_img_state, shown>>

InArea1 == {"left", "right", "play", "stop"}

\* The next name: the picture is no longer in its area ...
State_KeepsState ==
    /\ At("state") /\ thread.j <= Len(clearlist)
    /\ Go("wipe", thread.j)
    /\ UNCHANGED <<shared, shown>>
State ==
    /\ At("state") /\ thread.j <= Len(clearlist)
    /\ area1_img_state' = IF clearlist[thread.j] \in InArea1 \cup {area1_img_state}
                          THEN "null" ELSE area1_img_state
    /\ Go("wipe", thread.j)
    /\ UNCHANGED <<clearlist, img_clear_expire, sem, shown>>

\* ... and is cleared on the screen.
ThreadWipe ==
    /\ At("wipe")
    /\ shown' = shown \ {clearlist[thread.j]}
    /\ Go("state", thread.j + 1)
    /\ UNCHANGED shared

UndefList_Kept ==
    /\ At("state") /\ thread.j > Len(clearlist)
    /\ Go("expire", 1)
    /\ UNCHANGED <<shared, shown>>
UndefList ==
    /\ At("state") /\ thread.j > Len(clearlist)
    /\ clearlist' = <<>>
    /\ Go("expire", 1)
    /\ UNCHANGED <<img_clear_expire, area1_img_state, sem, shown>>

UndefExpire ==
    /\ At("expire")
    /\ img_clear_expire' = undef
    /\ Go("up", 1)
    /\ UNCHANGED <<clearlist, area1_img_state, sem, shown>>

Up_WhenCleared ==
    /\ At("up")
    /\ sem' = IF shown = {} THEN "none" ELSE sem
    /\ Go("sleep", 1)
    /\ UNCHANGED <<clearlist, img_clear_expire, area1_img_state, shown>>
Up ==
    /\ At("up")
    /\ sem' = "none"
    /\ Go("sleep", 1)
    /\ UNCHANGED <<clearlist, img_clear_expire, area1_img_state, shown>>

Clearer ==
    /\ See \/ Down \/ State \/ ThreadWipe \/ UndefList \/ UndefExpire \/ Up
    /\ UNCHANGED <<vod_pause, wait_ok, todo, key>>

\* Three seconds pass.
Clock ==
    /\ img_clear_expire = "later"
    /\ img_clear_expire' = "past"
    /\ UNCHANGED <<clearlist, area1_img_state, sem, vod_pause, wait_ok, todo, key, thread, shown>>

-----------------------------------------------------------------------------
Init ==
    /\ clearlist = <<>> /\ img_clear_expire = undef /\ area1_img_state = undef
    /\ sem = "none"
    /\ vod_pause = FALSE /\ wait_ok = FALSE
    /\ todo = <<>> /\ key = "none"
    /\ thread = [pc |-> "sleep", j |-> 1]
    /\ shown = {}

Next ==
    \/ \E k \in Keys : Key(k) \/ Ask(k)
    \/ Exit \/ Main \/ Clearer \/ Clock

Spec == Init /\ [][Next]_vars

\* Both threads run, and time passes; keys need not be pressed.  A thread that
\* waits for the semaphore gets it when it is free again and again.
FairSpec ==
    /\ Spec
    /\ WF_vars(Draw \/ Wipe \/ SetExpire \/ SetArea1) /\ SF_vars(Add \/ Del)
    /\ SF_vars(Down /\ UNCHANGED <<vod_pause, wait_ok, todo, key>>) /\ WF_vars(Clearer)
    /\ WF_vars(Clock)

-----------------------------------------------------------------------------
\* The list holds names of pictures, and the semaphore is taken exactly while
\* the thread works on the list.
TypeOK ==
    /\ clearlist \in Seq(Images \cup {""}) /\ Len(clearlist) <= MaxList
    /\ img_clear_expire \in {undef, "later", "past"}
    /\ area1_img_state \in Images \cup {undef, "null"}
    /\ sem \in {"none", "thread"}
    /\ sem = "thread" <=> thread.pc \in {"state", "wipe", "expire", "up"}
    /\ vod_pause \in BOOLEAN /\ wait_ok \in BOOLEAN
    /\ shown \in SUBSET Images

\* Whoever presses left sees the position bar until the next key, although an
\* earlier handler may have queued it for clearing: left takes it off the list
\* before it draws it (lines 439-440).
BarStays == Idle /\ key = "LEFT" => "bar" \in shown

\* Between two keys, a picture that area1_img_state says is there really is
\* there: left and right rely on it when they do not draw theirs (433, 459).
AreaTruth == Idle /\ area1_img_state \in {"left", "right"} => area1_img_state \in shown

\* Every key is handled: no handler waits for the semaphore for ever.
KeysHandled == todo # <<>> ~> todo = <<>> \/ key = "die" \/ Doing("ask")

\* Once the keys stop, names queued while the time is set are taken off the
\* list by a whole round, unless the clearing thread, at the end of the round
\* before, is just about to undefine the time.
QuietInTheEnd == <>[][\A k \in Keys : ~Key(k)]_vars
QueueDrains ==
    QuietInTheEnd =>
        (clearlist # <<>> /\ img_clear_expire # undef /\ thread.pc # "expire"
           ~> clearlist = <<>> \/ key = "die")
=============================================================================
