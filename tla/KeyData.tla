------------------------------- MODULE KeyData -------------------------------
(***************************************************************************)
(* The keys that a set is born with (libtv/tvsetting/TvKeyData.cpp): its   *)
(* address, its bar code and the key of HDCP.  Clients save and read them  *)
(* on the key device, which is told the name of a key in one call and its  *)
(* content in another; the HDCP key on a file if there is one.  A thread   *)
(* of its own gives a saved address to the interface, over again as long   *)
(* as another was saved meanwhile.                                         *)
(*                                                                         *)
(* Clients of the service save addresses (saveMacAddress); the rest of the *)
(* interface is called by processCmd, and at the start by OpenTv.  A key   *)
(* of the wrong length is not read, and keys differ in length.  A file is  *)
(* one that can be opened, at an offset that fits; the thread takes less   *)
(* than the minute that it is waited for.                                  *)
(*                                                                         *)
(* Nothing keeps two clients apart: one may name a key before another has  *)
(* written its own, and set an address while another does or the thread    *)
(* ends.  History variables say which keys and addresses that has touched. *)
(* Only to start the thread do clients come one by one: two that did so at *)
(* once would join it twice, and have two threads on one set of flags.     *)
(***************************************************************************)
EXTENDS Naturals

CONSTANTS Addresses,  \* [low, high]: the words of an address
          Codes,      \* bar codes
          HdcpKeys,   \* keys of HDCP
          Threads,    \* binder threads
          Failing,    \* what may fail: "write", "read", and unnoticed: "close", "file"
          MaxCalls,   \* how often clients call
          None

VARIABLES cfg,       \* ssm.macaddr.startwork.en, ssm.handle.hdcpkey.en and .demo.en
          keys,      \* the key device
          selected,  \* the name that it was told
          file,      \* the HDCP key's file
          receiver,  \* the key that the receiver of HDMI has
          op,        \* what each binder thread is at
          address,   \* mMacAddressLow, mMacAddressHigh
          turnOn,    \* mMacAddressStartWorkThreadTurnOnFlag
          worker,    \* the thread: where it is, and its curMacAddrLow and High
          eth,       \* the address of the interface, if it was given one
          kept,      \* the keys that were saved last
          handed,    \* the address that was set last
          strayed,   \* history: the keys whose content, or that of another for them, was
                     \* written when the device had been told another name
          unheard,   \* history: an address was set late, or beside another, and the thread
                     \* not started anew since
          calls
vars == <<cfg, keys, selected, file, receiver, op, address, turnOn, worker, eth, kept, handed,
          strayed, unheard, calls>>

Names == {"mac", "usid", "hdcp14_rx", "hdcp2_rx"}

Idle == [pc |-> "idle", key |-> None, value |-> None]

Born == [key |-> "born"]

\* What has the length of an HDCP key.
IsHdcp(v) == v \in HdcpKeys \cup {Born}

NoThread == [pc |-> "none", low |-> None, high |-> None]

Init ==
    /\ cfg \in [startWork : BOOLEAN, hdcp : BOOLEAN, demo : BOOLEAN]
    /\ keys = [k \in Names |-> IF k = "hdcp14_rx" THEN Born ELSE None]
    /\ selected = None /\ file \in {None, Born} /\ receiver = None
    /\ op = [t \in Threads |-> Idle]
    /\ address = [low |-> None, high |-> None] /\ turnOn = FALSE /\ worker = NoThread
    /\ eth = None /\ kept = <<>> /\ handed = None /\ strayed = {} /\ unheard = FALSE /\ calls = 0

May(failure) == failure \in Failing

\* new, or old if that fails and nobody looks
Taken(new, old, failure) == {new} \cup (IF May(failure) THEN {old} ELSE {})

At(t, pc) == op[t].pc = pc

Go(t, pc) == op' = [op EXCEPT ![t].pc = pc]

Return(t) == op' = [op EXCEPT ![t] = Idle]

\* What has been saved last, with one more.
Kept(k, v) == [x \in DOMAIN kept \cup {k} |-> IF x = k THEN v ELSE kept[x]]

Call(t) == At(t, "idle") /\ calls < MaxCalls /\ calls' = calls + 1

-----------------------------------------------------------------------------
(* The key device. *)

\* WriteKeyData, of an address, a bar code or, without a file, an HDCP key:
\* which is saved under another name than it is read by.
Save(t, k, v) ==
    /\ Call(t)
    /\ selected' = k
    /\ op' = [op EXCEPT ![t] = [pc |-> "write", key |-> k, value |-> v]]
    /\ UNCHANGED <<cfg, keys, file, receiver, address, turnOn, worker, eth, kept, handed, strayed, unheard>>

\* The device takes the content for the key it was told, whoever told it: when
\* it is closed, what fwrite returned was said before.  After an address
\* CreateMacAddressStartWorkThread follows.
Write(t) ==
    /\ At(t, "write")
    /\ \/ /\ keys' \in Taken([keys EXCEPT ![selected] = op[t].value], keys, "close")
          /\ kept' = Kept(op[t].key, op[t].value)
          /\ strayed' = (IF selected = op[t].key THEN strayed \ {selected} ELSE strayed \cup {selected, op[t].key})
          /\ IF op[t].key = "mac" THEN Go(t, "name") ELSE Return(t)
       \/ May("write") /\ Return(t) /\ UNCHANGED <<keys, kept, strayed>>
    /\ UNCHANGED <<cfg, selected, file, receiver, address, turnOn, worker, eth, handed, unheard, calls>>

\* ReadKeyData, for a client that reads the address or the bar code.
Read(t, k) ==
    /\ Call(t)
    /\ selected' = k
    /\ op' = [op EXCEPT ![t] = [pc |-> "answer", key |-> k, value |-> None]]
    /\ UNCHANGED <<cfg, keys, file, receiver, address, turnOn, worker, eth, kept, handed, strayed, unheard>>

Answer(t) ==
    /\ At(t, "answer") /\ Return(t)
    /\ UNCHANGED <<cfg, keys, selected, file, receiver, address, turnOn, worker, eth, kept, handed, strayed, unheard, calls>>

-----------------------------------------------------------------------------
(* HDCP. *)

\* SaveDataToFile does not look at what write returns, ReadDataFromFile not at
\* what read does: then the buffer is what it was.
SaveToFile(t, v) ==
    /\ Call(t) /\ file # None
    /\ file' \in Taken(v, file, "file")
    /\ kept' = Kept("file", v)
    /\ UNCHANGED <<cfg, keys, selected, receiver, op, address, turnOn, worker, eth, handed, strayed, unheard>>

FromFile == Taken(file, "junk", "file")

\* SSMSetHDCPKey, up to the key device.
SetHDCPKey(t) ==
    /\ Call(t) /\ cfg.hdcp
    /\ IF cfg.demo \/ file # None
       THEN /\ receiver' \in (IF cfg.demo THEN {"demo"} ELSE FromFile)
            /\ UNCHANGED <<selected, op>>
       ELSE /\ selected' = "hdcp14_rx"
            /\ Go(t, "hdcp") /\ UNCHANGED receiver
    /\ UNCHANGED <<cfg, keys, file, address, turnOn, worker, eth, kept, handed, strayed, unheard>>

ReadHDCPKey(t) ==
    /\ At(t, "hdcp") /\ Return(t)
    /\ \/ selected = "hdcp14_rx" /\ IsHdcp(keys[selected]) /\ receiver' = keys[selected]
       \/ (May("read") \/ selected # "hdcp14_rx" \/ ~IsHdcp(keys[selected])) /\ UNCHANGED receiver
    /\ UNCHANGED <<cfg, keys, selected, file, address, turnOn, worker, eth, kept, handed, strayed, unheard, calls>>

-----------------------------------------------------------------------------
(* CreateMacAddressStartWorkThread. *)

NameAddress(t) ==
    /\ At(t, "name") /\ Go(t, "read")
    /\ selected' = "mac"
    /\ UNCHANGED <<cfg, keys, file, receiver, address, turnOn, worker, eth, kept, handed, strayed, unheard, calls>>

\* What is read, not what was saved, is set; nobody is told if it is not.
ReadAddress(t) ==
    /\ At(t, "read")
    /\ \/ selected = "mac" /\ keys["mac"] \in Addresses
          /\ op' = [op EXCEPT ![t] = [pc |-> "set", key |-> "mac", value |-> keys["mac"]]]
       \/ (May("read") \/ selected # "mac" \/ keys["mac"] \notin Addresses) /\ Return(t)
    /\ UNCHANGED <<cfg, keys, selected, file, receiver, address, turnOn, worker, eth, kept, handed, strayed, unheard, calls>>

\* mMacAddressStartWorkThreadExecFlag, -1 or 0 otherwise.
Executing == worker.pc \notin {"none", "created", "ended"}

\* The thread does not look at the high word any more, at the low one.
Ended == worker.pc \in {"none", "ending", "ended"}
Ending == Ended \/ worker.pc = "high?"

Starting(t) == op[t].pc \in {"join", "new low", "new high"}

Setting(t) == op[t].pc \in {"low", "high"} \/ Starting(t)

\* A thread that runs is left to find the address, one that does not is joined.
SetAddress(t) ==
    /\ At(t, "set") /\ \A u \in Threads : ~Starting(u)
    /\ IF Executing THEN Go(t, "low") /\ UNCHANGED turnOn
       ELSE IF worker.pc # "none" THEN Go(t, "join") /\ turnOn' = FALSE
       ELSE Go(t, "new low") /\ UNCHANGED turnOn
    /\ UNCHANGED <<cfg, keys, selected, file, receiver, address, worker, eth, kept, handed, strayed, unheard, calls>>

\* KillMacAddressStartWorkThread
Join(t) ==
    /\ At(t, "join") /\ worker.pc = "ended"
    /\ worker' = NoThread /\ Go(t, "new low")
    /\ UNCHANGED <<cfg, keys, selected, file, receiver, address, turnOn, eth, kept, handed, strayed, unheard, calls>>

Beside(t) == \E u \in Threads \ {t} : Setting(u)

SetLow(t) ==
    /\ op[t].pc \in {"low", "new low"}
    /\ address' = [address EXCEPT !.low = op[t].value.low]
    /\ IF At(t, "low")
       THEN unheard' = (unheard \/ Beside(t) \/ Ending) /\ Go(t, "high")
       ELSE unheard' = Beside(t) /\ Go(t, "new high")
    /\ UNCHANGED <<cfg, keys, selected, file, receiver, turnOn, worker, eth, kept, handed, strayed, calls>>

SetHigh(t) ==
    /\ op[t].pc \in {"high", "new high"}
    /\ address' = [address EXCEPT !.high = op[t].value.high]
    /\ handed' = op[t].value
    /\ IF At(t, "high")
       THEN unheard' = (unheard \/ Beside(t) \/ Ended) /\ UNCHANGED <<turnOn, worker>>
       ELSE /\ unheard' = (unheard \/ Beside(t))
            /\ turnOn' = TRUE /\ worker' = [worker EXCEPT !.pc = "created"]
    /\ Return(t)
    /\ UNCHANGED <<cfg, keys, selected, file, receiver, eth, kept, strayed, calls>>

-----------------------------------------------------------------------------
(* SSMMacAddressStartWorkMainApp. *)

Work(from, to) ==
    /\ worker.pc = from /\ worker' = to
    /\ UNCHANGED <<cfg, keys, selected, file, receiver, op, address, turnOn, kept, handed, strayed, unheard, calls>>

Moved(pc) == [worker EXCEPT !.pc = pc]

Start == Work("created", Moved(IF cfg.startWork THEN "low" ELSE "ending")) /\ UNCHANGED eth

GetLow == Work("low", [worker EXCEPT !.pc = "high", !.low = address.low]) /\ UNCHANGED eth

GetHigh == Work("high", [worker EXCEPT !.pc = "on?", !.high = address.high]) /\ UNCHANGED eth

TurnedOn == Work("on?", Moved(IF turnOn THEN "give" ELSE "ending")) /\ UNCHANGED eth

Give == Work("give", Moved("low?")) /\ eth' = [low |-> worker.low, high |-> worker.high]

\* Another address than the one given has the thread go round again.
LowSame == Work("low?", Moved(IF worker.low = address.low THEN "high?" ELSE "low")) /\ UNCHANGED eth

HighSame == Work("high?", Moved(IF worker.high = address.high THEN "ending" ELSE "low")) /\ UNCHANGED eth

End == Work("ending", Moved("ended")) /\ UNCHANGED eth

-----------------------------------------------------------------------------
\* The set is switched off and on, and OpenTv sets the HDCP key.
Restart ==
    /\ op' = [t \in Threads |-> Idle] /\ worker' = NoThread /\ turnOn' = FALSE
    /\ address' = [low |-> None, high |-> None] /\ eth' = None /\ handed' = None
    /\ unheard' = FALSE
    /\ receiver' \in (IF ~cfg.hdcp THEN {None} ELSE IF cfg.demo THEN {"demo"}
                      ELSE IF file # None THEN FromFile
                      ELSE Taken(IF IsHdcp(keys["hdcp14_rx"]) THEN keys["hdcp14_rx"] ELSE None, None, "read"))
    /\ selected' = IF cfg.hdcp /\ ~cfg.demo /\ file = None THEN "hdcp14_rx" ELSE None
    /\ UNCHANGED <<cfg, keys, file, kept, strayed, calls>>

Next ==
    \/ \E t \in Threads :
         \/ \E v \in Addresses : Save(t, "mac", v)
         \/ \E v \in Codes : Save(t, "usid", v)
         \/ \E v \in HdcpKeys : SaveToFile(t, v) \/ (file = None /\ Save(t, "hdcp2_rx", v))
         \/ \E k \in {"mac", "usid"} : Read(t, k)
         \/ Write(t) \/ Answer(t) \/ SetHDCPKey(t) \/ ReadHDCPKey(t)
         \/ NameAddress(t) \/ ReadAddress(t) \/ SetAddress(t) \/ Join(t) \/ SetLow(t) \/ SetHigh(t)
    \/ Start \/ GetLow \/ GetHigh \/ TurnedOn \/ Give \/ LowSame \/ HighSame \/ End
    \/ Restart

Spec == Init /\ [][Next]_vars

-----------------------------------------------------------------------------
Quiet == worker.pc \in {"none", "ended"} /\ \A t \in Threads : At(t, "idle")

\* Every key is the one that was saved last, under its own name, unless another
\* client told the device another name in between; and when the thread has come
\* to its end the interface has the address that was set last, both its words,
\* however often one was saved while the thread was at work, unless two clients
\* set one at once, or the thread had looked for the last time.  That is as long
\* as the device takes what is written.
KeysKept ==
    /\ ~May("close") => \A k \in (DOMAIN kept \cap Names) \ strayed : keys[k] = kept[k]
    /\ "file" \in DOMAIN kept /\ ~May("file") => file = kept["file"]
    /\ Quiet /\ cfg.startWork /\ handed # None /\ ~unheard => eth = handed
=============================================================================
