------------------------------ MODULE VideoPath ------------------------------
(***************************************************************************)
(* The paths of video frames through the kernel's modules, as CTvin.cpp    *)
(* builds them: tvpath from the input and default from the decoder, both   *)
(* when the set opens, default again when DTV starts and it is not whole.  *)
(*                                                                         *)
(* Other processes share the kernel: they play on a path, hold the         *)
(* resource of the default path, and rebuild it for themselves.            *)
(***************************************************************************)
EXTENDS Integers, Sequences, SequencesExt

CONSTANTS Foreign,   \* default paths of other processes; <<>> is no path
          MaxStarts, \* how often DTV starts
          MaxOthers  \* how often another process does something

VARIABLES conf,    \* what the board has: see Confs
          paths,   \* the modules of each path; <<>> is no path
          active,  \* the paths that somebody plays on
          held,    \* another process holds RESMAN_ID_VFM_DEFAULT
          todo,    \* what the thread that opens or starts has to do yet
          refused, \* whether a step of the last job failed
          whole,   \* whether the last job, undisturbed since, was to make the default path
          starts,
          others
vars == <<conf, paths, active, held, todo, refused, whole, starts, others>>

Names == {"tvpath", "default", "dvhdmiin"}

\* amlvideo2: its device is there; resman: mSupportResman; vdetect, tunnel,
\* backend: tv_add_vdetect, vendor.tv.fixed_tunnel, vendor.di_backend.enable.
Confs == SUBSET {"amlvideo2", "resman", "vdetect", "tunnel", "backend"}

If(p, s) == IF p THEN s ELSE <<>>

Source(name) == IF name = "tvpath" THEN "vdin0" ELSE "decoder"

\* Faulty variant: the deinterlacer is added where the backend does its work.
Built_Twice(name) ==
    <<Source(name)>> \o If("amlvideo2" \in conf, <<"amlvideo2.0">>) \o If("vdetect" \in conf, <<"vdetect.0">>)
      \o (IF "tunnel" \in conf /\ name = "tvpath"
          THEN <<"deinterlace", "videoqueue.0">>
          ELSE <<"ppmgr", "deinterlace", "amvideo">>)

\* VDIN_AddVideoPath: the modules in the order in which it writes them.
Built(name) ==
    <<Source(name)>> \o If("amlvideo2" \in conf, <<"amlvideo2.0">>) \o If("vdetect" \in conf, <<"vdetect.0">>)
      \o (IF "tunnel" \in conf /\ name = "tvpath"
          THEN If("backend" \notin conf, <<"deinterlace">>) \o <<"videoqueue.0">>
          ELSE <<"ppmgr">> \o If("backend" \notin conf, <<"deinterlace">>) \o <<"amvideo">>)

\* Faulty variant: a path is whole once it has both ends.
Complete_Ends == {"decoder", IF "amlvideo2" \in conf THEN "amlvideo2.0" ELSE "amvideo"} \subseteq ToSet(paths["default"])

\* Tvin_CheckVideoPathComplete of the default path.
Complete ==
    {"decoder", "deinterlace", "ppmgr", IF "amlvideo2" \in conf THEN "amlvideo2.0" ELSE "amvideo"}
      \subseteq ToSet(paths["default"])

Init ==
    /\ conf \in Confs
    /\ \E default \in Foreign : paths = [n \in Names |-> IF n = "default" THEN default ELSE <<>>]
    /\ active = {} /\ held = FALSE
    /\ todo = <<<<"rm", "tvpath">>, <<"add", "tvpath">>, <<"rm", "default">>, <<"add", "default">>>>
    /\ refused = FALSE /\ whole = TRUE /\ starts = 0 /\ others = 0

\* SetSourceSwitchInput, for DTV.
StartDtv ==
    /\ todo = <<>> /\ starts < MaxStarts /\ starts' = starts + 1
    /\ todo' = (IF Complete THEN <<>> ELSE <<<<"rm", "default">>, <<"add", "default">>>>)
    /\ refused' = FALSE /\ whole' = TRUE
    /\ UNCHANGED <<conf, paths, active, held, others>>

Refusable(name) == name = "default" /\ "resman" \in conf

\* Tvin_CheckPathActive: a path that does not end on amvideo is not looked at.
Busy == \E n \in active : "amvideo" \in ToSet(paths[n])

\* Tvin_RemovePath: it waits for the paths, then tries fifty times.
RemovePath(name) ==
    /\ todo # <<>> /\ todo[1] = <<"rm", name>>
    /\ \/ /\ ~Busy /\ ~(Refusable(name) /\ held)
          /\ paths' = [paths EXCEPT ![name] = <<>>]
          /\ active' = active \ {name}
          /\ todo' = Tail(todo) /\ UNCHANGED refused
       \/ /\ Busy \/ (Refusable(name) /\ held)
          /\ todo' = SubSeq(todo, 3, Len(todo)) /\ refused' = TRUE
          /\ UNCHANGED <<paths, active>>
    /\ UNCHANGED <<conf, held, whole, starts, others>>

AddPath(name) ==
    /\ todo # <<>> /\ todo[1] = <<"add", name>> /\ todo' = Tail(todo)
    /\ IF Refusable(name) /\ held
       THEN refused' = TRUE /\ UNCHANGED paths
       ELSE /\ paths' = [n \in Names |->
                           IF n = name THEN Built(name)
                           ELSE IF n = "dvhdmiin" /\ name = "tvpath" /\ "tunnel" \in conf
                                THEN <<"dv_vdin", "videoqueue.0">> ELSE paths[n]]
            /\ UNCHANGED refused
    /\ UNCHANGED <<conf, active, held, whole, starts, others>>

\* Other processes (external).
Other == others < MaxOthers /\ others' = others + 1

Play(name) ==
    /\ Other /\ paths[name] # <<>>
    /\ active' = (IF name \in active THEN active \ {name} ELSE active \cup {name})
    /\ UNCHANGED <<conf, paths, held, todo, refused, whole, starts>>

Hold ==
    /\ Other /\ "resman" \in conf /\ held' = ~held
    /\ UNCHANGED <<conf, paths, active, todo, refused, whole, starts>>

\* Who has the resource rebuilds the path.
Rebuild(path) ==
    /\ Other /\ "default" \notin active /\ ("resman" \in conf => held)
    /\ paths' = [paths EXCEPT !["default"] = path] /\ whole' = FALSE
    /\ UNCHANGED <<conf, active, held, todo, refused, starts>>

Next ==
    \/ StartDtv
    \/ \E name \in {"tvpath", "default"} : RemovePath(name) \/ AddPath(name) \/ Play(name)
    \/ Hold
    \/ \E path \in Foreign : Rebuild(path)

Spec == Init /\ [][Next]_vars

-----------------------------------------------------------------------------
Stages == <<{"vdin0", "decoder"}, {"amlvideo2.0"}, {"vdetect.0"}, {"ppmgr"}, {"deinterlace"},
            {"amvideo", "videoqueue.0"}>>
Stage(module) == CHOOSE n \in DOMAIN Stages : module \in Stages[n]

\* Frames come through: from a source, each stage once and in order, with one
\* deinterlacer somewhere, to a sink.
Through(path) ==
    /\ path # <<>> /\ Stage(path[1]) = 1 /\ Stage(path[Len(path)]) = 6
    /\ \A n \in 1..Len(path) - 1 : Stage(path[n]) < Stage(path[n + 1])
    /\ ("deinterlace" \in ToSet(path)) # ("backend" \in conf)

\* A job that was not refused anything leaves paths that frames come through,
\* whatever other processes had made of the default path before, and what they
\* play on the other paths meanwhile; and what a refused one broke is made whole
\* by the next.  (Where the deinterlacer is the backend's, a path with one of
\* another process would be taken for whole: Foreign has it only in part.)
FramesComeThrough ==
    todo = <<>> /\ ~refused =>
      /\ whole => Through(paths["default"])
      /\ starts = 0 => Through(paths["tvpath"])
      /\ paths["tvpath"] # <<>> => Through(paths["tvpath"])
=============================================================================
