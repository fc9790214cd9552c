----------------------------- MODULE NowPlaying -----------------------------
(***************************************************************************)
(* The now-playing display: the state the RTSP thread publishes            *)
(* (npstate.c), the worker thread that draws it (nprender.c) and the       *)
(* renderer child that paints the screen.  Publishing and waking are       *)
(* separate critical sections, so the worker can run between them.         *)
(* Metadata and cover pictures are model values.                           *)
(***************************************************************************)
EXTENDS Integers

CONSTANTS
  Metas,       \* title, artist and album as one value
  Covers,      \* pictures np-art.jpg may hold
  Blank,       \* empty metadata, no picture
  MAX_OPS      \* bound: publications and teardowns before shutdown

ASSUME NowPlayingAssumption == Blank \notin Metas \cup Covers /\ MAX_OPS \in Nat

VARIABLES
  np,        \* np_state
  artfile,   \* contents of np-art.jpg
  caller,      \* RTSP thread: idle, or the call it makes next
  ops,
  g_dirty, g_running,
  worker,    \* wait, debounce, clear, snap, decide, child, done
  snap,      \* the worker's snapshot
  mode,      \* layout and mode of the render under way
  seen,      \* dedup key: gen, art_serial, playing
  last,      \* last_layout, last_drawn_gen, last_have_art
  screen,    \* what the e-ink shows
  missed     \* the last render did not reach the screen

npVars == <<np, artfile>>
callerVars == <<caller, ops>>
flagVars == <<g_dirty, g_running>>
workVars == <<worker, snap, mode, seen, last>>
outVars == <<screen, missed>>
displayVars == <<npVars, callerVars, flagVars, workVars, outVars>>

NpZero == [gen |-> 0, art_serial |-> 0, meta |-> Blank, have_art |-> FALSE, playing |-> FALSE]
Key(s) == <<s.gen, s.art_serial, s.playing>>

\* nprender_start has created the worker, to paint once without a wake.
DisplayInit ==
  /\ np = NpZero /\ artfile = Blank
  /\ caller = "idle" /\ ops = 0
  /\ g_dirty = TRUE /\ g_running = TRUE
  /\ worker = "wait" /\ snap = NpZero /\ mode = "splash"
  /\ seen = <<-1, 0, FALSE>> /\ last = [layout |-> "none", gen |-> 0, have_art |-> FALSE]
  /\ screen = [layout |-> "other", meta |-> Blank, gen |-> 0, art |-> Blank]
  /\ missed = FALSE

-----------------------------------------------------------------------------
\* The RTSP thread.  Each call below ends with nprender_wake as its own step.

\* np_publish_meta: a repeated value does not count as a new track.
PublishMeta(m) ==
  /\ caller = "idle" /\ ops < MAX_OPS
  /\ np' = IF np.meta = m THEN np ELSE [np EXCEPT !.gen = @ + 1, !.meta = m]
  /\ caller' = "wake" /\ ops' = ops + 1
  /\ UNCHANGED <<artfile, flagVars, workVars, outVars>>

\* finish_body_capture renames the new picture into place; np_publish_art
\* follows as a step of its own.
ReplaceArt(c) ==
  /\ caller = "idle" /\ ops < MAX_OPS
  /\ artfile' = c
  /\ caller' = "art" /\ ops' = ops + 1
  /\ UNCHANGED <<np, flagVars, workVars, outVars>>

\* Faulty variant: the serial number of the picture is not advanced.
PublishArtSilently ==
  /\ caller = "art"
  /\ np' = [np EXCEPT !.have_art = TRUE]
  /\ caller' = "wake"
  /\ UNCHANGED <<artfile, ops, flagVars, workVars, outVars>>

PublishArt ==
  /\ caller = "art"
  /\ np' = [np EXCEPT !.have_art = TRUE, !.art_serial = @ + 1]
  /\ caller' = "wake"
  /\ UNCHANGED <<artfile, ops, flagVars, workVars, outVars>>

\* RECORD has started a session.
StartPlaying ==
  /\ caller = "idle" /\ ops < MAX_OPS /\ ~np.playing
  /\ np' = [np EXCEPT !.playing = TRUE]
  /\ caller' = "wake" /\ ops' = ops + 1
  /\ UNCHANGED <<artfile, flagVars, workVars, outVars>>

\* np_reset wipes what the sender published; the picture file stays on disk.
Reset(s) == [s EXCEPT !.gen = @ + 1, !.meta = Blank, !.have_art = FALSE]

\* teardown_client: np_reset, np_set_playing(0), nprender_wake.
TeardownReset ==
  /\ caller = "idle" /\ ops < MAX_OPS
  /\ np' = Reset(np)
  /\ caller' = "playing0" /\ ops' = ops + 1
  /\ UNCHANGED <<artfile, flagVars, workVars, outVars>>

TeardownPlaying ==
  /\ caller = "playing0"
  /\ np' = [np EXCEPT !.playing = FALSE]
  /\ caller' = "wake"
  /\ UNCHANGED <<artfile, ops, flagVars, workVars, outVars>>

Wake ==
  /\ caller = "wake"
  /\ g_dirty' = TRUE /\ caller' = "idle"
  /\ UNCHANGED <<npVars, ops, g_running, workVars, outVars>>

\* main after run_loop: nprender_stop signals the worker and joins it; only
\* then the client is torn down, and that wake finds no worker.
StopWorker ==
  /\ caller = "idle"
  /\ g_running' = FALSE /\ g_dirty' = TRUE /\ caller' = "join"
  /\ UNCHANGED <<npVars, ops, workVars, outVars>>

Join ==
  /\ caller = "join" /\ worker = "done"
  /\ np' = [Reset(np) EXCEPT !.playing = FALSE]
  /\ caller' = "end"
  /\ UNCHANGED <<artfile, ops, flagVars, workVars, outVars>>

-----------------------------------------------------------------------------
\* worker_main.

WorkerWakes ==
  /\ worker = "wait" /\ (g_dirty \/ ~g_running)
  /\ worker' = IF g_running THEN "debounce" ELSE "done"
  /\ UNCHANGED <<npVars, callerVars, flagVars, snap, mode, seen, last, outVars>>

\* The debounce is over; wakes that fell into it are folded into this draw.
WorkerClears ==
  /\ worker = "debounce"
  /\ g_dirty' = FALSE /\ worker' = "snap"
  /\ UNCHANGED <<npVars, callerVars, g_running, snap, mode, seen, last, outVars>>

\* np_get, and the check that something changed since the last dispatch.
WorkerSnaps ==
  /\ worker = "snap"
  /\ snap' = np
  /\ worker' = IF Key(np) = seen THEN "wait" ELSE "decide"
  /\ UNCHANGED <<npVars, callerVars, flagVars, mode, seen, last, outVars>>

\* Faulty variant: the card is flashed for a new track only.
ModeByTrack(s) ==
  IF ~s.playing THEN "splash" ELSE IF s.gen # last.gen THEN "flash" ELSE "draw"

\* The card's band is flashed when the layout, the track or the art region
\* changes; otherwise it is drawn over.
Mode(s) ==
  IF ~s.playing THEN "splash"
  ELSE IF last.layout # "card" \/ s.gen # last.gen \/ s.have_art # last.have_art
  THEN "flash" ELSE "draw"

\* Writing the state files or posix_spawn fails: the key stays, so that the next
\* wake tries again.
RenderFails ==
  /\ worker = "decide"
  /\ worker' = "wait" /\ missed' = TRUE
  /\ UNCHANGED <<npVars, callerVars, flagVars, snap, mode, seen, last, screen>>

RenderSpawns ==
  /\ worker = "decide"
  /\ mode' = Mode(snap) /\ worker' = "child"
  /\ UNCHANGED <<npVars, callerVars, flagVars, snap, seen, last, outVars>>

\* What a snapshot calls for on the screen, the picture being read from disk.
Wanted(s) ==
  IF s.playing
  THEN [layout |-> "card", meta |-> s.meta, gen |-> s.gen,
        art |-> IF s.have_art THEN artfile ELSE Blank]
  ELSE [layout |-> "splash", meta |-> Blank, gen |-> 0, art |-> Blank]

\* Faulty variant: the wake-up flag is cleared after the draw.
DispatchedClears ==
  /\ worker' = "wait" /\ seen' = Key(snap) /\ g_dirty' = FALSE
  /\ last' = IF snap.playing
             THEN [layout |-> "card", gen |-> snap.gen, have_art |-> snap.have_art]
             ELSE [last EXCEPT !.layout = "splash"]
  /\ UNCHANGED <<npVars, callerVars, g_running, snap, mode>>

\* reap_bounded has returned: the render counts as dispatched, whatever became
\* of the child.
Dispatched ==
  /\ worker' = "wait" /\ seen' = Key(snap)
  /\ last' = IF snap.playing
             THEN [layout |-> "card", gen |-> snap.gen, have_art |-> snap.have_art]
             ELSE [last EXCEPT !.layout = "splash"]
  /\ UNCHANGED <<npVars, callerVars, flagVars, snap, mode>>

ChildDraws ==
  /\ worker = "child"
  /\ screen' = Wanted(snap) /\ missed' = FALSE
  /\ Dispatched

\* The renderer exits with an error, or hangs and is killed.
ChildFails ==
  /\ worker = "child"
  /\ missed' = TRUE /\ UNCHANGED screen
  /\ Dispatched

Ended == caller = "end" /\ UNCHANGED displayVars

MainNext ==
  \/ \E m \in Metas : PublishMeta(m)
  \/ \E c \in Covers : ReplaceArt(c)
  \/ PublishArt \/ StartPlaying \/ TeardownReset \/ TeardownPlaying
  \/ Wake \/ StopWorker \/ Join
WorkerNext ==
  WorkerWakes \/ WorkerClears \/ WorkerSnaps \/ RenderFails \/ RenderSpawns \/ ChildDraws \/ ChildFails
DisplayNext == MainNext \/ WorkerNext \/ Ended
DisplaySpec == DisplayInit /\ [][DisplayNext]_displayVars

\* The worker runs, a child is always reaped (reap_bounded), and a call the
\* RTSP thread has begun is finished; nothing more is ever published of itself.
DisplayFairSpec ==
  /\ DisplaySpec /\ WF_displayVars(WorkerNext)
  /\ WF_displayVars(PublishArt \/ TeardownPlaying \/ Wake \/ Join)

-----------------------------------------------------------------------------
Snapshots == [gen : Nat, art_serial : Nat, meta : Metas \cup {Blank},
              have_art : BOOLEAN, playing : BOOLEAN]

\* The types of the display state.  The worker is gone before shutdown tears the
\* client down, so that no farewell splash is drawn.
DisplayTypeOK ==
  /\ np \in Snapshots /\ snap \in Snapshots /\ artfile \in Covers \cup {Blank}
  /\ caller \in {"idle", "art", "playing0", "wake", "join", "end"} /\ ops \in 0..MAX_OPS
  /\ g_dirty \in BOOLEAN /\ g_running \in BOOLEAN /\ missed \in BOOLEAN
  /\ worker \in {"wait", "debounce", "snap", "decide", "child", "done"}
  /\ mode \in {"splash", "flash", "draw"}
  /\ caller = "end" => worker = "done" /\ ~g_running

\* When nothing is left to do, the screen shows what was published last: no
\* publication is lost between the state's lock and the wake-up flag's, or
\* swallowed by the check for repeated draws.
Settled ==
  worker = "wait" /\ ~g_dirty /\ caller = "idle" /\ ~missed => screen = Wanted(np)

\* A draw without a flash goes over the card of the same track with the same
\* kind of art region (no light draw over the splash), provided the render
\* before it reached the screen; do_render does not know whether it did.
LightDrawSound ==
  worker = "child" /\ mode = "draw" /\ ~missed =>
    /\ screen.layout = "card" /\ screen.gen = snap.gen
    /\ (screen.art # Blank) = snap.have_art

\* What has been published reaches the screen, unless something newer replaces
\* it, its render fails or the daemon shuts down.
Shown ==
  \A m \in Metas : \A c \in Covers :
    (np.playing /\ np.meta = m /\ np.have_art /\ artfile = c /\ g_running)
      ~> \/ screen.meta = m /\ screen.art = c
         \/ np.meta # m \/ artfile # c \/ ~np.playing \/ ~np.have_art \/ ~g_running \/ missed

=============================================================================
