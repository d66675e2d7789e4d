-------------------------------- MODULE Virgl --------------------------------
(***************************************************************************)
(* The 3D self-test of kernel/rust/virgl.rs (run_selftest): a fixed list   *)
(* of commands to the virtio GPU, each of which can be refused, answered   *)
(* too late or, for a command stream, answered OK and dropped, followed by *)
(* a teardown that undoes what the Scene record says was done.             *)
(*                                                                         *)
(* The host is the one the file's own tests describe (MockGpu): resources, *)
(* one context, its objects and its bound state.  A picture is the colour  *)
(* at Points, the places the checks sample, in twentieths of the           *)
(* normalised device coordinates with row 0 on top.                        *)
(***************************************************************************)
EXTENDS Integers, Sequences, SequencesExt, FiniteSets
CONSTANTS
  CapsetLists,   \* the capset lists a host may offer
  GpuFaults      \* bound: refusals and drops in one self-test, if nothing times out;
                 \*        a timeout comes alone
VARIABLES
  mode,     \* "steps" (run_steps), "teardown", "done"
  pc,       \* the next entry of Steps or of Undo
  sc,       \* the Scene: ctx, scanout_on_rt, created and in_ctx slots
  mem,      \* mem[s]: backing store of slot s: "none", "zero", "written"
  img,      \* what the render target's backing store holds
  caps,     \* index: the capset asked for next; found: VIRGL was offered
  failed,   \* Outcome.failed_step
  ok,       \* teardown's ok
  host,     \* the device: see HostInit
  req,      \* the request buffer the device reads
  owed,     \* requests put in the ring that the device has not taken yet
  used,     \* completions the driver has not consumed
  faults, late, dropped   \* faults so far; some answer timed out; some stream was dropped
virglVars == <<mode, pc, sc, mem, img, caps, failed, ok, host, req, owed, used, faults, late, dropped>>

SLOTS == <<"RT", "VB", "VB2", "DEPTH", "TEX", "QVB", "IB">>
Slots == Range(SLOTS)

(* ---- geometry and pictures -------------------------------------------- *)
Mirror(p) == <<p[1], -p[2]>>
Sampled == {<<0, -6>>, <<-18, 18>>, <<-10, -8>>, <<12, -12>>, <<-8, 8>>, <<8, 8>>, <<-8, -8>>, <<8, -8>>,
            <<0, -19>>, <<-12, -14>>, <<12, -14>>, <<0, 13>>}
Points == Sampled \cup {Mirror(p) : p \in Sampled}

\* The three triangles and the quad's two halves: corners, depth, colours of the corners.
Triangle == <<<<-16, -16>>, <<16, -16>>, <<0, 16>>>>
write_vertices == <<[at |-> Triangle, z |-> 0, colour |-> <<"red", "green", "blue">>]>>
write_depth_vertices ==
  <<[at |-> <<<<-16, -12>>, <<8, -12>>, <<-4, 16>>>>, z |-> -10, colour |-> <<"red", "red", "red">>],
    [at |-> <<<<-8, -16>>, <<16, -16>>, <<4, 12>>>>, z |-> 10, colour |-> <<"green", "green", "green">>]>>
write_quad ==
  <<[at |-> <<<<-16, -16>>, <<16, -16>>, <<16, 16>>>>, z |-> 0, colour |-> <<"red", "red", "red">>],
    [at |-> <<<<-16, -16>>, <<16, 16>>, <<-16, 16>>>>, z |-> 0, colour |-> <<"red", "red", "red">>]>>
Geometry == [VB |-> write_vertices, VB2 |-> write_depth_vertices, QVB |-> write_quad]

Edge(a, b, p) == (b[1] - a[1]) * (p[2] - a[2]) - (b[2] - a[2]) * (p[1] - a[1])
\* The weight of each corner of t at p: all are non-negative inside.
Weights(t, p) == <<Edge(t[2], t[3], p), Edge(t[3], t[1], p), Edge(t[1], t[2], p)>>
Covers(t, p) == \A i \in 1..3 : Weights(t, p)[i] >= 0
VertexColour(v, p) ==
  LET w == Weights(v.at, p)
      top == {i \in 1..3 : \A j \in 1..3 \ {i} : w[i] > w[j]}
  IN IF v.colour[1] = v.colour[2] THEN v.colour[1]
     ELSE IF top = {} THEN "mixed" ELSE v.colour[CHOOSE i \in top : TRUE]
write_texture(p) ==
  IF p[1] < 0 THEN IF p[2] > 0 THEN "red" ELSE "blue" ELSE IF p[2] > 0 THEN "green" ELSE "white"

\* The channel that outweighs the other two: the clear colour is a blue.
Dominant(c) == CASE c \in {"clear", "half", "blue"} -> "blue" [] c \in {"red", "green"} -> c [] OTHER -> "none"

Flat(c) == [p \in Points |-> c]

\* The check without the background.
check_triangle_inside(i, top) ==
  LET At(p) == i[IF top THEN p ELSE Mirror(p)]
  IN /\ \A p \in Points : Covers(Triangle, p) => At(p) # "clear"
     /\ Dominant(At(<<-12, -14>>)) = "red"
     /\ Dominant(At(<<12, -14>>)) = "green"
     /\ Dominant(At(<<0, 13>>)) = "blue"
check_triangle_image(i, top) ==
  LET At(p) == i[IF top THEN p ELSE Mirror(p)]
  IN /\ \A p \in Points : Covers(Triangle, p) <=> At(p) # "clear"
     /\ Dominant(At(<<-12, -14>>)) = "red"
     /\ Dominant(At(<<12, -14>>)) = "green"
     /\ Dominant(At(<<0, 13>>)) = "blue"

Depth(i, use) ==
  /\ i[<<-10, -8>>] = "red" /\ i[<<12, -12>>] = "green"
  /\ i[<<0, -6>>] = IF use THEN "red" ELSE "green"

\* The verdict of each check of run_steps on the picture read back.
Check(name, i) ==
  CASE name = "clear" -> i = Flat("clear")
    [] name = "down" -> check_triangle_image(i, FALSE)
    [] name \in {"up", "final"} -> check_triangle_image(i, TRUE)
    [] name = "blend" -> i[<<0, -6>>] = "half" /\ i[<<-18, 18>>] = "clear"
    [] name = "depth" -> Depth(i, TRUE)
    [] name = "nodepth" -> Depth(i, FALSE)
    [] name = "texture" -> /\ i[<<-8, 8>>] = "red" /\ i[<<8, 8>>] = "green"
                           /\ i[<<-8, -8>>] = "blue" /\ i[<<8, -8>>] = "white"
                           /\ i[<<0, -19>>] = "clear"

(* ---- command streams --------------------------------------------------- *)
Create(h, on) == [op |-> "create", h |-> h, on |-> on]
Bind(b, d, f) == [op |-> "bind", blend |-> b, dsa |-> d, fs |-> f]
bind_pipeline(b, d, vs, fs) == <<[op |-> "need", hs |-> {"RASTERIZER", "ELEMENTS", vs, b, d, fs}], Bind(b, d, fs)>>
Buffers(vb, flip) == <<[op |-> "vb", res |-> vb], [op |-> "viewport", flip |-> flip]>>
Draw(indexed) == [op |-> "draw", indexed |-> indexed]
Fb(z) == [op |-> "fb", z |-> z]
Clear(z) == [op |-> "clear", z |-> z]

build_base_stream ==
  <<Create("SURFACE", "RT")>> \o
  [i \in 1..13 |-> Create(<<"BLEND", "BLEND_ALPHA", "DSA", "DSA_DEPTH", "RASTERIZER", "ELEMENTS",
                            "VS", "FS", "VS_POS", "FS_CONST", "VS_TEX", "FS_TEX", "SAMPLER">>[i], "none")]
build_clear_stream == <<Fb("none"), Clear(FALSE)>>
build_triangle_stream(flip) == bind_pipeline("BLEND", "DSA", "VS", "FS") \o Buffers("VB", flip) \o <<Draw(FALSE)>>
build_blend_stream ==
  build_clear_stream \o bind_pipeline("BLEND_ALPHA", "DSA", "VS_POS", "FS_CONST")
  \o <<[op |-> "const"]>> \o Buffers("VB", TRUE) \o <<Draw(FALSE)>>
build_depth_setup_stream == <<Create("ZSURFACE", "DEPTH")>>
build_depth_stream(use) ==
  <<Fb("ZSURFACE"), Clear(TRUE)>> \o bind_pipeline("BLEND", IF use THEN "DSA_DEPTH" ELSE "DSA", "VS", "FS")
  \o Buffers("VB2", TRUE) \o <<Draw(FALSE)>>
build_texture_setup_stream == <<Create("VIEW", "TEX")>>
build_texture_stream ==
  build_clear_stream \o bind_pipeline("BLEND", "DSA", "VS_TEX", "FS_TEX")
  \o <<[op |-> "need", hs |-> {"VIEW", "SAMPLER"}], [op |-> "view"], [op |-> "ib", res |-> "IB"]>>
  \o Buffers("QVB", TRUE) \o <<Draw(TRUE)>>

Streams == [base |-> build_base_stream, clear |-> build_clear_stream, down |-> build_triangle_stream(FALSE),
            up |-> build_triangle_stream(TRUE), blend |-> build_blend_stream,
            zsurface |-> build_depth_setup_stream, depth |-> build_depth_stream(TRUE),
            nodepth |-> build_depth_stream(FALSE), view |-> build_texture_setup_stream,
            texture |-> build_texture_stream]

(* ---- the host ----------------------------------------------------------- *)
NoPipe == [blend |-> "none", dsa |-> "none", fs |-> "none", fb |-> FALSE, vb |-> "none",
           ib |-> "none", flip |-> FALSE, const |-> FALSE, view |-> FALSE]
NoRes == [live |-> FALSE, back |-> FALSE, in_ctx |-> FALSE, data |-> FALSE]
HostInit(cs) == [capsets |-> cs, ctx |-> FALSE, err |-> FALSE, objs |-> {}, pipe |-> NoPipe,
                 res |-> [s \in Slots |-> NoRes], rt |-> Flat("zero"), z |-> Flat(-20), scanout |-> "2D"]

\* The colour one triangle v leaves at image point p over the colour under it.
Shade(g, v, p, under) ==
  LET at == IF g.pipe.flip THEN p ELSE Mirror(p)
  IN CASE g.pipe.fs = "FS" -> VertexColour(v, at)
       [] g.pipe.fs = "FS_TEX" -> IF g.pipe.view /\ g.res.TEX.data THEN write_texture(at) ELSE "zero"
       [] OTHER -> IF ~g.pipe.const THEN "zero" ELSE IF g.pipe.blend = "BLEND" THEN "white"
                   ELSE IF under = "clear" THEN "half" ELSE "other"
\* Where v passes the depth test, if there is one; before the first clear of the
\* depth buffer nothing does.
Visible(g, v) == {p \in Points :
  /\ Covers(v.at, IF g.pipe.flip THEN p ELSE Mirror(p))
  /\ g.pipe.dsa = "DSA_DEPTH" => v.z < g.z[p]}
Rasterize(g, v) ==
  LET vis == Visible(g, v)
  IN [g EXCEPT !.rt = [p \in Points |-> IF p \in vis THEN Shade(g, v, p, @[p]) ELSE @[p]],
               !.z = [p \in Points |-> IF p \in vis /\ g.pipe.dsa = "DSA_DEPTH" THEN v.z ELSE @[p]]]
Broken(g) == [g EXCEPT !.err = TRUE]
\* Vertices or indices not uploaded draw nothing; run_steps never draws from such a buffer.
DrawVbo(g, indexed) ==
  LET used_res == {g.pipe.vb} \cup (IF indexed THEN {g.pipe.ib} ELSE {})
  IN IF ~g.pipe.fb \/ "none" \in used_res \/ \E s \in used_res : ~g.res[s].live THEN Broken(g)
     ELSE IF \E s \in used_res : ~g.res[s].data THEN g
     ELSE FoldLeft(Rasterize, g, Geometry[g.pipe.vb])
run_command(g, c) ==
  CASE g.err -> g
    [] c.op = "create" -> IF c.h \in g.objs \/ (c.on # "none" /\ ~g.res[c.on].in_ctx) THEN Broken(g)
                          ELSE [g EXCEPT !.objs = @ \cup {c.h}]
    [] c.op = "need" -> IF c.hs \subseteq g.objs THEN g ELSE Broken(g)
    [] c.op = "bind" -> [g EXCEPT !.pipe.blend = c.blend, !.pipe.dsa = c.dsa, !.pipe.fs = c.fs]
    [] c.op = "fb" -> IF ({"SURFACE", c.z} \ {"none"}) \subseteq g.objs
                      THEN [g EXCEPT !.pipe.fb = TRUE] ELSE Broken(g)
    [] c.op = "clear" -> IF ~g.pipe.fb THEN Broken(g)
                         ELSE [g EXCEPT !.rt = Flat("clear"), !.z = IF c.z THEN Flat(20) ELSE @]
    [] c.op = "vb" -> [g EXCEPT !.pipe.vb = c.res]
    [] c.op = "viewport" -> [g EXCEPT !.pipe.flip = c.flip]
    [] c.op = "const" -> [g EXCEPT !.pipe.const = TRUE]
    [] c.op = "view" -> [g EXCEPT !.pipe.view = TRUE]
    [] c.op = "ib" -> [g EXCEPT !.pipe.ib = c.res]
    [] c.op = "draw" -> DrawVbo(g, c.indexed)
run_stream(g, s) == FoldLeft(run_command, g, s)

\* What the device does with request r, and what it answers.  A stream runs
\* in full unless it is cut after `run` of its commands.
Done(g, i) == [host |-> g, img |-> i, ans |-> "ok"]
handle(r, g, i, run) ==
  LET res == g.res[r.arg]
      Live(f) == Done([g EXCEPT !.res[r.arg] = f], i)
      ready == CASE r.cmd \in {"capinfo", "capset"} -> TRUE
                 [] r.cmd = "ctx_create" -> ~g.ctx
                 [] r.cmd \in {"ctx_destroy", "stream"} -> g.ctx
                 [] r.cmd = "create" -> ~res.live
                 [] r.cmd = "unref" -> res.live /\ ~res.in_ctx /\ g.scanout # r.arg
                 [] r.cmd = "backing" -> res.live /\ ~res.back /\ mem[r.arg] # "none"
                 [] r.cmd = "attach" -> g.ctx /\ res.live /\ ~res.in_ctx
                 [] r.cmd = "detach" -> g.ctx /\ res.live /\ res.in_ctx
                 [] r.cmd \in {"upload", "read"} -> g.ctx /\ res.back /\ res.in_ctx
                 [] r.cmd \in {"scanout", "flush"} -> r.arg = "2D" \/ res.live
  IN CASE ~ready -> [host |-> g, img |-> i, ans |-> "err"]
       [] r.cmd \in {"capinfo", "capset", "flush"} -> Done(g, i)
       [] r.cmd = "ctx_create" -> Done([g EXCEPT !.ctx = TRUE, !.err = FALSE], i)
       [] r.cmd = "ctx_destroy" -> Done([g EXCEPT !.ctx = FALSE, !.objs = {}, !.pipe = NoPipe], i)
       [] r.cmd = "stream" -> Done(run_stream(g, SubSeq(Streams[r.arg], 1, run)), i)
       [] r.cmd = "create" -> Live([NoRes EXCEPT !.live = TRUE])
       [] r.cmd = "unref" -> Live(NoRes)
       [] r.cmd = "backing" -> Live([res EXCEPT !.back = TRUE])
       [] r.cmd \in {"attach", "detach"} -> Live([res EXCEPT !.in_ctx = r.cmd = "attach"])
       [] r.cmd = "upload" -> Live([res EXCEPT !.data = mem[r.arg] = "written"])
       [] r.cmd = "read" -> Done(g, g.rt)
       [] r.cmd = "scanout" -> Done([g EXCEPT !.scanout = r.arg], i)

(* ---- the orchestrator ---------------------------------------------------- *)
E(step, do, arg) == [step |-> step, do |-> do, arg |-> arg]
make_res(step, s, backed) ==
  LET Backed(e) == IF backed THEN <<e>> ELSE <<>>
  IN Backed(E(step, "alloc", s)) \o <<E(step, "create", s)>> \o Backed(E(step, "backing", s))
     \o <<E(step, "attach", s)>>
filled(step, s) == make_res(step, s, TRUE) \o <<E(step, "write", s), E(step, "upload", s)>>
readback(step, verdict) == <<E(step, "read", "RT"), E(step, "check", verdict)>>
drawn(step, s) == <<E(step, "stream", s)>>

Prepare ==
  <<E("ctx", "ctx_create", "RT")>> \o make_res("rt", "RT", TRUE) \o drawn("rt", "base")
ClearScene == drawn("clear", "clear") \o readback("clear_rb", "clear")
\* Both orientations of the triangle; the first is drawn on the clear just checked.
TriangleScene ==
  drawn("draw", "down") \o readback("draw_rb", "down")
  \o drawn("draw", "clear") \o drawn("draw", "up") \o readback("draw_rb", "up")
BlendScene == drawn("blend", "blend") \o readback("blend", "blend")
DepthScene ==
  filled("depth", "VB2") \o make_res("depth", "DEPTH", FALSE) \o drawn("depth", "zsurface")
  \o drawn("depth", "depth") \o readback("depth", "depth")
  \o drawn("depth", "nodepth") \o readback("depth", "nodepth")
TextureScene ==
  filled("texture", "TEX") \o filled("texture", "QVB") \o filled("texture", "IB")
  \o drawn("texture", "view") \o drawn("texture", "texture") \o readback("texture", "texture")
Show ==
  drawn("scanout", "clear") \o drawn("scanout", "up") \o readback("scanout", "final")
  \o <<E("scanout", "scanout", "RT"), E("scanout", "flush", "RT")>>
Steps ==
  <<E("caps", "capinfo", "RT"), E("caps", "capset", "RT")>> \o Prepare \o ClearScene \o filled("vb", "VB")
  \o TriangleScene \o BlendScene \o DepthScene \o TextureScene \o Show

\* teardown's commands in order, each sent only when the Scene says so.
Downwards == Reverse(SLOTS)
Undo ==
  <<E("teardown", "scanout", "2D"), E("teardown", "flush", "2D")>>
  \o [i \in 1..7 |-> E("teardown", "detach", Downwards[i])]
  \o [i \in 1..7 |-> E("teardown", "unref", Downwards[i])]
  \o <<E("teardown", "ctx_destroy", "RT")>>
Wanted(scene, e) ==
  CASE e.do \in {"scanout", "flush"} -> scene.scanout_on_rt
    [] e.do = "detach" -> e.arg \in scene.in_ctx
    [] e.do = "unref" -> e.arg \in scene.created
    [] e.do = "ctx_destroy" -> scene.ctx

(* ---- one request ---------------------------------------------------------- *)
Full(r) == IF r.cmd = "stream" THEN Len(Streams[r.arg]) ELSE 0
\* The device takes n of the requests in the ring: every one of them points at
\* the same two descriptors, so it finds the latest request each time.
Served(r, n) ==
  FoldLeft(LAMBDA o, k : handle(r, o.host, o.img, Full(r)), [host |-> host, img |-> img, ans |-> "none"],
           [k \in 1..n |-> k])

\* The stream r is dropped by the host, which answers OK: nothing of it runs,
\* or it stops at some command and the context ignores all further work.
Dropped(r) ==
  /\ r.cmd = "stream" /\ host.ctx
  /\ \E k \in 0..Full(r) - 1, latch \in BOOLEAN :
       /\ k = 0 \/ latch
       /\ host' = [handle(r, host, img, k).host EXCEPT !.err = @ \/ latch]
  /\ dropped' = TRUE

\* exec: the response header is cleared, the request is put in the ring and the
\* driver waits for a completion, any completion.
exec(r, ans) ==
  /\ req' = r
  /\ \/ \E n \in 0..owed + 1 :
          /\ used + n >= 1
          /\ host' = Served(r, n).host /\ img' = Served(r, n).img /\ ans = Served(r, n).ans
          /\ owed' = owed + 1 - n /\ used' = used + n - 1
          /\ UNCHANGED <<faults, late, dropped>>
     \/ /\ faults = 0 /\ faults' = GpuFaults
        /\ ans = "timeout" /\ owed' = owed + 1 /\ late' = TRUE /\ UNCHANGED <<host, img, used, dropped>>
     \/ /\ faults < GpuFaults /\ faults' = faults + 1
        /\ \/ ans = "err" /\ UNCHANGED <<host, img, owed, used, late, dropped>>
           \/ ans = "ok" /\ Dropped(r) /\ UNCHANGED <<img, owed, used, late>>
Answers == {"ok", "err", "timeout", "none"}

Now == Steps[pc]
Request(e) == [cmd |-> e.do, arg |-> e.arg]
quiet == <<host, img, req, owed, used, late, dropped>>

\* The next entry of Undo that the Scene calls for, or the end.
Following(scene, from) ==
  LET want == {i \in from..Len(Undo) : Wanted(scene, Undo[i])}
  IN IF want = {} THEN Len(Undo) + 1 ELSE CHOOSE i \in want : \A j \in want : i <= j

fail(step) == failed' = step /\ mode' = "teardown" /\ pc' = Following(sc, 1) /\ UNCHANGED sc
advance(scene) ==
  /\ sc' = scene /\ UNCHANGED failed
  /\ IF pc < Len(Steps) THEN pc' = pc + 1 /\ UNCHANGED mode
     ELSE mode' = "teardown" /\ pc' = Following(scene, 1)

VirglInit ==
  /\ mode = "steps" /\ pc = 1 /\ failed = "none" /\ ok = TRUE
  /\ sc = [ctx |-> FALSE, scanout_on_rt |-> FALSE, created |-> {}, in_ctx |-> {}]
  /\ mem = [s \in Slots |-> "none"] /\ img = Flat("zero")
  /\ caps = [index |-> 0, found |-> FALSE]
  /\ \E cs \in CapsetLists : host = HostInit(cs)
  /\ req = [cmd |-> "none", arg |-> "RT"] /\ owed = 0 /\ used = 0
  /\ faults = 0 /\ late = FALSE /\ dropped = FALSE

\* One turn of the capset loop; an answer that is not OK, an empty entry and the
\* eighth turn end it.
Capsets ==
  /\ mode = "steps" /\ Now.do = "capinfo"
  /\ \E ans \in Answers :
       /\ exec(Request(Now), ans)
       /\ LET more == ans = "ok" /\ caps.index < Len(host.capsets)
              found == caps.found \/ (more /\ host.capsets[caps.index + 1] = "virgl")
          IN /\ caps' = [index |-> caps.index + 1, found |-> found]
             /\ IF more /\ caps.index < 7 THEN UNCHANGED <<mode, pc, sc, failed>>
                ELSE IF found THEN advance(sc) ELSE fail("caps")
  /\ UNCHANGED <<mem, ok>>

Local == {"capinfo", "alloc", "write", "check"}
\* The Scene learns of a resource only when make_res is through with it.
RecordedAtEnd(e) ==
  CASE e.do = "ctx_create" -> [sc EXCEPT !.ctx = TRUE]
    [] e.do = "attach" -> [sc EXCEPT !.created = @ \cup {e.arg}, !.in_ctx = @ \cup {e.arg}]
    [] e.do = "scanout" -> [sc EXCEPT !.scanout_on_rt = TRUE]
    [] OTHER -> sc
\* A command of run_steps, and what the Scene records of it.
Recorded(e) ==
  CASE e.do = "ctx_create" -> [sc EXCEPT !.ctx = TRUE]
    [] e.do = "create" -> [sc EXCEPT !.created = @ \cup {e.arg}]
    [] e.do = "attach" -> [sc EXCEPT !.in_ctx = @ \cup {e.arg}]
    [] e.do = "scanout" -> [sc EXCEPT !.scanout_on_rt = TRUE]
    [] OTHER -> sc
Command ==
  /\ mode = "steps" /\ Now.do \notin Local
  /\ \E ans \in Answers :
       /\ exec(Request(Now), ans)
       /\ IF ans = "ok" THEN advance(Recorded(Now)) ELSE fail(Now.step)
  /\ UNCHANGED <<mem, caps, ok>>

Alloc ==
  /\ mode = "steps" /\ Now.do = "alloc"
  /\ \/ mem' = [mem EXCEPT ![Now.arg] = "zero"] /\ advance(sc) /\ UNCHANGED faults
     \/ faults < GpuFaults /\ faults' = faults + 1 /\ fail(Now.step) /\ UNCHANGED mem
  /\ UNCHANGED <<caps, ok, quiet>>

Write ==
  /\ mode = "steps" /\ Now.do = "write"
  /\ mem' = [mem EXCEPT ![Now.arg] = "written"]
  /\ advance(sc) /\ UNCHANGED <<caps, ok, faults, quiet>>

Verify ==
  /\ mode = "steps" /\ Now.do = "check"
  /\ IF Check(Now.arg, img) THEN advance(sc) ELSE fail(Now.step)
  /\ UNCHANGED <<mem, caps, ok, faults, quiet>>

\* What the Scene forgets once entry e of Undo was sent, whatever the answer.
Forgotten(e) ==
  CASE e.do = "flush" -> [sc EXCEPT !.scanout_on_rt = FALSE]
    [] e.do = "detach" -> [sc EXCEPT !.in_ctx = @ \ {e.arg}]
    [] e.do = "unref" -> [sc EXCEPT !.created = @ \ {e.arg}]
    [] e.do = "ctx_destroy" -> [sc EXCEPT !.ctx = FALSE]
    [] OTHER -> sc
Teardown ==
  /\ mode = "teardown" /\ pc <= Len(Undo)
  /\ \E ans \in Answers :
       /\ exec(Request(Undo[pc]), ans)
       /\ ok' = (ok /\ ans = "ok")
  /\ sc' = Forgotten(Undo[pc]) /\ pc' = Following(sc', pc + 1)
  /\ UNCHANGED <<mode, mem, caps, failed>>

\* The backing stores go back, and the outcome is settled.
Finish ==
  /\ mode = "teardown" /\ pc > Len(Undo)
  /\ mode' = "done" /\ mem' = [s \in Slots |-> "none"]
  /\ failed' = IF failed = "none" /\ ~ok THEN "teardown" ELSE failed
  /\ UNCHANGED <<pc, sc, caps, ok, faults, quiet>>

\* The device gets round to a request the driver has given up on.
Late ==
  /\ owed > 0
  /\ LET o == Served(req, 1) IN host' = o.host /\ img' = o.img
  /\ owed' = owed - 1 /\ used' = used + 1
  /\ UNCHANGED <<mode, pc, sc, mem, caps, failed, ok, req, faults, late, dropped>>

VirglNext == Capsets \/ Command \/ Alloc \/ Write \/ Verify \/ Teardown \/ Finish \/ Late

\* run_selftest reports success only if every command stream was carried out:
\* the host answers OK to a stream it drops, so the pixels read back are the
\* only witness, and each stream leaves one that some later check reads.
PassMeansRendered == mode = "done" /\ failed = "none" => ~dropped /\ ~host.err

\* However far run_steps got, teardown leaves the device as it was found: no
\* context, no resource, the 2D scanout shown, all memory returned.  This is so
\* whenever every answer came in time and teardown's own commands were obeyed.
LeavesAsFound ==
  mode = "done" /\ ~late /\ ok =>
    /\ ~host.ctx /\ host.scanout = "2D"
    /\ \A s \in Slots : host.res[s] = NoRes /\ mem[s] = "none"

\* No memory goes back to the allocator while the device still has it as the
\* backing store of a resource.
FreedIsDetached == \A s \in Slots : host.res[s].back => mem[s] # "none"
==============================================================================
