------------------------------ MODULE HostStart ------------------------------
(***************************************************************************)
(* The life of the host's process: its settings are layered from defaults, *)
(* file and command line (renderd-config, renderd-host main.rs) and        *)
(* validated, the bitrate's engine is built from them (abr.rs), the        *)
(* endpoint is bound and then advertised, viewers are served until a       *)
(* signal, and what was turned on is turned off (app.rs, run), while the   *)
(* runtime's tasks go on.                                                  *)
(*                                                                         *)
(* What a session does in detail is HostSession's; here it starts capture  *)
(* or has yet to.  One is served at a time.                                *)
(***************************************************************************)
EXTENDS Integers, FiniteSets

CONSTANTS
  Values,      \* values a file may give a setting, by setting
  Overrides,   \* values the command line may, for those that have a flag
  MaxGiven,    \* bound: settings a file gives
  Ephemeral    \* the port the system picks for port 0

VARIABLES
  file,        \* what --config names: whether it is read, and the settings it gives
  cli,         \* the settings given by flags
  config,      \* RenderdConfig
  phase,       \* how far main and run are
  engine,      \* bounds and rate of the AbrEngine, None before
  endpoint,    \* port of the QUIC endpoint, 0 for none
  advertised,  \* port in the mDNS record, 0 for none
  session,     \* HostSession: "idle" or not
  task,        \* the session's: "none", "starting" or "serving"
  capturing,   \* CapturePipeline::is_running
  late         \* history: capture started after the shutdown stopped it

vars == <<file, cli, config, phase, engine, endpoint, advertised, session, task, capturing, late>>

\* RenderdConfig::default, as far as it is read.  "rest" stands for the fields
\* that are only checked to be in range: 1 when they are.
Defaults ==
  [port |-> 4433, display |-> 0, extend |-> 1, smooth |-> 0, fps |-> 60, start |-> 8000,
   height |-> 0, least |-> 1500, most |-> 10000, step |-> 1000, rest |-> 1]
Setting == DOMAIN Defaults

\* Those that HostCli has a flag for.
Flags == {"port", "display", "extend", "smooth"}

\* What the constants must be; the module that chooses them assumes it.
Assumption ==
  /\ DOMAIN Values \subseteq Setting
  /\ DOMAIN Overrides \subseteq Flags
  /\ \A k \in DOMAIN Values : Values[k] \subseteq Nat
  /\ \A k \in DOMAIN Overrides : Overrides[k] \subseteq Nat
  /\ MaxGiven \in Nat /\ Ephemeral \in Nat \ {0}

None == [min |-> 0, max |-> 0, rate |-> 0, step |-> 0]

\* Settings of up to n keys.
Partial(values, n) ==
  UNION {{f \in [keys -> UNION {values[k] : k \in keys}] : \A k \in keys : f[k] \in values[k]} :
           keys \in {s \in SUBSET DOMAIN values : Cardinality(s) <= n}}

Serving == {"listening", "unregistered", "stopped", "reset"}    \* the accept loop runs
Phase ==
  {"main", "loaded", "overridden", "valid", "built", "bound", "closed", "returned", "failing",
   "dropping", "failed"} \cup Serving

TypeOK ==
  /\ file.read \in {"whole", "missing", "broken"} /\ DOMAIN file.gives \subseteq Setting
  /\ DOMAIN cli \subseteq Flags
  /\ config \in [Setting -> Nat]
  /\ phase \in Phase
  /\ engine \in [min : Nat, max : Nat, rate : Nat, step : Nat]
  /\ {endpoint, advertised} \subseteq Nat
  /\ session \in {"idle", "busy"} /\ task \in {"none", "starting", "serving"}
  /\ {capturing, late} \subseteq BOOLEAN

Init ==
  /\ file \in [read : {"whole"}, gives : Partial(Values, MaxGiven)]
            \cup [read : {"missing", "broken"}, gives : {<<>>}]
  /\ cli \in Partial(Overrides, 1)
  /\ config = Defaults
  /\ phase = "main"
  /\ engine = None /\ endpoint = 0 /\ advertised = 0
  /\ session = "idle" /\ task = "none" /\ capturing = FALSE /\ late = FALSE

started == <<endpoint, advertised>>
serving == <<session, task, capturing, late>>

AtLeast(a, b) == IF a < b THEN b ELSE a
AtMost(a, b) == IF a < b THEN a ELSE b

\* Figment::merge, and the assignments of main: what is given wins.
Merged(under, over) == [k \in Setting |-> IF k \in DOMAIN over THEN over[k] ELSE under[k]]

-----------------------------------------------------------------------------
(* main: load, override, validate.                                         *)

\* A file that is not there is passed over, one that does not parse is not.
Build ==
  /\ phase = "main"
  /\ phase' = IF file.read = "broken" THEN "failed" ELSE "loaded"
  /\ config' = IF file.read = "whole" THEN Merged(config, file.gives) ELSE config
  /\ UNCHANGED <<file, cli, engine, started, serving>>

ApplyCli ==
  /\ phase = "loaded"
  /\ phase' = "overridden" /\ config' = Merged(config, cli)
  /\ UNCHANGED <<file, cli, engine, started, serving>>

ValidHost(c) ==
  /\ c.fps \in 1 .. 240
  /\ c.start \in 1000 .. 200000
  /\ c.height = 0 \/ c.height \in 360 .. 4320

MutValid(c) == ValidHost(c) /\ c.least <= c.most /\ c.step # 0 /\ c.rest = 1

\* ValidateConfig::validate
Valid(c) == ValidHost(c) /\ c.port # 0 /\ c.least <= c.most /\ c.step # 0 /\ c.rest = 1

Validate ==
  /\ phase = "overridden"
  /\ phase' = IF Valid(config) THEN "valid" ELSE "failed"
  /\ UNCHANGED <<file, cli, config, engine, started, serving>>

\* AbrManager::from_config: the host's max_bitrate_kbps is where the rate
\* starts, and the [abr] section bounds it.
EngineOf(c) ==
  LET min == AtLeast(c.least, 1000)
      max == AtLeast(c.most, min)
  IN [min |-> min, max |-> max, rate |-> AtMost(AtLeast(c.start, min), max), step |-> AtLeast(c.step, 250)]

\* HostApp::new
New ==
  /\ phase = "valid"
  /\ phase' = "built" /\ engine' = EngineOf(config)
  /\ UNCHANGED <<file, cli, config, started, serving>>

-----------------------------------------------------------------------------
(* run: bind, advertise, serve.                                            *)

Bind ==
  /\ phase = "built"
  /\ \/ phase' = "bound" /\ endpoint' = IF config.port = 0 THEN Ephemeral ELSE config.port
     \/ phase' = "failed" /\ UNCHANGED endpoint
  /\ UNCHANGED <<file, cli, config, engine, advertised, serving>>

\* BonjourAdvertiser::register, of the port the endpoint has, then the accept
\* loop is spawned; connections made before wait in the endpoint.  If it fails
\* the endpoint goes out of scope.
Register ==
  /\ phase = "bound"
  /\ \/ phase' = "listening" /\ advertised' = endpoint /\ UNCHANGED endpoint
     \/ phase' = "failed" /\ endpoint' = 0 /\ UNCHANGED advertised
  /\ UNCHANGED <<file, cli, config, engine, serving>>

\* The signal handler cannot be installed.
HandlerFails ==
  /\ phase = "listening"
  /\ phase' = "failing"
  /\ UNCHANGED <<file, cli, config, engine, started, serving>>

\* Whether tasks of the runtime still run.
Running == phase \in Serving \cup {"closed", "failing", "dropping"}

\* The accept loop: a viewer at a time.
Accept ==
  /\ phase \in Serving \cup {"failing", "dropping"}
  /\ session = "idle" /\ task = "none" /\ endpoint # 0
  /\ session' = "busy" /\ task' = "starting"
  /\ UNCHANGED <<file, cli, config, phase, engine, started, capturing, late>>

\* CapturePipeline::start of a session that got so far; nothing asks whether
\* the shutdown has begun.
CaptureStarts ==
  /\ Running /\ task = "starting"
  /\ task' = "serving" /\ capturing' = TRUE
  /\ late' = (late \/ phase \in {"stopped", "reset", "closed"})
  /\ UNCHANGED <<file, cli, config, phase, engine, started, session>>

\* teardown_session: the start failed, or the connection closed.
Teardown ==
  /\ Running /\ task # "none"
  /\ task' = "none" /\ capturing' = FALSE /\ session' = "idle"
  /\ UNCHANGED <<file, cli, config, phase, engine, started, late>>

-----------------------------------------------------------------------------
(* run after the signal, and what goes out of scope when it fails.         *)

Unregister ==
  /\ phase = "listening"
  /\ phase' = "unregistered" /\ advertised' = 0
  /\ UNCHANGED <<file, cli, config, engine, endpoint, serving>>

MutStopCapture ==
  /\ phase = "unregistered"
  /\ phase' = "stopped" /\ UNCHANGED capturing
  /\ UNCHANGED <<file, cli, config, engine, started, session, task, late>>

StopCapture ==
  /\ phase = "unregistered"
  /\ phase' = "stopped" /\ capturing' = FALSE
  /\ UNCHANGED <<file, cli, config, engine, started, session, task, late>>

\* The session is idle again, and the accept loop would take another viewer.
Reset ==
  /\ phase = "stopped"
  /\ phase' = "reset" /\ session' = "idle"
  /\ UNCHANGED <<file, cli, config, engine, started, task, capturing, late>>

\* QuicServer::close: every connection closes, which ends sessions if their
\* tasks still get to run.
Close ==
  /\ phase = "reset"
  /\ phase' = "closed" /\ endpoint' = 0
  /\ UNCHANGED <<file, cli, config, engine, advertised, serving>>

\* Tasks end wherever they are.
ShutdownBackground ==
  /\ phase = "closed"
  /\ phase' = "returned" /\ task' = "none"
  /\ UNCHANGED <<file, cli, config, engine, started, session, capturing, late>>

\* The advertiser is dropped before the runtime, whose accept loop has a
\* handle of the endpoint.
DropAdvertiser ==
  /\ phase = "failing"
  /\ phase' = "dropping" /\ advertised' = 0
  /\ UNCHANGED <<file, cli, config, engine, endpoint, serving>>

DropRuntime ==
  /\ phase = "dropping"
  /\ phase' = "failed" /\ endpoint' = 0 /\ task' = "none"
  /\ UNCHANGED <<file, cli, config, engine, advertised, session, capturing, late>>

Next ==
  \/ Build \/ ApplyCli \/ Validate \/ New
  \/ Bind \/ Register \/ HandlerFails
  \/ Accept \/ CaptureStarts \/ Teardown
  \/ Unregister \/ StopCapture \/ Reset \/ Close \/ ShutdownBackground
  \/ DropAdvertiser \/ DropRuntime

Spec == Init /\ [][Next]_vars

-----------------------------------------------------------------------------
(* Properties.                                                             *)

\* The first layer that gives a setting, from the top.
InForce(k) ==
  IF k \in DOMAIN cli THEN cli[k]
  ELSE IF k \in DOMAIN file.gives THEN file.gives[k] ELSE Defaults[k]

\* A host that runs has the settings asked for, flag before file before
\* default (main.rs and load.rs).
AsAsked == phase \notin {"main", "loaded", "failed"} => \A k \in Setting : config[k] = InForce(k)

\* Its engine's rate is within bounds that are in order, which clamp panics
\* without, whatever limits validate let through; and the sizes of streams are
\* chosen for no more than the engine may reach (abr.rs, control.rs).
EngineBounded ==
  engine # None =>
    /\ engine.min <= engine.rate /\ engine.rate <= engine.max
    /\ config.most <= engine.max

\* A port is advertised only while an endpoint has it, which is the one asked
\* for; and once run has ended none is, nor is the screen captured, but for a
\* session whose start crossed the shutdown (app.rs, run).
AdvertisedAnswers ==
  /\ advertised # 0 => advertised = endpoint
  /\ endpoint # 0 => endpoint = InForce("port")
  /\ phase \in {"returned", "failed"} => advertised = 0 /\ endpoint = 0
  /\ phase = "returned" /\ capturing => late

\* The host runs as its file and flags say, and leaves nothing behind.
RunsAsConfigured == AsAsked /\ EngineBounded /\ AdvertisedAnswers
=============================================================================
