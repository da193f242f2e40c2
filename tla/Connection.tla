----------------------------- MODULE Connection -----------------------------
(***************************************************************************)
(* The life of the connections between a C3 module and the simulated CPUs: *)
(* SimicsModule (simics_module.h), SimicsConnection (simics_connection.h)  *)
(* with its x86 and RISC-V subclasses, and C3SimicsConnection or           *)
(* RiscvC3SimicsConnection.                                                *)
(*                                                                         *)
(* Connecting creates an object with the options given on the command line *)
(* (simics_start.py), fetches the CPU's interfaces, and then builds the    *)
(* model, which registers its callbacks.  Attributes change options later, *)
(* and have to reach whatever the option is about, if it exists yet.       *)
(*                                                                         *)
(* A connection is known by its number.  Some callbacks are switched one   *)
(* by one: that of exceptions and those of the CA stack; the others are    *)
(* one here.  SIM_create_object is not given trace_exceptions or           *)
(* break_on_exception, whose setters need the interfaces.                  *)
(***************************************************************************)
EXTENDS Naturals

CONSTANT Riscv      \* the module is the one for RISC-V

VARIABLES
  connections,              \* connections_
  next_connection_number,
  con,                      \* the connection objects that exist
  cbs,                      \* number -> the CPU's view of the connection's callbacks
  stage                     \* how far connect is with the connection made last

conn_vars == <<connections, next_connection_number, con, cbs, stage>>

Kinds == {"exception", "stack", "model"}

NoCallbacks == [k \in Kinds |-> "none"]

\* What a connection object may have: options, then its interfaces, the model, the handles of
\* its callbacks, then the debug flag of the instructions and the integrity of the model and, as
\* history, that the guest has loaded a context.
Flags == {"trace_exceptions", "break_on_exception", "debug_on", "integrity", "stack_hardening",
          "ci_iface", "c3", "exception_cb", "stack", "m_debug", "icv_enabled", "loaded"}

Put(o, f, val) == IF val THEN o \cup {f} ELSE o \ {f}

-----------------------------------------------------------------------------
\* The exception callback, registered when it is first needed and then switched.
WantsExceptions(o) == "trace_exceptions" \in o \/ "break_on_exception" \in o

update_exception_callback(o) == IF WantsExceptions(o) THEN o \cup {"exception_cb"} ELSE o

ExceptionSwitch(o, cb) ==
  IF WantsExceptions(o) THEN [cb EXCEPT !["exception"] = "on"]
  ELSE IF "exception_cb" \in o THEN [cb EXCEPT !["exception"] = "off"] ELSE cb

\* C3Model::set_stack_hardening: the callbacks of CaStack, treated the same way.
model_set_stack_hardening(o) == IF "stack_hardening" \in o THEN o \cup {"stack"} ELSE o

StackSwitch(o, cb) ==
  IF "stack_hardening" \in o THEN [cb EXCEPT !["stack"] = "on"]
  ELSE IF "stack" \in o THEN [cb EXCEPT !["stack"] = "off"] ELSE cb

-----------------------------------------------------------------------------
\* The setters of attributes.  Those of C3SimicsConnection also run before the model exists.
riscv_set_debug_on(o, val) == Put(o, "debug_on", val)

set_debug_on(o, val) ==
  LET p == Put(o, "debug_on", val) IN IF "c3" \in o THEN Put(p, "m_debug", val) ELSE p

con_set_integrity(o, val) ==
  LET p == Put(o, "integrity", val) IN IF "c3" \in o THEN Put(p, "icv_enabled", val) ELSE p

Create(debug_on, integrity, stack_hardening) ==
  LET n == next_connection_number
      o == IF Riscv THEN riscv_set_debug_on({}, debug_on)
           ELSE Put(con_set_integrity(set_debug_on({}, debug_on), integrity),
                    "stack_hardening", stack_hardening)
  IN  /\ stage = "idle"
      /\ con' = [k \in (DOMAIN con) \cup {n} |-> IF k = n THEN o ELSE con[k]]
      /\ cbs' = [k \in (DOMAIN cbs) \cup {n} |-> IF k = n THEN NoCallbacks ELSE cbs[k]]
      /\ next_connection_number' = n + 1
      /\ connections' = connections \cup {n}
      /\ stage' = "created"

Connecting == next_connection_number - 1

\* SimicsConnection::module_configure fetches the interfaces before it needs them.
Interfaces(o) == o \cup {"ci_iface"}

module_configure ==
  LET n == Connecting
      o == Interfaces(con[n])
  IN  /\ stage = "created"
      /\ con' = [con EXCEPT ![n] = update_exception_callback(o)]
      /\ cbs' = [cbs EXCEPT ![n] = ExceptionSwitch(o, cbs[n])]
      /\ stage' = "module_configured"
      /\ UNCHANGED <<connections, next_connection_number>>

\* The model, the context and the instructions are made and registered; then the options that
\* came too early are set again.
configure ==
  LET n == Connecting
      o == model_set_stack_hardening(con[n]) \cup {"c3"}
  IN  /\ stage = "module_configured" /\ ~Riscv
      /\ con' = [con EXCEPT ![n] = set_debug_on(con_set_integrity(o, "integrity" \in o),
                                               "debug_on" \in o)]
      /\ cbs' = [cbs EXCEPT ![n] = [StackSwitch(o, cbs[n]) EXCEPT !["model"] = "on"]]
      /\ stage' = "idle"
      /\ UNCHANGED <<connections, next_connection_number>>

\* RiscvC3SimicsConnection::configure: no instructions, integrity or CA stack to set up.
riscv_configure ==
  LET n == Connecting
      o == con[n] \cup {"c3"}
  IN  /\ stage = "module_configured" /\ Riscv
      /\ con' = [con EXCEPT ![n] = riscv_set_debug_on(o, "debug_on" \in o)]
      /\ cbs' = [cbs EXCEPT ![n]["model"] = "on"]
      /\ stage' = "idle"
      /\ UNCHANGED <<connections, next_connection_number>>

-----------------------------------------------------------------------------
\* An attribute is set by a script, on a connection that is not being made.
Change(n, o, cb) ==
  /\ stage = "idle" /\ n \in DOMAIN con
  /\ con' = [con EXCEPT ![n] = o]
  /\ cbs' = [cbs EXCEPT ![n] = cb]
  /\ UNCHANGED <<connections, next_connection_number, stage>>

SetTraceExceptions(n, val) ==
  LET o == Put(con[n], "trace_exceptions", val)
  IN  Change(n, update_exception_callback(o), ExceptionSwitch(o, cbs[n]))

SetBreakOnException(n, val) ==
  LET o == Put(con[n], "break_on_exception", val)
  IN  Change(n, update_exception_callback(o), ExceptionSwitch(o, cbs[n]))

SetDebugOn(n, val) == ~Riscv /\ Change(n, set_debug_on(con[n], val), cbs[n])

RiscvSetDebugOn(n, val) == Riscv /\ Change(n, riscv_set_debug_on(con[n], val), cbs[n])

SetIntegrity(n, val) ==
  ~Riscv /\ Change(n, con_set_integrity(con[n], val) \ {"loaded"}, cbs[n])

SetStackHardening(n, val) ==
  LET o == Put(con[n], "stack_hardening", val)
  IN  ~Riscv /\ Change(n, model_set_stack_hardening(o), StackSwitch(o, cbs[n]))

\* ctx_loaded_cb: the guest's context decides about integrity from here on.  A RISC-V guest has
\* no instruction to load one.
LoadContext(n, val) ==
  ~Riscv /\ Change(n, Put(con[n], "icv_enabled", val) \cup {"loaded"}, cbs[n])

\* disconnect: the bookkeeping, and then SIM_delete_object, which removes the callbacks first.
Disconnect(n) ==
  /\ stage = "idle" /\ n \in connections
  /\ connections' = connections \ {n}
  /\ cbs' = [cbs EXCEPT ![n] = NoCallbacks]
  /\ con' = [k \in (DOMAIN con) \ {n} |-> con[k]]
  /\ UNCHANGED <<next_connection_number, stage>>

ConnInit ==
  /\ connections = {} /\ next_connection_number = 0
  /\ con = [k \in {} |-> 0] /\ cbs = [k \in {} |-> 0]
  /\ stage = "idle"

ConnNext ==
  \/ \E debug_on, integrity, stack_hardening \in BOOLEAN :
       Create(debug_on, integrity, stack_hardening)
  \/ module_configure
  \/ configure
  \/ riscv_configure
  \/ \E n \in connections, val \in BOOLEAN :
       \/ SetTraceExceptions(n, val)
       \/ SetBreakOnException(n, val)
       \/ SetDebugOn(n, val)
       \/ RiscvSetDebugOn(n, val)
       \/ SetIntegrity(n, val)
       \/ SetStackHardening(n, val)
       \/ LoadContext(n, val)
  \/ \E n \in connections : Disconnect(n)

ConnSpec == ConnInit /\ [][ConnNext]_conn_vars

-----------------------------------------------------------------------------
\* The types of the state; the module's connections are the objects that exist.
ConnTypeOK ==
  /\ next_connection_number \in Nat
  /\ connections \subseteq 0 .. next_connection_number - 1
  /\ con \in [connections -> SUBSET Flags]
  /\ cbs \in [0 .. next_connection_number - 1 -> [Kinds -> {"none", "off", "on"}]]
  /\ stage \in {"idle", "created", "module_configured"}

\* Once connect is through with a connection.
Ready(n) == n \in connections /\ (stage = "idle" \/ n # Connecting)

(***************************************************************************)
(* Whatever order options are given in -- on the command line, before      *)
(* there is a model to give them to (c3_simics_connection.h:88), or later  *)
(* by attribute, back and forth -- each is in force on a connection that   *)
(* is ready: the exception callback runs exactly if tracing or breaking is *)
(* asked for, the CA stack's exactly with stack hardening, the debug flag  *)
(* is that of the connection, and so is integrity until a guest's context  *)
(* decides otherwise.  On RISC-V only the first of these exists.           *)
(***************************************************************************)
OptionsInForce ==
  \A n \in connections : Ready(n) =>
    /\ cbs[n]["exception"] = "on" <=> WantsExceptions(con[n])
    /\ cbs[n]["stack"] = "on" <=> "stack_hardening" \in con[n]
    /\ ~Riscv => ("m_debug" \in con[n] <=> "debug_on" \in con[n])
    /\ "loaded" \notin con[n] => ("icv_enabled" \in con[n] <=> "integrity" \in con[n])
    /\ cbs[n]["model"] = "on"

(***************************************************************************)
(* No CPU ever calls back into a connection that is gone or whose model    *)
(* is not built yet, and no callback is registered before the interface    *)
(* it is registered with is there.                                         *)
(***************************************************************************)
NoStrayCallback ==
  \A n \in DOMAIN cbs :
    /\ cbs[n] # NoCallbacks => n \in connections /\ "ci_iface" \in con[n]
    /\ cbs[n]["model"] = "on" \/ cbs[n]["stack"] = "on" => "c3" \in con[n]
=============================================================================
