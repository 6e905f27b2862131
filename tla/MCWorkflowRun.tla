--------------------------- MODULE MCWorkflowRun ----------------------------
(***************************************************************************)
(* Small instances of WorkflowRun for TLC.                                 *)
(***************************************************************************)
EXTENDS WorkflowRun

CONSTANTS fn, testFn, role, testRole

\* A function's name, and its ARN.
Named(f) == [name |-> f, arn |-> FALSE]
ArnOf(f) == [name |-> f, arn |-> TRUE]

Connection(f, r, tf, tr) ==
  [function |-> [production |-> f, synthetic |-> tf],
   role |-> [production |-> r, synthetic |-> tr]]

\* Only production, both brokers, a test broker that shares the production role
\* or function, by the same text or by another, and a test broker alone.
Brokers == {Connection(Named(fn), role, Nothing, Nothing),
            Connection(Named(fn), role, Named(testFn), testRole),
            Connection(Named(fn), role, Named(testFn), role),
            Connection(Named(fn), role, Named(fn), testRole),
            Connection(Named(fn), role, ArnOf(fn), testRole),
            Connection(Nothing, Nothing, Named(testFn), testRole)}

Configured(mode, variant, transport, enabled, bootstrap, synthetic, brokers) ==
  {[mode |-> mode, variant |-> variant, transport |-> transport, enabled |-> enabled,
    bootstrap |-> bootstrap, synthetic |-> s, function |-> b.function, role |-> b.role] :
     s \in synthetic, b \in brokers}

Both == {Connection(Named(fn), role, Named(testFn), testRole)}

\* The delegated route, with every broker configuration, for real and synthetic gates.
DelegatedSetups == Configured("enforce", "scan", "lambda", TRUE, FALSE, BOOLEAN, Brokers)

\* The in-job route over either transport, modes that nobody enforces, a mode
\* nobody knows, break-glass switched off, and bootstrap runs.
InJobSetups ==
  UNION {Configured("enforce", "legacy", "lambda", TRUE, FALSE, BOOLEAN, Brokers),
         Configured("enforce", "scan", "http", TRUE, FALSE, {FALSE}, Both),
         Configured("enforce", "scan", "lambda", FALSE, FALSE, {FALSE}, Both),
         Configured("log-only", "scan", "lambda", TRUE, FALSE, {FALSE}, Both),
         Configured("unknown", "legacy", "lambda", TRUE, FALSE, {FALSE}, Both),
         Configured("log-only", "scan", "lambda", TRUE, TRUE, {FALSE}, Both),
         Configured("enforce", "scan", "lambda", TRUE, TRUE, {FALSE}, Both)}

AllSetups == DelegatedSetups \cup InJobSetups

\* The framework's policy, and a vendored toolkit whose gate marks everything.
AnyMarks == {EligibleRules, Rules}

MixedBlocks == {{}, {"sast_new"}, {"verified_secret"}, {"sast_new", "verified_secret"}}

=============================================================================
