------------------------- MODULE MCPipelineExecution -------------------------
EXTENDS PipelineExecution

Program(entry, strategy, mode) == [entry |-> entry, strategy |-> strategy, mode |-> mode]

\* A domain program, and the certification program: each strategy, each mode.
EveryProgram ==
    {Program("domain", "REPLACE", "SUCCESS"),
     Program("certification", "SCD2", "SUCCESS"),
     Program("certification", "REPLACE", "RECONCILIATION_FAILED"),
     Program("certification", "SCD1", "RECONCILIATION_FAILED"),
     Program("certification", "SCD1", "CERTIFICATION_RETRYABLE_FAILURE")}

\* The domain program alone.
DomainProgram == {Program("domain", "REPLACE", "SUCCESS")}

SomeFailures == {[code |-> "UNKNOWN_COMMIT", retry |-> "yes"]}
===============================================================================
