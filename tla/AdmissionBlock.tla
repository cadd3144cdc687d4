---------------------------- MODULE AdmissionBlock ----------------------------
(* One `adaptive_admission { }` block of a Caddyfile: what its lines parse  *)
(* to (adaptiveadmission/module.go, UnmarshalCaddyfile) and the controller  *)
(* it asks for (adaptiveadmission/config.go).                               *)
(*                                                                          *)
(* A line is a record [key, args, block]: the subdirective, its arguments   *)
(* and the lines of its sub-block. Bad stands for any token that does not   *)
(* parse as what is read.                                                   *)
EXTENDS Integers, SequencesExt

CONSTANT Bad

Kinds == {"fixed", "adaptive"}

(* The zero Handler. backendLabel is folded into the label.                 *)
NewBlock == [ok |-> TRUE, label |-> "default", queue_max_size |-> 0, queue_timeout |-> 0,
             kind |-> "", limit |-> 0, min_concurrency |-> 0, initial_concurrency |-> 0,
             max_concurrency |-> 0]

Refuse(b) == [b EXCEPT !.ok = FALSE]   \* d.Errf, d.ArgErr
Value(b, line) == Len(line.args) > 0 /\ line.args[1] # Bad

(* The tuning of adjust() is read and checked; AdjustLoop takes it from     *)
(* there.                                                                   *)
ControllerLine(b, line) ==
    IF ~Value(b, line) THEN Refuse(b)
    ELSE IF line.key \in {"limit", "min_concurrency", "initial_concurrency", "max_concurrency"}
    THEN [b EXCEPT ![line.key] = line.args[1]]
    ELSE IF line.key \in {"target_p95", "timeout_rate_threshold", "error_rate_threshold",
                          "adjust_interval"}
    THEN b
    ELSE Refuse(b)

(* A second controller sub-block changes the kind and keeps what the first  *)
(* one set.                                                                 *)
unmarshalController(b, line) ==
    IF Len(line.args) # 1 \/ line.args[1] \notin Kinds THEN Refuse(b)
    ELSE FoldLeft(ControllerLine, [b EXCEPT !.kind = line.args[1]], line.block)

Line(b, line) ==
    CASE line.key = "controller" -> unmarshalController(b, line)
      [] line.key = "backend" /\ Len(line.args) > 0 -> [b EXCEPT !.label = line.args[1]]
      [] line.key \in {"queue_max_size", "queue_timeout"} /\ Value(b, line) ->
           [b EXCEPT ![line.key] = line.args[1]]
      [] OTHER -> Refuse(b)

UnmarshalCaddyfile(lines) == FoldLeft(Line, NewBlock, lines)

(* buildController: whether it builds one, and the limit it starts with.    *)
Buildable_MaxOnly(b) ==   \* mutant: of the adaptive settings only the maximum is checked
    IF b.kind = "adaptive" THEN b.max_concurrency > 0 ELSE b.limit > 0
Buildable(b) ==
    IF b.kind = "adaptive"
    THEN b.min_concurrency > 0 /\ b.initial_concurrency > 0 /\ b.max_concurrency > 0
    ELSE b.limit > 0
StartLimit(b) == IF b.kind = "adaptive" THEN b.initial_concurrency ELSE b.limit
=============================================================================
