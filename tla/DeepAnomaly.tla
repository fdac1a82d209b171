---------------------------- MODULE DeepAnomaly -----------------------------
(***************************************************************************)
(* The autoencoder of strategy/dl_anomaly_strategy.py: a scaler, a model   *)
(* and a threshold that a call of on_schedule makes anew every six hours,  *)
(* and that the calls in between use.  A call may fail at any point; the   *)
(* strategy catches the error and keeps what the call had changed.         *)
(*                                                                         *)
(* What is learned is left out: a training has a number, and the three say *)
(* of which they are.                                                      *)
(***************************************************************************)
EXTENDS Naturals

CONSTANT MaxTrainings   \* bound on the trainings that begin

VARIABLES scaler,      \* the training whose data it was fitted to, 0: none
          model,       \* the training it is of, and whether that was finished
          threshold,   \* train_loss_mean and train_loss_std, 0: none
          trainedAt,   \* last_train_time: "never", "lately", or longer ago
          pc,          \* where on_schedule is
          begun        \* trainings so far

deepVars == <<scaler, model, threshold, trainedAt, pc, begun>>

DeepInit ==
  /\ scaler = 0 /\ model = [of |-> 0, done |-> FALSE] /\ threshold = 0
  /\ trainedAt = "never" /\ pc = "idle" /\ begun = 0

NeedsTraining == trainedAt # "lately"

\* The candles have come; the scaler is fitted when a training is due.
Fit ==
  /\ pc = "idle" /\ (NeedsTraining => begun < MaxTrainings)
  /\ IF NeedsTraining THEN begun' = begun + 1 /\ scaler' = begun' /\ pc' = "train"
                      ELSE pc' = (IF model.of = 0 THEN "train" ELSE "infer")
                           /\ UNCHANGED <<scaler, begun>>
  /\ UNCHANGED <<model, threshold, trainedAt>>

\* _train_model: a new model, which is trained.
NewModel ==
  /\ pc = "train" /\ pc' = "epochs" /\ model' = [of |-> scaler, done |-> FALSE]
  /\ UNCHANGED <<scaler, threshold, trainedAt, begun>>

\* MUTANT of Trained: the threshold of the training before is kept.
TrainedKeeps ==
  /\ pc = "epochs" /\ pc' = "infer" /\ model' = [model EXCEPT !.done = TRUE]
  /\ trainedAt' = "lately"
  /\ UNCHANGED <<scaler, threshold, begun>>

Trained ==
  /\ pc = "epochs" /\ pc' = "infer" /\ model' = [model EXCEPT !.done = TRUE]
  /\ threshold' = 0 /\ trainedAt' = "lately"
  /\ UNCHANGED <<scaler, begun>>

\* The current window is judged, with a threshold that is made when there is none.
Infer ==
  /\ pc = "infer" /\ pc' = "judge"
  /\ threshold' = IF threshold = 0 THEN model.of ELSE threshold
  /\ UNCHANGED <<scaler, model, trainedAt, begun>>

Judge == pc = "judge" /\ pc' = "idle" /\ UNCHANGED <<scaler, model, threshold, trainedAt, begun>>

Fails == pc # "idle" /\ pc' = "idle" /\ UNCHANGED <<scaler, model, threshold, trainedAt, begun>>

SixHours ==
  /\ trainedAt = "lately" /\ pc = "idle" /\ trainedAt' = "earlier"
  /\ UNCHANGED <<scaler, model, threshold, pc, begun>>

DeepNext == Fit \/ NewModel \/ Trained \/ Infer \/ Judge \/ Fails \/ SixHours

DeepSpec == DeepInit /\ [][DeepNext]_deepVars

-----------------------------------------------------------------------------
\* A window is judged by a model whose training was finished, with the scaler and the
\* threshold of that training, whatever failed before.
JudgedByItsOwn ==
  pc = "judge" => model.done /\ scaler = model.of /\ threshold = model.of
=============================================================================
