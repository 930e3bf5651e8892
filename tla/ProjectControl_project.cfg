SPECIFICATION Spec
CONSTANTS
  Members = {m1}
  Requests = {r1, r2}
  Admins = {r1}
  Ops = {"create_project", "plan_dag", "plan_loop", "update_task", "mark_requester_report_sent", "record_loop_iteration", "pause_project", "resume_project", "complete_project"}
  Controls = {"PauseLoop", "ResumeLoop", "CreateProject", "PauseProject", "ResumeProject", "ReplanProject", "CompleteProject"}
  Created = FALSE
  MaxAttempts = 2
  MaxCas = 2
  MaxCalls <- TwoByMembers
INVARIANTS
  ControlsVetted
PROPERTIES
  PauseOwned
  CompletedSettled
CHECK_DEADLOCK FALSE
