SPECIFICATION WebSpec
CONSTANTS
  Parts = {"deploy"}
  NoSend = NoSend
  Recipients = {r1, r2}
  Sends = {m1, m2}
  Workers = {w1}
  Window = 1
  MaxTime = 4
  Outcomes = {"delivered_to_mail_server", "bounced", "failed", "delivery_delayed"}
  Faults = {"refused", "crash"}
  Requests = {q1, q2, q3}
  Threshold = 3
  FailureWindow = 3
  OpenDuration = 2
  OutputFormats = {"epub", "kfx"}
  Kinds = {"pdf", "zip", "exe", "none"}
  Extensions = {"mobi", "exe"}
  Modes = {"normal", "force", "emergency-bypass"}
  MaxCommits = 2
  Broken = {1}
  Renag = 3
  Submissions = {s1, s2, s3}
  IpLimit = 2
  EmailLimit = 1
  Lag = 1
  MaxHours = 1
INVARIANTS
  RecoveredIsServing
CHECK_DEADLOCK FALSE
