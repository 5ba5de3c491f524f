CONSTANTS
  Callers = {s, o}
  Keys = {k}
  MaxTtl = 2
  Margin = 1
  MaxTransit = 1
  MaxTime = 3
  Sender = s
  Templated = {"feishu_bot"}
  MaxTargets = 2
  MaxVersions = 2
SPECIFICATION OutboundSpec
INVARIANTS OutboundTypeOK MarginKept ReportsTruly RendersCurrent
PROPERTIES EveryTargetAnswered
CHECK_DEADLOCK FALSE
