SPECIFICATION Spec
CONSTANTS
  Builds <- MCBuilds
  DelayMs = 3
  Period = 2
  MaxTick = 18
  Spare = 3
INVARIANTS
  BoardTypeOK
  SettingsFit
  HostSeesDisconnect
  ButtonObeyed
PROPERTY
  Stage2Shines
