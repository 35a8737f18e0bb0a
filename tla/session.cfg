SPECIFICATION Spec
CONSTANTS
  Options <- MCOptions
  Steps = {20003, 59736}
  Hitches = {0, 10, 60}
  Period = 10
  Pads = {0, 1}
  MaxFrames = 3
INVARIANTS RouteOnTime PassMeansComplete PadIsScripts SoundExact
           ReportExact LimitExact Realtime
