SPECIFICATION Spec
CONSTANTS
  Midnight = 5
  PresetMax = 4
  PresetDef = 2
  MinLoad = 2
  MaxLoad = 4
  DevMin = 1
  PrioDef = 8
  HomeCalls <- MCHomeCalls
  Schedules <- MCHomeSchedules
  MaxHomeCalls = 2
  Days = {0, 1, 2}
  MinPower = 0
  MaxPower = 4
  PowerDef = 2
  ModeOptions = {"manual", "smartplugs", "use_time", "smartmeter"}
  PlanCalls <- MCPlanCalls
  PlanLists <- MCPlanLists
  MaxPlanCalls = 1
  ChargeCalls <- MCChargeCalls
  ChargeTimes = {1, 3}
  ChargeDef = 3
  Backups <- MCBackups
  Months = 4
  Hours = 3
  Tariffs = {1, 2, 3}
  TariffDef = 3
  PriceDef = 5
  UseCalls <- MCUseCalls
  UsePlans <- MCUsePlans
  UseMonths = {2}
  MaxUseCalls = 1
  Requesters = {r1, r2}
  Window = 4
  ThrottleAge = 5
  RequestDelay = 1
  Limits = {0, 1, 2}
  Burst = 4
  Settings = {clock, holiday}
  Rest = rest
  MaxCommands = 2
  MaxChanges = 1
  MaxReports = 1
  MaxLosses = 1
  DayLength = 4
  Interval = 2
  Margin = 1
  EnergyEnd = 9
  EnergySites <- MCEnergySites
  Shifts <- MCShifts
  EmptyRecords = {{}, {3}}
  NotYet = NotYet
  MaxEnergyFaults = 1
  MaxPollTicks = 1
  DayHours = 4
  ForecastEnd = 10
  MaxModeChanges = 1
  MaxRestarts = 1
  MaxForecastFaults = 1
  Providers = {"nordpool", "other"}
  SpotProviders = {"nordpool"}
  PriceHours = 2
  PriceEnd = 3
  Fees = {1, 2}
  MaxPriceCalls = 1
  MaxPriceFaults = 1
  VehicleIds = {1, 2}
  Catalogue <- MCCatalogue
  NewVehicle <- MCNewVehicle
  Capacities = {7}
  Garages <- MCGarages
  MaxVehicleCalls = 1
  MaxVehicleFaults = 1
  MaxAppChanges = 1
  Kinds = {"bank", "panel", "charger"}
  DeviceMessages <- MCDeviceMessages
  CloudSocs <- MCCloudSocs
  CloudPacks <- MCCloudPacks
  CustomSizes = {900}
  PackSize = 200
  MaxMessages = 3
  MaxPolls = 2
  MaxCustoms = 2
  Increments <- MCIncrements
  FieldChoices <- MCFields
  MaxFields = 4
  ValueDescs <- MCValueDescs
  TestValues <- MCTestValues
  Layouts <- MCLayouts
CHECK_DEADLOCK FALSE
INVARIANTS
  HomeScheduleSound
  LoneTaskKeepsLimit
  QuietCacheTrue
  OffsetSettles
  BreakdownFollows
  TrendInOrder
  ShownHourCurrent
  PriceShownTrue
  VehiclesFollow
  WrittenIsRead
PROPERTIES
  HomeEditsExact
  PlanEditExact
  BackupAhead
  UsePlanStaysComplete
  UseEditsExact
  CommandsAddUp
  YesterdayFinal
  RestoreExact
  EnergyCurrent
  CircuitsAddUp
