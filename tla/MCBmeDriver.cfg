SPECIFICATION Spec
CONSTANTS
    Trims <- TheTrims
    ChipIds = {96, 0}
    Desired <- TheDesired
    Selections <- TheSelections
    Luck <- TheLuck
INVARIANTS InitConfigures StartedSensorIsCalibrated
PROPERTIES SelectedSettingsAreSet ModeKeepsSettings NeverHalfMeasuring
