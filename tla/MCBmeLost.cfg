SPECIFICATION Spec
CONSTANTS
    Trims <- TheTrims
    ChipIds = {96, 0}
    Desired <- TheDesired
    Selections <- TheSelections
    Luck <- TheLuck
INVARIANT CalibratedWhateverIsLost
