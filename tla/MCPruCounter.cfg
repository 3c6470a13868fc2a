SPECIFICATION FairSpec
INVARIANTS StoredCoversAPeriod
PROPERTIES ImplementsMeter MeasurementsKeepComing
