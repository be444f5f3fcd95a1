SPECIFICATION Spec
INVARIANTS TypeOK RedirectAnsweredOnce OwnerWhileLive MigrationIsQuiet
PROPERTY DrainWins
