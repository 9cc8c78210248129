SPECIFICATION FairMigrationsSpec
CONSTANTS
    Migrators = {m1, m2}
    Apps = {a1}
    Nil = Nil
INVARIANT SchemaMatchesVersion
 
PROPERTY FailsOnlyIfOvertaken
 
 
