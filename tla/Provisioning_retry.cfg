\* Only the seed creates its users; it dies and is run again.
CONSTANTS
  Admin = admin
  SeedUsers = {owner}
  SeedCompanies = {company}
  Pieces = {membership}
  People = {}
  Instances = {seeder}
  Seeder = seeder
  MaxRuns = 2
CHECK_DEADLOCK FALSE
SPECIFICATION ProvisioningSpec
INVARIANT RetriesCompleteTheSeed
